---------------------------- MODULE SkillAuthority ----------------------------
(***************************************************************************)
(* Who may use the tools of a Skill, from the package to the side effect:  *)
(* the installation row and its capability rows (skills/service.py), the   *)
(* grants on it (skills/grant_service.py over AuthorizationGrants), the    *)
(* catalogue a process keeps (skills/registry.py), the binding a run is    *)
(* given (services/agent_run_service.py) and the check every tool call     *)
(* makes under the rows' locks (skills/authorization.py).                  *)
(*                                                                         *)
(* One Skill, one process.  A management request names the installation    *)
(* revision it has read and is refused unless that is still the current    *)
(* one, so each is one transaction on the current rows; it waits while a   *)
(* tool call holds the installation.  Only sessions that keep their locks  *)
(* while a tool works are drawn out.                                       *)
(*                                                                         *)
(* Packages are runtime ready and their stored bytes intact; a package is  *)
(* its version.  The settings that touch no authority, and grants asked    *)
(* for directly, which no installation points to, are left out.            *)
(***************************************************************************)
EXTENDS Naturals

CONSTANTS
  Grants, SkillAdmins, SecurityAdmins,  \* as in AuthorizationGrants
  Versions,     \* the packages of the Skill
  ToolSets,     \* the values of settings["tools"]
  Runs,         \* agent runs that select the Skill
  MaxRevision,  \* bound: changes made to the installation
  None

VARIABLES
  versions,  \* skill_versions.status
  inst,      \* the skill_installations row; revision 0 while there is none
  caps,      \* skill_capability_grants by version; revision 0 while there is none
  grants,    \* authorization_grants
  registry,  \* the process's catalogue entry, and whether it is at the database's revision
  runs,      \* skill_run_bindings, and where each run stands
  lock       \* <<run, session>> holding the installation and its grant, or None

ASSUME SkillAssumption ==
  /\ MaxRevision \in Nat \ {0}
  /\ None \notin Runs \X {"tool", "request"}

vars == <<versions, inst, caps, grants, registry, runs, lock>>
tableVars == <<versions, inst, caps, grants>>

Contents == [version : Versions, tools : ToolSets]

G == INSTANCE AuthorizationGrants WITH Targets <- 1..MaxRevision

NoCap == [revision |-> 0, tools |-> None]
NoEntry == [version |-> None, revision |-> 0, tools |-> None]
Unbound == [pc |-> "idle", entry |-> NoEntry, grant |-> None, seen |-> None]

Progress == {"idle", "picked", "bound", "calling", "acting",
             "pending", "taken", "confirming", "closed"}

Caps == [Versions -> [revision : 0..MaxRevision, tools : ToolSets \cup {None}]]
Entries == [version : Versions \cup {None}, revision : 0..MaxRevision,
            tools : ToolSets \cup {None}]

TypeOK ==
  /\ versions \in [Versions -> {"absent", "draft", "ready"}]
  /\ inst \in [revision : 0..MaxRevision, status : {"enabled", "disabled"},
               active : Versions \cup {None}, draft : Versions \cup {None},
               tools : ToolSets, grant : Grants \cup {None}, archived : BOOLEAN]
  /\ caps \in Caps
  /\ G!TypeOK
  /\ registry \in [fresh : BOOLEAN, entry : Entries]
  /\ runs \in [Runs -> [pc : Progress, entry : Entries, grant : Grants \cup {None},
                        seen : Caps \cup {None}]]
  /\ lock \in (Runs \X {"tool", "request"}) \cup {None}

\* The installation is made by the first draft or import; tools is then set.
Init ==
  /\ versions = [v \in Versions |-> "absent"]
  /\ inst \in {[revision |-> 0, status |-> "disabled", active |-> None, draft |-> None,
                tools |-> t, grant |-> None, archived |-> FALSE] : t \in ToolSets}
  /\ caps = [v \in Versions |-> NoCap]
  /\ G!Init
  /\ registry = [fresh |-> TRUE, entry |-> NoEntry]
  /\ runs = [r \in Runs |-> Unbound]
  /\ lock = None
-------------------------------------------------------------------------------
(* What the rows allow                                                        *)

\* subject: the capability row agrees with the settings.
Subject(i, cs) ==
  /\ i.active # None
  /\ cs[i.active].revision > 0
  /\ cs[i.active].tools = i.tools

\* authorized_grant with require_enabled=False, on an installation row, the
\* capability rows as the transaction sees them, and the grant row.
Authorized(i, cs, gs) ==
  /\ Subject(i, cs)
  /\ i.grant # None
  /\ LET g == gs[i.grant] IN
       /\ g.status = "approved"
       /\ ~g.expired
       /\ g.approver # g.requester
       /\ g.target = cs[i.active].revision
       /\ g.content = [version |-> i.active, tools |-> i.tools]

\* The entry refresh_registry builds: a Skill without authority is disabled,
\* and a disabled Skill cannot be selected.
Entry ==
  IF inst.status = "enabled" /\ Authorized(inst, caps, grants)
  THEN [version |-> inst.active, revision |-> inst.revision, tools |-> inst.tools]
  ELSE NoEntry

(* Fault: the installation's revision is not compared. *)
ValidWhateverRevision(r) ==
  LET b == runs[r] IN
    /\ inst.status = "enabled"
    /\ Authorized(inst, b.seen, grants)
    /\ inst.active = b.entry.version
    /\ inst.tools = b.entry.tools

\* validate_run: installation and grant are read under their locks, the
\* capability rows as they were when the transaction began.
Valid(r) ==
  LET b == runs[r] IN
    /\ inst.status = "enabled"
    /\ Authorized(inst, b.seen, grants)
    /\ inst.active = b.entry.version
    /\ inst.revision = b.entry.revision
    /\ inst.grant = b.grant
    /\ inst.tools = b.entry.tools
-------------------------------------------------------------------------------
(* Management of the Skill                                                    *)

Free == lock = None

Manageable == Free /\ inst.revision > 0 /\ ~inst.archived /\ inst.revision < MaxRevision

\* _upsert_capability_grant: the row of v after it is given these tools, and
\* the installation's grant, which only a changed row clears.
Upserted(v, tools) ==
  IF caps[v].revision = 0 THEN [revision |-> 1, tools |-> tools]
  ELSE IF caps[v].tools # tools THEN [revision |-> caps[v].revision + 1, tools |-> tools]
  ELSE caps[v]

GrantAfter(v, tools) ==
  IF caps[v].revision # 0 /\ caps[v].tools # tools THEN None ELSE inst.grant

\* The revision grows with every change; _bump_registry makes catalogues stale.
Changed(row) == inst' = [row EXCEPT !.revision = inst.revision + 1]
Bumped == registry' = [registry EXCEPT !.fresh = FALSE]

CreateDraft(v) ==
  /\ Free /\ inst.revision = 0
  /\ versions' = [versions EXCEPT ![v] = "draft"]
  /\ Changed([inst EXCEPT !.draft = v])
  /\ UNCHANGED <<caps, grants, registry, runs, lock>>

\* A package already stored keeps its version and its status.
SaveDraft(v) ==
  /\ Manageable
  /\ versions' = [versions EXCEPT ![v] = IF @ = "absent" THEN "draft" ELSE @]
  /\ Changed([inst EXCEPT !.draft = v])
  /\ UNCHANGED <<caps, grants, registry, runs, lock>>

(* Fault: the Skill stays enabled over the change of version. *)
InstalledAsIs(v, tools, grant) ==
  /\ versions' = [versions EXCEPT ![v] = "ready"]
  /\ caps' = [caps EXCEPT ![v] = Upserted(v, tools)]
  /\ Changed([inst EXCEPT !.active = v, !.draft = None, !.tools = tools, !.grant = grant])
  /\ Bumped
  /\ UNCHANGED <<grants, runs, lock>>

\* A version becomes the active one; the Skill is left disabled.
Installed(v, tools, grant) ==
  /\ versions' = [versions EXCEPT ![v] = "ready"]
  /\ caps' = [caps EXCEPT ![v] = Upserted(v, tools)]
  /\ Changed([inst EXCEPT !.active = v, !.draft = None, !.status = "disabled",
                          !.tools = tools, !.grant = grant])
  /\ Bumped
  /\ UNCHANGED <<grants, runs, lock>>

ApproveImport(v, tools) ==
  /\ Manageable \/ (Free /\ inst.revision = 0)
  /\ Installed(v, tools, GrantAfter(v, tools))

PublishDraft(tools) ==
  /\ Manageable
  /\ inst.draft # None
  /\ Installed(inst.draft, tools, GrantAfter(inst.draft, tools))

\* activate_version, and rollback, which picks another ready version.
ActivateVersion(v) ==
  /\ Manageable
  /\ versions[v] = "ready"
  /\ Installed(v, inst.tools, None)

\* enabled is the patch's value, or the status there is.  An enabled Skill
\* must be authorised as it then stands, or the whole change is undone.
UpdateSettings(tools, enabled) ==
  /\ Manageable
  /\ inst.active = None => enabled = "disabled"
  /\ LET v == inst.active
         row == [inst EXCEPT !.tools = tools, !.status = enabled,
                             !.grant = IF v = None THEN @ ELSE GrantAfter(v, tools)]
         cs == IF v = None THEN caps ELSE [caps EXCEPT ![v] = Upserted(v, tools)]
     IN /\ enabled = "enabled" => Authorized(row, cs, grants)
        /\ Changed(row)
        /\ caps' = cs
  /\ Bumped
  /\ UNCHANGED <<versions, grants, runs, lock>>

Archive ==
  /\ Manageable
  /\ Changed([inst EXCEPT !.status = "disabled", !.archived = TRUE])
  /\ Bumped
  /\ UNCHANGED <<versions, caps, grants, runs, lock>>
-------------------------------------------------------------------------------
(* Grants on the Skill                                                        *)

(* Fault: a request may be written over an earlier grant's row. *)
RequestOverwrites(g, user) ==
  /\ Manageable
  /\ Subject(inst, caps)
  /\ LET v == inst.active
         n == caps[v].revision + 1
     IN /\ n \in 1..MaxRevision
        /\ caps' = [caps EXCEPT ![v].revision = n]
        /\ grants' = [grants EXCEPT ![g] =
             [status |-> "requested", target |-> n, content |-> [version |-> v, tools |-> inst.tools],
              requester |-> user, approver |-> None, revoker |-> None, expired |-> FALSE]]
  /\ Changed([inst EXCEPT !.grant = g, !.status = "disabled"])
  /\ Bumped
  /\ UNCHANGED <<versions, runs, lock>>

\* grant_service.request: the capability row takes its next revision, which
\* names the target of the new grant; the Skill is disabled until it is enabled
\* again under that grant.  Revisions are counted for each version, so another
\* version may have used the target, and the unique key then refuses this one.
RequestGrant(g, user) ==
  /\ Manageable
  /\ Subject(inst, caps)
  /\ LET v == inst.active
         n == caps[v].revision + 1
     IN /\ n \in 1..MaxRevision
        /\ caps' = [caps EXCEPT ![v].revision = n]
        /\ G!Request(g, user, n, [version |-> v, tools |-> inst.tools])
  /\ Changed([inst EXCEPT !.grant = g, !.status = "disabled"])
  /\ Bumped
  /\ UNCHANGED <<versions, runs, lock>>

\* grant_service.decide: only the installation's current grant.
DecideApprove(g, user) ==
  /\ Manageable
  /\ inst.grant = g
  /\ G!Approve(g, user)
  /\ Authorized(inst, caps, grants')
  /\ Changed(inst)
  /\ Bumped
  /\ UNCHANGED <<versions, caps, runs, lock>>

DecideRevoke(g, user) ==
  /\ Manageable
  /\ inst.grant = g
  /\ G!Revoke(g, user)
  /\ Changed([inst EXCEPT !.status = "disabled"])
  /\ Bumped
  /\ UNCHANGED <<versions, caps, runs, lock>>

(* Fault: the decision does not wait for the row of a grant in use. *)
AlwaysFree(g) == TRUE

\* The grant row is locked with the installation that points to it.
GrantFree(g) == Free \/ inst.grant # g

\* The decisions of router/user.py write the grant alone: the installation's
\* revision and the catalogues do not notice.
DecideDirectly(g, user) ==
  /\ GrantFree(g)
  /\ G!Approve(g, user) \/ G!Revoke(g, user)
  /\ UNCHANGED <<versions, inst, caps, registry, runs, lock>>

\* Time passes expires_at, whoever holds the row.
Expire(g) ==
  /\ G!Expire(g)
  /\ UNCHANGED <<versions, inst, caps, registry, runs, lock>>
-------------------------------------------------------------------------------
(* Runs                                                                       *)

At(r, pc) == runs[r].pc = pc
Goes(r, pc) == runs' = [runs EXCEPT ![r].pc = pc, ![r].seen = None]

\* prepare_agent_run selects the Skill from the catalogue, which
\* reconcile_registry rebuilds first if the database's revision has moved.
Pick(r) ==
  /\ At(r, "idle")
  /\ registry.fresh \/ Free
  /\ LET entry == IF registry.fresh THEN registry.entry ELSE Entry IN
       /\ registry' = [fresh |-> TRUE, entry |-> entry]
       /\ runs' = IF entry = NoEntry THEN runs
                  ELSE [runs EXCEPT ![r].pc = "picked", ![r].entry = entry]
  /\ UNCHANGED <<tableVars, lock>>

\* Then it locks the installation and compares; the binding is committed
\* before the run starts.  (The capability rows it sees date from the catalogue
\* entry, but they change only with the revision, which is compared.)
Bind(r) ==
  /\ At(r, "picked")
  /\ Free
  /\ IF /\ inst.status = "enabled"
        /\ Authorized(inst, caps, grants)
        /\ inst.active = runs[r].entry.version
        /\ inst.revision = runs[r].entry.revision
     THEN runs' = [runs EXCEPT ![r].pc = "bound", ![r].grant = inst.grant]
     ELSE Goes(r, "closed")
  /\ UNCHANGED <<tableVars, registry, lock>>

\* execution_authority opens a transaction; its snapshot dates from here.
BeginCall(r) ==
  /\ At(r, "bound")
  /\ runs' = [runs EXCEPT ![r].pc = "calling", ![r].seen = caps]
  /\ UNCHANGED <<tableVars, registry, lock>>

\* It waits for the installation, checks the binding, and keeps the locks while
\* the tool works.  A confirmed call comes here with a session of its own.
LockCall(r) ==
  /\ At(r, "calling") \/ At(r, "confirming")
  /\ Free
  /\ IF Valid(r)
     THEN Goes(r, "acting") /\ lock' = <<r, "tool">>
     ELSE Goes(r, IF At(r, "calling") THEN "bound" ELSE "closed") /\ lock' = None
  /\ UNCHANGED <<tableVars, registry>>

\* The tool returns: the run goes on, or has saved a call that needs the
\* user's confirmation instead of making it, or is over.
EndCall(r) ==
  /\ At(r, "acting")
  /\ \E pc \in {"bound", "pending", "closed"} : Goes(r, pc)
  /\ lock' = None
  /\ UNCHANGED <<tableVars, registry>>

\* The confirm request consumes the pending action, then opens its session;
\* or the user declines, or the action expires.
TakePending(r) ==
  /\ At(r, "pending")
  /\ runs' = [runs EXCEPT ![r].pc = "taken", ![r].seen = caps]
  /\ UNCHANGED <<tableVars, registry, lock>>

DropPending(r) ==
  /\ At(r, "pending")
  /\ Goes(r, "closed")
  /\ UNCHANGED <<tableVars, registry, lock>>

\* resolve_confirmed_tool validates in the request's session, whose locks stay
\* until get_db closes it, after the response has been streamed.  What it compares
\* besides, the registry's revision and the catalogue, only makes it refuse more.
ResolveConfirmed(r) ==
  /\ At(r, "taken")
  /\ Free
  /\ IF Valid(r)
     THEN /\ runs' = [runs EXCEPT ![r].pc = "confirming", ![r].seen = caps]
          /\ lock' = <<r, "request">>
     ELSE Goes(r, "closed") /\ lock' = None
  /\ UNCHANGED <<tableVars, registry>>

\* innodb_lock_wait_timeout: the waiting session gives up.  A confirmed call
\* then ends, its response with it, and the request's session is closed.
LockWaitTimeout(r) ==
  /\ ~Free
  /\ \/ At(r, "calling") /\ Goes(r, "bound")
     \/ At(r, "taken") /\ Goes(r, "closed")
     \/ At(r, "confirming") /\ Goes(r, "closed")
  /\ lock' = IF lock = <<r, "request">> THEN None ELSE lock
  /\ UNCHANGED <<tableVars, registry>>
-------------------------------------------------------------------------------
Manage ==
  \/ \E v \in Versions : CreateDraft(v) \/ SaveDraft(v) \/ ActivateVersion(v)
  \/ \E v \in Versions, tools \in ToolSets : ApproveImport(v, tools)
  \/ \E tools \in ToolSets : PublishDraft(tools)
  \/ \E tools \in ToolSets, enabled \in {"enabled", "disabled"} : UpdateSettings(tools, enabled)
  \/ Archive

Decide ==
  \E g \in Grants :
    \/ \E user \in G!Users :
         \/ RequestGrant(g, user) \/ DecideApprove(g, user)
         \/ DecideRevoke(g, user) \/ DecideDirectly(g, user)
    \/ Expire(g)

RunStep(r) ==
  \/ Pick(r) \/ Bind(r) \/ BeginCall(r) \/ LockCall(r) \/ EndCall(r)
  \/ TakePending(r) \/ DropPending(r) \/ ResolveConfirmed(r) \/ LockWaitTimeout(r)

Next == Manage \/ Decide \/ \E r \in Runs : RunStep(r)

Spec == Init /\ [][Next]_vars
-------------------------------------------------------------------------------
\* While a tool of a run works, the Skill is enabled with the version and the
\* tools the run was bound to, under the grant it was bound to, and that grant
\* is approved for exactly this: "revoke and lifecycle writes cannot interleave
\* between the check and a side effect" (skills/authorization.py).
ActingIsApproved ==
  \A r \in Runs : At(r, "acting") =>
    /\ inst.status = "enabled" /\ inst.active = runs[r].entry.version
    /\ inst.grant = runs[r].grant
    /\ grants[runs[r].grant].status = "approved"
    /\ grants[runs[r].grant].content =
         [version |-> runs[r].entry.version, tools |-> runs[r].entry.tools]

\* An enabled Skill is one a security administrator approved as it stands, even
\* if the approval has been revoked or has expired since: no sequence of
\* imports, drafts, settings and roll-backs enables other content.
EnabledIsWhatWasApproved ==
  inst.status = "enabled" =>
    /\ inst.grant # None
    /\ grants[inst.grant].status \in {"approved", "revoked"}
    /\ grants[inst.grant].content = [version |-> inst.active, tools |-> inst.tools]
    /\ grants[inst.grant].target = caps[inst.active].revision

\* A run that has its binding and has lost its authority.
Withdrawn(r) ==
  /\ runs[r].grant # None
  /\ \/ inst.revision # runs[r].entry.revision
     \/ grants[runs[r].grant].status = "revoked"
     \/ grants[runs[r].grant].expired

\* Authority a run has once lost, through the installation's revision or its
\* grant, is never regained, whatever is rolled back, enabled again or approved
\* anew: such a run makes no further side effect.  The roles and accounts of the
\* two administrators are not drawn.
WithdrawnForGood ==
  [][\A r \in Runs : Withdrawn(r) =>
       /\ Withdrawn(r)'
       /\ runs'[r].pc = "acting" => At(r, "acting")]_vars

\* The Skill service uses the grants table as AuthorizationGrants says.
FollowsGrants == G!Spec

\* "Click confirm to execute" (agent/tool_guard.py): the request that confirms a
\* call does not itself hold the rows the call has to lock.
ConfirmedCallCanLock ==
  \A r \in Runs : At(r, "confirming") => lock # <<r, "request">>
===============================================================================
