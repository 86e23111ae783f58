----------------------------- MODULE SkillProofs -----------------------------
(***************************************************************************)
(* The properties of SkillAuthority for every set of grants, packages,     *)
(* tools, administrators and runs: the steps of administrators write the   *)
(* tables, only while nobody holds the rows they write, and leave the runs *)
(* alone; those of runs leave the tables alone.                            *)
(*                                                                         *)
(* Then the safety of SkillCatalogues for every number of processes,       *)
(* requests, Skills and packages, and however often processes crash,       *)
(* packages are damaged and rebuilds fail.                                 *)
(***************************************************************************)
EXTENDS SkillAuthority, SkillCatalogues, TLAPS

InstRows ==
  [revision : 0..MaxRevision, status : {"enabled", "disabled"},
   active : Versions \cup {None}, draft : Versions \cup {None},
   tools : ToolSets, grant : Grants \cup {None}, archived : BOOLEAN]

CapRows == [revision : 0..MaxRevision, tools : ToolSets \cup {None}]

\* The rows, apart from the grants.
RowTypes ==
  /\ versions \in [Versions -> {"absent", "draft", "ready"}]
  /\ inst \in InstRows
  /\ caps \in Caps

\* No capability row has been changed more often than its installation.
CapsFollow == \A v \in Versions : caps[v].revision <= inst.revision

RunRows == [pc : Progress, entry : Entries, grant : Grants \cup {None}, seen : Caps \cup {None}]

RunTypes ==
  /\ registry \in [fresh : BOOLEAN, entry : Entries]
  /\ runs \in [Runs -> RunRows]
  /\ lock \in (Runs \X {"tool", "request"}) \cup {None}

Types == RowTypes /\ CapsFollow /\ G!TypeOK /\ RunTypes

LEMMA TypesAreTypes == Types => TypeOK
BY DEF Types, RowTypes, RunTypes, TypeOK, InstRows, RunRows
-------------------------------------------------------------------------------
(* Types, operation by operation                                              *)

\* There is room for one more change.
LEMMA NextRevision ==
  ASSUME RowTypes, inst.revision < MaxRevision
  PROVE  inst.revision + 1 \in 0..MaxRevision /\ inst.revision \in Nat
<1>. inst.revision \in 0..MaxRevision  BY DEF RowTypes, InstRows
<1>. QED  BY SkillAssumption

LEMMA UpsertedType ==
  ASSUME RowTypes, CapsFollow, inst.revision < MaxRevision,
         NEW v \in Versions, NEW tools \in ToolSets
  PROVE  /\ Upserted(v, tools) \in CapRows
         /\ Upserted(v, tools).revision <= inst.revision + 1
<1>1. caps[v] \in CapRows  BY DEF RowTypes, Caps, CapRows
<1>2. caps[v].revision \in Nat /\ caps[v].revision <= inst.revision
  BY <1>1 DEF CapRows, CapsFollow
<1>3. \A n \in 0..MaxRevision : [revision |-> n, tools |-> tools] \in CapRows
  BY DEF CapRows
<1>4. inst.revision + 1 \in 0..MaxRevision /\ inst.revision \in Nat  BY NextRevision
<1>5. 1 \in 0..MaxRevision /\ caps[v].revision + 1 \in 0..MaxRevision
  BY <1>2, <1>4, SkillAssumption
<1>. QED  BY <1>1, <1>2, <1>3, <1>4, <1>5 DEF Upserted

LEMMA GrantAfterType ==
  ASSUME RowTypes, NEW v, NEW tools
  PROVE  GrantAfter(v, tools) \in Grants \cup {None}
<1>. inst.grant \in Grants \cup {None}  BY DEF RowTypes, InstRows
<1>. QED  BY DEF GrantAfter

\* A change that gives the installation columns of their types, and changes at
\* most one capability row.
LEMMA ChangeTypes ==
  ASSUME RowTypes, CapsFollow, inst.revision < MaxRevision,
         NEW row \in InstRows, Changed(row),
         NEW v \in Versions, NEW cap \in CapRows, cap.revision <= inst.revision + 1,
         caps' \in {caps, [caps EXCEPT ![v] = cap]}
  PROVE  inst' \in InstRows /\ caps' \in Caps /\ CapsFollow'
<1>1. inst.revision + 1 \in 0..MaxRevision /\ inst.revision \in Nat  BY NextRevision
<1>2. inst' \in InstRows  BY <1>1 DEF Changed, InstRows
<1>3. inst'.revision = inst.revision + 1  BY DEF Changed, InstRows
<1>4. caps' \in Caps  BY DEF RowTypes, Caps, CapRows
<1>5. ASSUME NEW w \in Versions PROVE caps'[w].revision <= inst'.revision
  <2>1. caps[w].revision \in Nat /\ caps[w].revision <= inst.revision
    BY DEF RowTypes, Caps, CapsFollow
  <2>2. caps'[w] = caps[w] \/ caps'[w] = cap  BY DEF RowTypes, Caps
  <2>. QED  BY <1>1, <1>3, <2>1, <2>2 DEF CapRows
<1>. QED  BY <1>2, <1>4, <1>5 DEF CapsFollow

\* The same, with the capability rows as they are.
LEMMA RowChangeTypes ==
  ASSUME RowTypes, CapsFollow, inst.revision < MaxRevision,
         NEW row \in InstRows, Changed(row), UNCHANGED caps
  PROVE  inst' \in InstRows /\ caps' \in Caps /\ CapsFollow'
<1>1. inst.revision + 1 \in 0..MaxRevision /\ inst.revision \in Nat  BY NextRevision
<1>2. inst' \in InstRows  BY <1>1 DEF Changed, InstRows
<1>3. inst'.revision = inst.revision + 1  BY DEF Changed, InstRows
<1>4. ASSUME NEW w \in Versions PROVE caps'[w].revision <= inst'.revision
  <2>1. caps[w].revision \in Nat /\ caps[w].revision <= inst.revision
    BY DEF RowTypes, Caps, CapsFollow
  <2>. QED  BY <1>1, <1>3, <2>1
<1>. QED  BY <1>2, <1>4 DEF CapsFollow, RowTypes

LEMMA InstalledTypes ==
  ASSUME RowTypes, CapsFollow, inst.revision < MaxRevision,
         NEW v \in Versions, NEW tools \in ToolSets, NEW grant \in Grants \cup {None},
         Installed(v, tools, grant)
  PROVE  RowTypes' /\ CapsFollow'
<1>1. /\ Upserted(v, tools) \in CapRows
      /\ Upserted(v, tools).revision <= inst.revision + 1
  BY UpsertedType
<1>2. [inst EXCEPT !.active = v, !.draft = None, !.status = "disabled",
                   !.tools = tools, !.grant = grant] \in InstRows
  BY DEF RowTypes, InstRows
<1>3. inst' \in InstRows /\ caps' \in Caps /\ CapsFollow'
  BY <1>1, <1>2, ChangeTypes DEF Installed
<1>4. versions' \in [Versions -> {"absent", "draft", "ready"}]
  BY DEF Installed, RowTypes
<1>. QED  BY <1>3, <1>4 DEF RowTypes

LEMMA UpdateTypes ==
  ASSUME RowTypes, CapsFollow,
         NEW tools \in ToolSets, NEW enabled \in {"enabled", "disabled"},
         UpdateSettings(tools, enabled)
  PROVE  RowTypes' /\ CapsFollow'
<1>. DEFINE v == inst.active
            row == [inst EXCEPT !.tools = tools, !.status = enabled,
                                !.grant = IF v = None THEN @ ELSE GrantAfter(v, tools)]
<1>1. inst.revision < MaxRevision  BY DEF UpdateSettings, Manageable
<1>2. v \in Versions \cup {None}  BY DEF RowTypes, InstRows
<1>3. row \in InstRows  BY <1>2, GrantAfterType DEF RowTypes, InstRows
<1>4. Changed(row)  BY DEF UpdateSettings
<1>5. inst' \in InstRows /\ caps' \in Caps /\ CapsFollow'
  <2>1. CASE v = None
    <3>1. UNCHANGED caps  BY <2>1 DEF UpdateSettings
    <3>. HIDE DEF row
    <3>. QED  BY <3>1, <1>1, <1>3, <1>4, RowChangeTypes
  <2>2. CASE v # None
    <3>1. caps' = [caps EXCEPT ![v] = Upserted(v, tools)]  BY <2>2 DEF UpdateSettings
    <3>2. v \in Versions  BY <2>2, <1>2
    <3>3. /\ Upserted(v, tools) \in CapRows
          /\ Upserted(v, tools).revision <= inst.revision + 1
      BY <3>2, <1>1, UpsertedType
    <3>. HIDE DEF row, v
    <3>. QED  BY <3>1, <3>2, <3>3, <1>1, <1>3, <1>4, ChangeTypes
  <2>. QED  BY <2>1, <2>2
<1>. QED  BY <1>5 DEF RowTypes, UpdateSettings

LEMMA RequestTypes ==
  ASSUME RowTypes, CapsFollow, NEW g \in Grants, NEW user, RequestGrant(g, user)
  PROVE  RowTypes' /\ CapsFollow'
<1>. DEFINE v == inst.active
            n == caps[v].revision + 1
            cap == [caps[v] EXCEPT !.revision = n]
            row == [inst EXCEPT !.grant = g, !.status = "disabled"]
<1>1. inst.revision < MaxRevision  BY DEF RequestGrant, Manageable
<1>2. v \in Versions  BY DEF RequestGrant, Subject, RowTypes, InstRows
<1>3. n \in 1..MaxRevision /\ caps' = [caps EXCEPT ![v].revision = n]
  BY DEF RequestGrant
<1>4. caps[v] \in CapRows /\ caps[v].revision <= inst.revision
  BY <1>2 DEF RowTypes, Caps, CapRows, CapsFollow
<1>5. caps[v].revision \in Nat /\ inst.revision \in Nat
  BY <1>4 DEF CapRows, RowTypes, InstRows
<1>6. cap \in CapRows /\ cap.revision = n
  <2>. HIDE DEF n
  <2>1. n \in 0..MaxRevision  BY <1>3
  <2>. QED  BY <2>1, <1>4 DEF CapRows
<1>7. n <= inst.revision + 1  BY <1>4, <1>5
<1>8. caps' = [caps EXCEPT ![v] = cap]  BY <1>3
<1>9. row \in InstRows  BY DEF RowTypes, InstRows
<1>10. Changed(row)  BY DEF RequestGrant
<1>11. inst' \in InstRows /\ caps' \in Caps /\ CapsFollow'
  <2>. HIDE DEF cap, row, n, v
  <2>1. cap.revision <= inst.revision + 1  BY <1>6, <1>7
  <2>. QED  BY <2>1, <1>1, <1>2, <1>6, <1>8, <1>9, <1>10, ChangeTypes
<1>. QED  BY <1>11 DEF RowTypes, RequestGrant

\* Every change an administrator makes keeps the rows' types.
LEMMA AdminRowTypes ==
  ASSUME RowTypes, CapsFollow, Manage \/ Decide
  PROVE  RowTypes' /\ CapsFollow'
<1>1. ASSUME NEW v \in Versions, CreateDraft(v) PROVE RowTypes' /\ CapsFollow'
  <2>1. inst.revision < MaxRevision
    BY <1>1, SkillAssumption DEF CreateDraft
  <2>2. [inst EXCEPT !.draft = v] \in InstRows  BY DEF RowTypes, InstRows
  <2>3. inst' \in InstRows /\ caps' \in Caps /\ CapsFollow'
    BY <1>1, <2>1, <2>2, RowChangeTypes DEF CreateDraft
  <2>. QED  BY <1>1, <2>3 DEF CreateDraft, RowTypes
<1>2. ASSUME NEW v \in Versions, SaveDraft(v) PROVE RowTypes' /\ CapsFollow'
  <2>1. inst.revision < MaxRevision  BY <1>2 DEF SaveDraft, Manageable
  <2>2. [inst EXCEPT !.draft = v] \in InstRows  BY DEF RowTypes, InstRows
  <2>3. inst' \in InstRows /\ caps' \in Caps /\ CapsFollow'
    BY <1>2, <2>1, <2>2, RowChangeTypes DEF SaveDraft
  <2>. QED  BY <1>2, <2>3 DEF SaveDraft, RowTypes
<1>3. ASSUME NEW v \in Versions, ActivateVersion(v) PROVE RowTypes' /\ CapsFollow'
  <2>1. inst.revision < MaxRevision  BY <1>3 DEF ActivateVersion, Manageable
  <2>2. inst.tools \in ToolSets  BY DEF RowTypes, InstRows
  <2>. QED  BY <1>3, <2>1, <2>2, InstalledTypes DEF ActivateVersion
<1>4. ASSUME NEW v \in Versions, NEW tools \in ToolSets, ApproveImport(v, tools)
      PROVE  RowTypes' /\ CapsFollow'
  <2>1. inst.revision < MaxRevision
    BY <1>4, SkillAssumption DEF ApproveImport, Manageable
  <2>. QED  BY <1>4, <2>1, GrantAfterType, InstalledTypes DEF ApproveImport
<1>5. ASSUME NEW tools \in ToolSets, PublishDraft(tools) PROVE RowTypes' /\ CapsFollow'
  <2>1. inst.revision < MaxRevision  BY <1>5 DEF PublishDraft, Manageable
  <2>2. inst.draft \in Versions  BY <1>5 DEF PublishDraft, RowTypes, InstRows
  <2>. QED  BY <1>5, <2>1, <2>2, GrantAfterType, InstalledTypes DEF PublishDraft
<1>6. ASSUME Archive PROVE RowTypes' /\ CapsFollow'
  <2>1. inst.revision < MaxRevision  BY <1>6 DEF Archive, Manageable
  <2>2. [inst EXCEPT !.status = "disabled", !.archived = TRUE] \in InstRows
    BY DEF RowTypes, InstRows
  <2>3. inst' \in InstRows /\ caps' \in Caps /\ CapsFollow'
    BY <1>6, <2>1, <2>2, RowChangeTypes DEF Archive
  <2>. QED  BY <1>6, <2>3 DEF Archive, RowTypes
<1>7. ASSUME NEW g \in Grants, NEW user, DecideApprove(g, user)
      PROVE  RowTypes' /\ CapsFollow'
  <2>1. inst.revision < MaxRevision /\ inst \in InstRows
    BY <1>7 DEF DecideApprove, Manageable, RowTypes
  <2>2. inst' \in InstRows /\ caps' \in Caps /\ CapsFollow'
    BY <1>7, <2>1, RowChangeTypes DEF DecideApprove
  <2>. QED  BY <1>7, <2>2 DEF DecideApprove, RowTypes
<1>8. ASSUME NEW g \in Grants, NEW user, DecideRevoke(g, user)
      PROVE  RowTypes' /\ CapsFollow'
  <2>1. inst.revision < MaxRevision  BY <1>8 DEF DecideRevoke, Manageable
  <2>2. [inst EXCEPT !.status = "disabled"] \in InstRows  BY DEF RowTypes, InstRows
  <2>3. inst' \in InstRows /\ caps' \in Caps /\ CapsFollow'
    BY <1>8, <2>1, <2>2, RowChangeTypes DEF DecideRevoke
  <2>. QED  BY <1>8, <2>3 DEF DecideRevoke, RowTypes
<1>9. ASSUME UNCHANGED <<versions, inst, caps>> PROVE RowTypes' /\ CapsFollow'
  BY <1>9 DEF RowTypes, CapsFollow
<1>. QED
  BY <1>1, <1>2, <1>3, <1>4, <1>5, <1>6, <1>7, <1>8, <1>9, UpdateTypes, RequestTypes
  DEF Manage, Decide, DecideDirectly, Expire

\* Administrators only make the catalogue stale; runs and locks are not theirs.
LEMMA AdminRuns ==
  ASSUME Manage \/ Decide
  PROVE  UNCHANGED <<runs, lock>> /\ (UNCHANGED registry \/ Bumped)
BY DEF Manage, Decide, CreateDraft, SaveDraft, ActivateVersion, ApproveImport, PublishDraft,
       UpdateSettings, Archive, Installed, RequestGrant, DecideApprove, DecideRevoke,
       DecideDirectly, Expire

\* Runs do not write the tables.
LEMMA RunTables ==
  ASSUME NEW r \in Runs, RunStep(r)
  PROVE  UNCHANGED tableVars
BY DEF RunStep, Pick, Bind, BeginCall, LockCall, EndCall, TakePending, DropPending,
       ResolveConfirmed, LockWaitTimeout

LEMMA EntryType ==
  ASSUME RowTypes
  PROVE  Entry \in Entries /\ NoEntry \in Entries
<1>1. /\ inst.active \in Versions \cup {None} /\ inst.revision \in 0..MaxRevision
      /\ inst.tools \in ToolSets
  BY DEF RowTypes, InstRows
<1>2. 0 \in 0..MaxRevision  BY SkillAssumption
<1>. QED  BY <1>1, <1>2 DEF Entry, NoEntry, Entries

\* A run that goes to another place keeps its entry and its grant.
LEMMA MoveRow ==
  ASSUME RunTypes, NEW r \in Runs, NEW pc \in Progress, NEW seen \in Caps \cup {None},
         runs' = [runs EXCEPT ![r].pc = pc, ![r].seen = seen]
  PROVE  /\ runs' = [runs EXCEPT ![r] = runs'[r]]
         /\ runs'[r] \in RunRows
         /\ runs'[r].pc = pc
         /\ runs'[r].entry = runs[r].entry /\ runs'[r].grant = runs[r].grant
<1>1. runs[r] \in RunRows  BY DEF RunTypes
<1>2. runs' = [runs EXCEPT ![r] = [runs[r] EXCEPT !.pc = pc, !.seen = seen]]
  OBVIOUS
<1>3. [runs[r] EXCEPT !.pc = pc, !.seen = seen] \in RunRows  BY <1>1 DEF RunRows
<1>4. runs'[r] = [runs[r] EXCEPT !.pc = pc, !.seen = seen]  BY <1>2 DEF RunTypes
<1>5. /\ runs'[r].pc = pc
      /\ runs'[r].entry = runs[r].entry /\ runs'[r].grant = runs[r].grant
  BY <1>1, <1>4 DEF RunRows
<1>. QED  BY <1>2, <1>3, <1>4, <1>5

LEMMA GoesRow ==
  ASSUME RunTypes, NEW r \in Runs, NEW pc \in Progress, Goes(r, pc)
  PROVE  /\ runs' = [runs EXCEPT ![r] = runs'[r]]
         /\ runs'[r] \in RunRows
         /\ runs'[r].pc = pc
         /\ runs'[r].entry = runs[r].entry /\ runs'[r].grant = runs[r].grant
BY MoveRow DEF Goes

\* Selection gives the run an entry, of the catalogue or of the rows.
LEMMA PickRow ==
  ASSUME RunTypes, RowTypes, NEW r \in Runs, Pick(r)
  PROVE  /\ registry' \in [fresh : BOOLEAN, entry : Entries]
         /\ registry'.entry \in {registry.entry, Entry}
         /\ UNCHANGED <<tableVars, lock>>
         /\ \/ UNCHANGED runs
            \/ /\ runs' = [runs EXCEPT ![r] = runs'[r]]
               /\ runs'[r] \in RunRows
               /\ runs'[r].pc = "picked"
               /\ runs'[r].entry = registry'.entry /\ runs'[r].grant = runs[r].grant
<1>. DEFINE entry == IF registry.fresh THEN registry.entry ELSE Entry
<1>1. runs[r] \in RunRows /\ registry.entry \in Entries  BY DEF RunTypes
<1>2. entry \in Entries /\ entry \in {registry.entry, Entry}  BY <1>1, EntryType
<1>3. registry' = [fresh |-> TRUE, entry |-> entry]  BY DEF Pick
<1>4. \/ UNCHANGED runs
      \/ runs' = [runs EXCEPT ![r].pc = "picked", ![r].entry = entry]
  BY DEF Pick
<1>5. ASSUME runs' = [runs EXCEPT ![r].pc = "picked", ![r].entry = entry]
      PROVE  /\ runs' = [runs EXCEPT ![r] = runs'[r]]
             /\ runs'[r] \in RunRows
             /\ runs'[r].pc = "picked"
             /\ runs'[r].entry = entry /\ runs'[r].grant = runs[r].grant
  <2>. HIDE DEF entry
  <2>1. runs'[r] = [runs[r] EXCEPT !.pc = "picked", !.entry = entry]
    BY <1>5 DEF RunTypes
  <2>2. runs' = [runs EXCEPT ![r] = runs'[r]]  BY <1>5 DEF RunTypes
  <2>. QED  BY <2>1, <2>2, <1>1, <1>2 DEF RunRows, Progress
<1>6. UNCHANGED <<tableVars, lock>>  BY DEF Pick
<1>. HIDE DEF entry
<1>. QED  BY <1>2, <1>3, <1>4, <1>5, <1>6

\* The binding takes the installation's grant.
LEMMA BindRow ==
  ASSUME RunTypes, RowTypes, NEW r \in Runs, Bind(r)
  PROVE  /\ runs' = [runs EXCEPT ![r] = runs'[r]]
         /\ runs'[r] \in RunRows
         /\ runs'[r].entry = runs[r].entry
         /\ \/ runs'[r].pc = "bound" /\ runs'[r].grant = inst.grant
            \/ runs'[r].pc = "closed" /\ runs'[r].grant = runs[r].grant
<1>1. runs[r] \in RunRows /\ inst.grant \in Grants \cup {None}
  BY DEF RunTypes, RowTypes, InstRows
<1>2. \/ runs' = [runs EXCEPT ![r].pc = "bound", ![r].grant = inst.grant]
      \/ Goes(r, "closed")
  BY DEF Bind
<1>3. CASE Goes(r, "closed")
  <2>1. "closed" \in Progress  BY DEF Progress
  <2>. QED  BY <1>3, <2>1, GoesRow
<1>4. CASE runs' = [runs EXCEPT ![r].pc = "bound", ![r].grant = inst.grant]
  <2>1. runs'[r] = [runs[r] EXCEPT !.pc = "bound", !.grant = inst.grant]
    BY <1>4 DEF RunTypes
  <2>2. runs' = [runs EXCEPT ![r] = runs'[r]]  BY <1>4 DEF RunTypes
  <2>. QED  BY <2>1, <2>2, <1>1 DEF RunRows, Progress
<1>. QED  BY <1>2, <1>3, <1>4

\* The steps of a run that has its binding keep its entry and its grant.
CallStep(r) ==
  \/ BeginCall(r) \/ LockCall(r) \/ EndCall(r) \/ TakePending(r)
  \/ DropPending(r) \/ ResolveConfirmed(r) \/ LockWaitTimeout(r)

LEMMA CallRow ==
  ASSUME RunTypes, RowTypes, NEW r \in Runs, CallStep(r)
  PROVE  /\ runs' = [runs EXCEPT ![r] = runs'[r]]
         /\ runs'[r] \in RunRows
         /\ runs'[r].entry = runs[r].entry /\ runs'[r].grant = runs[r].grant
         /\ runs[r].pc \notin {"idle", "picked"} /\ runs'[r].pc \notin {"idle", "picked"}
<1>1. runs[r].pc \notin {"idle", "picked"}
  BY DEF CallStep, BeginCall, LockCall, EndCall, TakePending, DropPending,
         ResolveConfirmed, LockWaitTimeout, At
<1>2. \E pc \in Progress \ {"idle", "picked"} :
        Goes(r, pc) \/ runs' = [runs EXCEPT ![r].pc = pc, ![r].seen = caps]
  BY DEF CallStep, BeginCall, LockCall, EndCall, TakePending, DropPending,
         ResolveConfirmed, LockWaitTimeout, Progress
<1>3. caps \in Caps  BY DEF RowTypes
<1>. QED  BY <1>1, <1>2, <1>3, GoesRow, MoveRow

LEMMA RunStepTypes ==
  ASSUME RunTypes, RowTypes, NEW r \in Runs, RunStep(r)
  PROVE  RunTypes'
<1>1. CASE Pick(r)
  BY <1>1, PickRow DEF RunTypes
<1>2. CASE Bind(r)
  BY <1>2, BindRow DEF RunTypes, Bind
<1>3. CASE CallStep(r)
  <2>1. runs' \in [Runs -> RunRows] /\ UNCHANGED registry
    BY <1>3, CallRow
    DEF RunTypes, CallStep, BeginCall, LockCall, EndCall, TakePending, DropPending,
        ResolveConfirmed, LockWaitTimeout
  <2>2. lock' \in {lock, None, <<r, "tool">>, <<r, "request">>}
    BY <1>3
    DEF CallStep, BeginCall, LockCall, EndCall, TakePending, DropPending,
        ResolveConfirmed, LockWaitTimeout
  <2>. QED  BY <2>1, <2>2 DEF RunTypes
<1>. QED  BY <1>1, <1>2, <1>3 DEF RunStep, CallStep
-------------------------------------------------------------------------------
(* The table of grants                                                        *)

\* A step of the Skill service is one of authorization_grants, or none.
LEMMA GrantStep ==
  ASSUME RowTypes, [Next]_vars
  PROVE  [G!Next]_grants
<1>1. ASSUME NEW g \in Grants, NEW user \in G!Users, RequestGrant(g, user)
      PROVE  G!Next
  <2>. DEFINE v == inst.active
              n == caps[v].revision + 1
  <2>1. n \in 1..MaxRevision /\ G!Request(g, user, n, [version |-> v, tools |-> inst.tools])
    BY <1>1 DEF RequestGrant
  <2>2. [version |-> v, tools |-> inst.tools] \in Contents
    BY <1>1 DEF RequestGrant, Subject, RowTypes, InstRows, Contents
  <2>. HIDE DEF n, v
  <2>. QED  BY <2>1, <2>2 DEF G!Next
<1>2. ASSUME NEW g \in Grants, NEW user \in G!Users,
             G!Approve(g, user) \/ G!Revoke(g, user)
      PROVE  G!Next
  BY <1>2 DEF G!Next
<1>3. ASSUME NEW g \in Grants, G!Expire(g) PROVE G!Next
  BY <1>3 DEF G!Next
<1>4. CASE Manage
  BY <1>4 DEF Manage, CreateDraft, SaveDraft, ActivateVersion, ApproveImport, PublishDraft,
              UpdateSettings, Archive, Installed
<1>5. CASE Decide
  BY <1>5, <1>1, <1>2, <1>3
  DEF Decide, DecideApprove, DecideRevoke, DecideDirectly, Expire
<1>6. CASE \E r \in Runs : RunStep(r)
  BY <1>6, RunTables DEF tableVars
<1>7. CASE UNCHANGED vars  BY <1>7 DEF vars
<1>. QED  BY <1>4, <1>5, <1>6, <1>7 DEF Next

\* The table's own types; G's step is all they need.
LEMMA GrantTypes ==
  ASSUME G!TypeOK, [G!Next]_grants
  PROVE  G!TypeOK'
<1>1. ASSUME NEW g \in Grants, G!Exists(g) PROVE grants[g] \in G!GrantRow
  BY <1>1 DEF G!TypeOK, G!Exists
<1>2. ASSUME NEW g \in Grants, NEW row \in G!GrantRow, grants' = [grants EXCEPT ![g] = row]
      PROVE  G!TypeOK'
  BY <1>2 DEF G!TypeOK
<1>3. ASSUME NEW g \in Grants, NEW user \in G!Users, NEW target \in 1..MaxRevision,
             NEW content \in Contents, G!Request(g, user, target, content)
      PROVE  G!TypeOK'
  <2>1. [status |-> "requested", target |-> target, content |-> content,
         requester |-> user, approver |-> None, revoker |-> None, expired |-> FALSE]
          \in G!GrantRow
    BY DEF G!GrantRow
  <2>. QED  BY <1>2, <1>3, <2>1 DEF G!Request
<1>4. ASSUME NEW g \in Grants, NEW user \in G!Users, G!Approve(g, user)
      PROVE  G!TypeOK'
  <2>1. grants[g] \in G!GrantRow  BY <1>1, <1>4 DEF G!Approve, G!Exists, G!NoGrant
  <2>2. [grants[g] EXCEPT !.status = "approved", !.approver = user] \in G!GrantRow
    BY <2>1 DEF G!GrantRow
  <2>3. grants' = [grants EXCEPT ![g] =
                     [grants[g] EXCEPT !.status = "approved", !.approver = user]]
    BY <1>4 DEF G!Approve, G!TypeOK
  <2>. QED  BY <1>2, <2>2, <2>3
<1>5. ASSUME NEW g \in Grants, NEW user \in G!Users, G!Revoke(g, user)
      PROVE  G!TypeOK'
  <2>1. grants[g] \in G!GrantRow  BY <1>1, <1>5 DEF G!Revoke, G!Exists, G!NoGrant
  <2>2. [grants[g] EXCEPT !.status = "revoked", !.revoker = user] \in G!GrantRow
    BY <2>1 DEF G!GrantRow
  <2>3. grants' = [grants EXCEPT ![g] =
                     [grants[g] EXCEPT !.status = "revoked", !.revoker = user]]
    BY <1>5 DEF G!Revoke, G!TypeOK
  <2>. QED  BY <1>2, <2>2, <2>3
<1>6. ASSUME NEW g \in Grants, G!Expire(g) PROVE G!TypeOK'
  <2>1. grants[g] \in G!GrantRow  BY <1>1, <1>6 DEF G!Expire
  <2>2. [grants[g] EXCEPT !.expired = TRUE] \in G!GrantRow  BY <2>1 DEF G!GrantRow
  <2>3. grants' = [grants EXCEPT ![g] = [grants[g] EXCEPT !.expired = TRUE]]
    BY <1>6 DEF G!Expire, G!TypeOK
  <2>. QED  BY <1>2, <2>2, <2>3
<1>7. CASE UNCHANGED grants  BY <1>7 DEF G!TypeOK
<1>. QED  BY <1>3, <1>4, <1>5, <1>6, <1>7 DEF G!Next

\* A row that was written keeps what it says; revoked and expired rows stay so.
LEMMA GrantKept ==
  ASSUME G!TypeOK, [G!Next]_grants, NEW g \in Grants, grants[g] # G!NoGrant
  PROVE  /\ grants'[g] # G!NoGrant
         /\ grants'[g].content = grants[g].content /\ grants'[g].target = grants[g].target
         /\ grants[g].status \in {"approved", "revoked"} =>
              grants'[g].status \in {grants[g].status, "revoked"}
         /\ grants[g].expired => grants'[g].expired
<1>1. grants[g] \in G!GrantRow  BY DEF G!TypeOK
<1>2. grants' \in [Grants -> G!GrantRow \cup {G!NoGrant}]  BY GrantTypes DEF G!TypeOK
<1>3. ASSUME NEW h \in Grants, NEW user \in G!Users, NEW target, NEW content,
             G!Request(h, user, target, content)
      PROVE  UNCHANGED grants[g]
  BY <1>3 DEF G!Request, G!Exists, G!TypeOK
<1>4. ASSUME NEW h \in Grants, NEW user \in G!Users, G!Approve(h, user)
      PROVE  \/ grants'[g] = grants[g]
             \/ /\ grants'[g] = [grants[g] EXCEPT !.status = "approved", !.approver = user]
                /\ grants[g].status = "requested"
  BY <1>4 DEF G!Approve, G!TypeOK
<1>5. ASSUME NEW h \in Grants, NEW user \in G!Users, G!Revoke(h, user)
      PROVE  \/ grants'[g] = grants[g]
             \/ grants'[g] = [grants[g] EXCEPT !.status = "revoked", !.revoker = user]
  BY <1>5 DEF G!Revoke, G!TypeOK
<1>6. ASSUME NEW h \in Grants, G!Expire(h)
      PROVE  grants'[g] = grants[g] \/ grants'[g] = [grants[g] EXCEPT !.expired = TRUE]
  BY <1>6 DEF G!Expire, G!TypeOK
<1>7. \/ grants'[g] = grants[g]
      \/ \E user \in G!Users :
           \/ /\ grants'[g] = [grants[g] EXCEPT !.status = "approved", !.approver = user]
              /\ grants[g].status = "requested"
           \/ grants'[g] = [grants[g] EXCEPT !.status = "revoked", !.revoker = user]
      \/ grants'[g] = [grants[g] EXCEPT !.expired = TRUE]
  BY <1>3, <1>4, <1>5, <1>6 DEF G!Next
<1>8. \A row \in G!GrantRow : row # G!NoGrant
  <2>1. \A row \in G!GrantRow : row.status # "absent"  BY DEF G!GrantRow
  <2>. QED  BY <2>1 DEF G!NoGrant
<1>. QED  BY <1>1, <1>7, <1>8 DEF G!GrantRow
-------------------------------------------------------------------------------
\* Rows, catalogue, bindings and locks keep the shape the model gives them; no
\* capability row is ever revised more often than its installation.
THEOREM TypeCorrect == Spec => [](TypeOK /\ Types)
<1>1. Init => Types
  <2>. SUFFICES ASSUME Init PROVE Types  OBVIOUS
  <2>1. 0 \in 0..MaxRevision  BY SkillAssumption
  <2>2. RowTypes /\ CapsFollow
    <3>. PICK t \in ToolSets :
           inst = [revision |-> 0, status |-> "disabled", active |-> None, draft |-> None,
                   tools |-> t, grant |-> None, archived |-> FALSE]
      BY DEF Init
    <3>1. inst \in InstRows /\ inst.revision = 0  BY <2>1 DEF InstRows
    <3>2. caps \in Caps /\ \A v \in Versions : caps[v].revision = 0
      BY <2>1 DEF Init, Caps, NoCap
    <3>3. versions \in [Versions -> {"absent", "draft", "ready"}]  BY DEF Init
    <3>. QED  BY <3>1, <3>2, <3>3 DEF RowTypes, CapsFollow
  <2>3. G!TypeOK  BY DEF Init, G!Init, G!TypeOK
  <2>4. NoEntry \in Entries  BY <2>1 DEF NoEntry, Entries
  <2>5. RunTypes
    <3>1. Unbound \in RunRows  BY <2>4 DEF Unbound, RunRows, Progress
    <3>. QED  BY <2>4, <3>1 DEF Init, RunTypes
  <2>. QED  BY <2>2, <2>3, <2>5 DEF Types
<1>2. Types /\ [Next]_vars => Types'
  <2>. SUFFICES ASSUME Types, [Next]_vars PROVE Types'  OBVIOUS
  <2>1. RowTypes /\ CapsFollow /\ G!TypeOK /\ RunTypes  BY DEF Types
  <2>2. G!TypeOK'  BY <2>1, GrantStep, GrantTypes
  <2>3. CASE Manage \/ Decide
    <3>1. RowTypes' /\ CapsFollow'  BY <2>1, <2>3, AdminRowTypes
    <3>2. UNCHANGED <<runs, lock>> /\ (UNCHANGED registry \/ Bumped)  BY <2>3, AdminRuns
    <3>3. RunTypes'  BY <2>1, <3>2 DEF RunTypes, Bumped
    <3>. QED  BY <2>2, <3>1, <3>3 DEF Types
  <2>4. ASSUME NEW r \in Runs, RunStep(r) PROVE Types'
    <3>1. RowTypes' /\ CapsFollow'
      BY <2>1, <2>4, RunTables DEF tableVars, RowTypes, CapsFollow
    <3>. QED  BY <2>1, <2>2, <2>4, <3>1, RunStepTypes DEF Types
  <2>5. CASE UNCHANGED vars
    BY <2>1, <2>2, <2>5 DEF vars, Types, RowTypes, CapsFollow, RunTypes
  <2>. QED  BY <2>3, <2>4, <2>5 DEF Next
<1>. QED  BY <1>1, <1>2, TypesAreTypes, PTL DEF Spec

\* FollowsGrants: every behaviour of the Skill service, with its imports,
\* drafts, roll-backs, runs and confirmations, is one of authorization_grants.
THEOREM ServiceFollowsGrants == Spec => FollowsGrants
<1>1. Init => G!Init  BY DEF Init
<1>2. Types /\ [Next]_vars => [G!Next]_grants  BY GrantStep DEF Types
<1>. QED  BY <1>1, <1>2, TypeCorrect, PTL DEF Spec, FollowsGrants, G!Spec
-------------------------------------------------------------------------------
(* EnabledIsWhatWasApproved                                                   *)

\* Only these changes leave a Skill enabled.
LEMMA EnabledStep ==
  ASSUME Types, EnabledIsWhatWasApproved, [Next]_vars
  PROVE  EnabledIsWhatWasApproved'
<1>. inst \in InstRows /\ G!TypeOK /\ RowTypes  BY DEF Types, RowTypes
<1>1. ASSUME inst'.status # "enabled" PROVE EnabledIsWhatWasApproved'
  BY <1>1 DEF EnabledIsWhatWasApproved
<1>2. ASSUME UNCHANGED caps, inst'.status = inst.status, inst'.grant = inst.grant,
             inst'.active = inst.active, inst'.tools = inst.tools
      PROVE  EnabledIsWhatWasApproved'
  <2>. SUFFICES ASSUME inst.status = "enabled" PROVE EnabledIsWhatWasApproved'
    BY <1>1, <1>2
  <2>1. /\ inst.grant \in Grants
        /\ grants[inst.grant].status \in {"approved", "revoked"}
        /\ grants[inst.grant].content = [version |-> inst.active, tools |-> inst.tools]
        /\ grants[inst.grant].target = caps[inst.active].revision
    BY DEF EnabledIsWhatWasApproved, InstRows
  <2>2. grants[inst.grant] # G!NoGrant  BY <2>1 DEF G!NoGrant
  <2>3. [G!Next]_grants  BY GrantStep
  <2>4. /\ grants'[inst.grant].status \in {"approved", "revoked"}
        /\ grants'[inst.grant].content = grants[inst.grant].content
        /\ grants'[inst.grant].target = grants[inst.grant].target
    BY <2>1, <2>2, <2>3, GrantKept
  <2>. QED  BY <1>2, <2>1, <2>4 DEF EnabledIsWhatWasApproved
<1>3. ASSUME NEW v, NEW tools, NEW grant, Installed(v, tools, grant)
      PROVE  EnabledIsWhatWasApproved'
  <2>1. inst'.status = "disabled"  BY <1>3 DEF Installed, Changed, InstRows
  <2>. QED  BY <2>1, <1>1
<1>4. ASSUME NEW tools \in ToolSets, NEW enabled \in {"enabled", "disabled"},
             UpdateSettings(tools, enabled)
      PROVE  EnabledIsWhatWasApproved'
  <2>. DEFINE v == inst.active
              row == [inst EXCEPT !.tools = tools, !.status = enabled,
                                  !.grant = IF v = None THEN @ ELSE GrantAfter(v, tools)]
  <2>1. /\ row.status = enabled /\ row.tools = tools /\ row.active = inst.active
        /\ inst' = [row EXCEPT !.revision = inst.revision + 1]
        /\ enabled = "enabled" => Authorized(row, caps', grants)
        /\ UNCHANGED grants
    BY <1>4 DEF UpdateSettings, Changed, InstRows
  <2>2. /\ inst'.status = row.status /\ inst'.tools = row.tools
        /\ inst'.active = row.active /\ inst'.grant = row.grant
    BY <2>1 DEF InstRows
  <2>3. CASE enabled = "disabled"  BY <2>1, <2>2, <2>3, <1>1
  <2>4. CASE enabled = "enabled"
    <3>1. Authorized(row, caps', grants)  BY <2>1, <2>4
    <3>. HIDE DEF row
    <3>. QED  BY <2>1, <2>2, <3>1 DEF Authorized, EnabledIsWhatWasApproved
  <2>. QED  BY <2>3, <2>4
<1>5. CASE Archive
  <2>1. inst'.status = "disabled"  BY <1>5 DEF Archive, Changed, InstRows
  <2>. QED  BY <2>1, <1>1
<1>6. ASSUME NEW g, NEW user, RequestGrant(g, user) PROVE EnabledIsWhatWasApproved'
  <2>1. inst'.status = "disabled"  BY <1>6 DEF RequestGrant, Changed, InstRows
  <2>. QED  BY <2>1, <1>1
<1>7. ASSUME NEW g, NEW user, DecideRevoke(g, user) PROVE EnabledIsWhatWasApproved'
  <2>1. inst'.status = "disabled"  BY <1>7 DEF DecideRevoke, Changed, InstRows
  <2>. QED  BY <2>1, <1>1
<1>8. ASSUME NEW v, CreateDraft(v) \/ SaveDraft(v) PROVE EnabledIsWhatWasApproved'
  BY <1>2, <1>8 DEF CreateDraft, SaveDraft, Changed, InstRows
<1>9. ASSUME NEW g, NEW user, DecideApprove(g, user) PROVE EnabledIsWhatWasApproved'
  BY <1>2, <1>9 DEF DecideApprove, Changed, InstRows
<1>10. ASSUME UNCHANGED <<inst, caps>> PROVE EnabledIsWhatWasApproved'
  BY <1>2, <1>10
<1>11. CASE Manage
  BY <1>11, <1>3, <1>4, <1>5, <1>8 DEF Manage, ActivateVersion, ApproveImport, PublishDraft
<1>12. CASE Decide
  BY <1>12, <1>6, <1>7, <1>9, <1>10 DEF Decide, DecideDirectly, Expire
<1>13. CASE \E r \in Runs : RunStep(r)
  BY <1>13, <1>10, RunTables DEF tableVars
<1>14. CASE UNCHANGED vars  BY <1>14, <1>10 DEF vars
<1>. QED  BY <1>11, <1>12, <1>13, <1>14 DEF Next

\* EnabledIsWhatWasApproved: whatever administrators do in whatever order, an
\* enabled Skill has the version and the tools its grant was approved for.
THEOREM EnabledWasApproved == Spec => []EnabledIsWhatWasApproved
<1>1. Init => EnabledIsWhatWasApproved  BY DEF Init, EnabledIsWhatWasApproved
<1>2. Types /\ EnabledIsWhatWasApproved /\ [Next]_vars => EnabledIsWhatWasApproved'
  BY EnabledStep
<1>. QED  BY <1>1, <1>2, TypeCorrect, PTL DEF Spec
-------------------------------------------------------------------------------
(* ActingIsApproved and WithdrawnForGood                                      *)

\* Who works under the locks holds them.
LockHeld == \A r \in Runs : At(r, "acting") => lock = <<r, "tool">>

\* Nothing remembers a revision of the installation that is yet to come.
Past ==
  /\ registry.entry.revision <= inst.revision
  /\ \A r \in Runs : runs[r].entry.revision <= inst.revision

\* A run has a grant from its binding on, and the grant is a row of the table.
BoundGrant ==
  \A r \in Runs : runs[r].grant # None =>
    /\ runs[r].pc \notin {"idle", "picked"}
    /\ grants[runs[r].grant] # G!NoGrant

\* All that holds of a working run but that it holds its locks.
Approved(r) ==
  /\ inst.status = "enabled" /\ inst.active = runs[r].entry.version
  /\ inst.grant = runs[r].grant
  /\ runs[r].grant \in Grants
  /\ grants[runs[r].grant].status = "approved"
  /\ grants[runs[r].grant].content =
       [version |-> runs[r].entry.version, tools |-> runs[r].entry.tools]

RunInv == LockHeld /\ Past /\ BoundGrant /\ \A r \in Runs : At(r, "acting") => Approved(r)

\* What is left to do while somebody holds the rows: time passes.
OnlyExpired ==
  /\ UNCHANGED inst
  /\ inst.grant \in Grants =>
       \/ grants'[inst.grant] = grants[inst.grant]
       \/ grants'[inst.grant] = [grants[inst.grant] EXCEPT !.expired = TRUE]

\* Administrators let the revision grow, by one each, and wait for the lock.
LEMMA AdminRevision ==
  ASSUME Types, Manage \/ Decide
  PROVE  /\ inst.revision \in Nat /\ inst'.revision \in {inst.revision, inst.revision + 1}
         /\ Free \/ OnlyExpired
<1>. inst \in InstRows /\ G!TypeOK /\ RowTypes  BY DEF Types, RowTypes
<1>1. inst.revision \in Nat  BY DEF InstRows
<1>2. CASE Manage \/ \E g \in Grants, user \in G!Users :
             RequestGrant(g, user) \/ DecideApprove(g, user) \/ DecideRevoke(g, user)
  <2>1. Free
    BY <1>2 DEF Manage, CreateDraft, SaveDraft, ActivateVersion, ApproveImport, PublishDraft,
                UpdateSettings, Archive, RequestGrant, DecideApprove, DecideRevoke, Manageable
  <2>2. inst'.revision = inst.revision + 1
    BY <1>2
    DEF Manage, CreateDraft, SaveDraft, ActivateVersion, ApproveImport, PublishDraft,
        UpdateSettings, Archive, Installed, RequestGrant, DecideApprove, DecideRevoke,
        Changed, InstRows
  <2>. QED  BY <1>1, <2>1, <2>2
<1>3. ASSUME NEW g \in Grants, NEW user \in G!Users, DecideDirectly(g, user)
      PROVE  UNCHANGED inst /\ (Free \/ OnlyExpired)
  <2>1. UNCHANGED inst /\ GrantFree(g)  BY <1>3 DEF DecideDirectly
  <2>2. \A h \in Grants : h # g => grants'[h] = grants[h]
    BY <1>3 DEF DecideDirectly, G!Approve, G!Revoke, G!TypeOK
  <2>. QED  BY <2>1, <2>2 DEF GrantFree, OnlyExpired
<1>4. ASSUME NEW g \in Grants, Expire(g)
      PROVE  UNCHANGED inst /\ OnlyExpired
  <2>1. \A h \in Grants : \/ grants'[h] = grants[h]
                          \/ grants'[h] = [grants[h] EXCEPT !.expired = TRUE]
    BY <1>4 DEF Expire, G!Expire, G!TypeOK
  <2>. QED  BY <1>4, <2>1 DEF Expire, OnlyExpired
<1>. QED  BY <1>1, <1>2, <1>3, <1>4 DEF Decide

LEMMA AdminRunInv ==
  ASSUME Types, RunInv, Manage \/ Decide
  PROVE  RunInv'
<1>1. UNCHANGED <<runs, lock>> /\ (UNCHANGED registry \/ Bumped)  BY AdminRuns
<1>2. /\ inst.revision \in Nat /\ inst'.revision \in {inst.revision, inst.revision + 1}
      /\ Free \/ OnlyExpired
  BY AdminRevision
<1>3. [G!Next]_grants /\ G!TypeOK  BY GrantStep DEF Types, Next
<1>4. LockHeld'  BY <1>1 DEF RunInv, LockHeld, At
<1>5. Past'
  <2>1. registry.entry.revision \in Nat /\ registry'.entry = registry.entry
    BY <1>1 DEF Types, RunTypes, Entries, Bumped
  <2>2. \A r \in Runs : runs[r].entry.revision \in Nat
    BY DEF Types, RunTypes, RunRows, Entries
  <2>. QED  BY <1>1, <1>2, <2>1, <2>2 DEF RunInv, Past
<1>6. BoundGrant'
  <2>. SUFFICES ASSUME NEW r \in Runs, runs[r].grant # None
                PROVE  grants'[runs[r].grant] # G!NoGrant
    BY <1>1 DEF RunInv, BoundGrant
  <2>1. runs[r].grant \in Grants  BY DEF Types, RunTypes, RunRows
  <2>. QED  BY <1>3, <2>1, GrantKept DEF RunInv, BoundGrant
<1>7. ASSUME NEW r \in Runs, At(r, "acting")' PROVE Approved(r)'
  <2>1. At(r, "acting") /\ Approved(r) /\ ~Free
    BY <1>1, <1>7, SkillAssumption DEF RunInv, LockHeld, At, Free
  <2>2. OnlyExpired  BY <1>2, <2>1
  <2>3. /\ grants'[runs[r].grant].status = grants[runs[r].grant].status
        /\ grants'[runs[r].grant].content = grants[runs[r].grant].content
    <3>1. grants[runs[r].grant] \in G!GrantRow
      BY <1>3, <2>1 DEF Approved, G!TypeOK, G!NoGrant
    <3>2. grants'[runs[r].grant] \in
            {grants[runs[r].grant], [grants[runs[r].grant] EXCEPT !.expired = TRUE]}
      BY <2>1, <2>2 DEF Approved, OnlyExpired
    <3>. QED  BY <3>1, <3>2 DEF G!GrantRow
  <2>. QED  BY <1>1, <2>1, <2>2, <2>3 DEF Approved, OnlyExpired
<1>. QED  BY <1>4, <1>5, <1>6, <1>7 DEF RunInv

\* A tool begins to work only under authority that was checked just now.
LEMMA LockCallActs ==
  ASSUME Types, NEW r \in Runs, LockCall(r), runs'[r].pc = "acting"
  PROVE  Free /\ Valid(r) /\ lock' = <<r, "tool">>
<1>1. runs[r] \in RunRows /\ runs \in [Runs -> RunRows]  BY DEF Types, RunTypes
<1>2. ASSUME ~Valid(r) PROVE FALSE
  <2>1. Goes(r, "bound") \/ Goes(r, "closed")  BY <1>2 DEF LockCall
  <2>2. \A pc \in Progress : Goes(r, pc) => runs'[r].pc = pc
    BY GoesRow DEF Types
  <2>. QED  BY <2>1, <2>2 DEF Progress
<1>. QED  BY <1>2 DEF LockCall

\* No other step of a run makes it work.
LEMMA OnlyLockCallActs ==
  ASSUME Types, NEW r \in Runs, RunStep(r), runs'[r].pc = "acting"
  PROVE  LockCall(r)
<1>. RunTypes /\ RowTypes /\ caps \in Caps /\ runs[r] \in RunRows
  BY DEF Types, RowTypes, RunTypes
<1>1. \A pc \in Progress : Goes(r, pc) => runs'[r].pc = pc  BY GoesRow
<1>2. \A pc \in Progress :
        runs' = [runs EXCEPT ![r].pc = pc, ![r].seen = caps] => runs'[r].pc = pc
  BY MoveRow
<1>3. CASE Pick(r)
  <2>1. UNCHANGED runs \/ runs'[r].pc = "picked"  BY <1>3, PickRow
  <2>2. runs[r].pc = "idle"  BY <1>3 DEF Pick, At
  <2>. QED  BY <2>1, <2>2
<1>4. CASE Bind(r)  BY <1>4, BindRow
<1>5. CASE CallStep(r)
  BY <1>1, <1>2, <1>5
  DEF CallStep, BeginCall, EndCall, TakePending, DropPending, ResolveConfirmed,
      LockWaitTimeout, Progress
<1>. QED  BY <1>3, <1>4, <1>5 DEF RunStep, CallStep

\* Under a lock that is held, nobody else works.
LEMMA ActingAfter ==
  ASSUME Types, RunInv, NEW r \in Runs, RunStep(r), NEW q \in Runs, At(q, "acting")'
  PROVE  /\ lock' = <<q, "tool">>
         /\ \/ q = r /\ Free /\ Valid(r)
            \/ At(q, "acting") /\ UNCHANGED runs[q]
<1>. RunTypes /\ RowTypes  BY DEF Types
<1>. runs \in [Runs -> RunRows]  BY DEF RunTypes
<1>1. \A s \in Runs : s # r => runs'[s] = runs[s]
  BY PickRow, BindRow, CallRow DEF RunStep, CallStep
<1>2. CASE q = r
  <2>1. LockCall(r)  BY <1>2, OnlyLockCallActs DEF At
  <2>. QED  BY <1>2, <2>1, LockCallActs DEF At
<1>3. CASE q # r
  <2>1. At(q, "acting") /\ UNCHANGED runs[q]  BY <1>1, <1>3 DEF At
  <2>2. lock = <<q, "tool">> /\ ~Free  BY <2>1, SkillAssumption DEF RunInv, LockHeld, Free
  <2>3. ~At(r, "acting")  BY <1>3, <2>2 DEF RunInv, LockHeld
  <2>4. UNCHANGED lock
    BY <2>2, <2>3
    DEF RunStep, Pick, Bind, BeginCall, LockCall, EndCall, TakePending, DropPending,
        ResolveConfirmed, LockWaitTimeout
  <2>. QED  BY <2>1, <2>2, <2>4
<1>. QED  BY <1>2, <1>3

LEMMA RunStepRunInv ==
  ASSUME Types, RunInv, NEW r \in Runs, RunStep(r)
  PROVE  RunInv'
<1>. RunTypes /\ RowTypes /\ G!TypeOK  BY DEF Types
<1>. runs \in [Runs -> RunRows] /\ inst \in InstRows  BY DEF RunTypes, RowTypes
<1>1. UNCHANGED <<versions, inst, caps, grants>>  BY RunTables DEF tableVars
<1>2. \A s \in Runs : s # r => runs'[s] = runs[s]
  BY PickRow, BindRow, CallRow DEF RunStep, CallStep
<1>3. LockHeld'  BY ActingAfter DEF LockHeld
<1>4. Past'
  <2>1. Entry.revision <= inst.revision /\ NoEntry.revision <= inst.revision
    BY DEF Entry, NoEntry, InstRows
  <2>2. registry'.entry \in {registry.entry, Entry}
    BY PickRow
    DEF RunStep, Bind, BeginCall, LockCall, EndCall, TakePending, DropPending,
        ResolveConfirmed, LockWaitTimeout
  <2>3. runs'[r].entry \in {runs[r].entry, registry'.entry}
    BY PickRow, BindRow, CallRow DEF RunStep, CallStep
  <2>. QED  BY <1>1, <1>2, <2>1, <2>2, <2>3 DEF RunInv, Past
<1>5. BoundGrant'
  <2>1. CASE Pick(r)
    <3>1. runs[r].grant = None  BY <2>1 DEF Pick, At, RunInv, BoundGrant
    <3>. QED  BY <1>1, <1>2, <2>1, <3>1, PickRow DEF RunInv, BoundGrant
  <2>2. CASE Bind(r)
    <3>1. runs[r].grant = None  BY <2>2 DEF Bind, At, RunInv, BoundGrant
    <3>2. runs'[r].grant # None => grants[inst.grant] # G!NoGrant
      <4>1. runs'[r].pc = "bound" => Authorized(inst, caps, grants)
        <5>1. "closed" \in Progress  BY DEF Progress
        <5>. QED  BY <2>2, <5>1, GoesRow DEF Bind
      <4>. QED  BY <2>2, <3>1, <4>1, BindRow DEF Authorized, G!NoGrant
    <3>. QED  BY <1>1, <1>2, <2>2, <3>1, <3>2, BindRow DEF RunInv, BoundGrant
  <2>3. CASE CallStep(r)
    BY <1>1, <1>2, <2>3, CallRow DEF RunInv, BoundGrant
  <2>. QED  BY <2>1, <2>2, <2>3 DEF RunStep, CallStep
<1>6. ASSUME NEW q \in Runs, At(q, "acting")' PROVE Approved(q)'
  <2>1. CASE At(q, "acting") /\ UNCHANGED runs[q]
    BY <1>1, <2>1 DEF RunInv, Approved
  <2>2. CASE q = r /\ Free /\ Valid(r)
    <3>1. runs'[r].entry = runs[r].entry /\ runs'[r].grant = runs[r].grant
      <4>1. LockCall(r)  BY <1>6, <2>2, OnlyLockCallActs DEF At
      <4>. QED  BY <4>1, CallRow DEF CallStep
    <3>. QED  BY <1>1, <2>2, <3>1 DEF Valid, Authorized, Approved, InstRows
  <2>. QED  BY <1>6, <2>1, <2>2, ActingAfter
<1>. QED  BY <1>3, <1>4, <1>5, <1>6 DEF RunInv

LEMMA RunInvariant == Spec => []RunInv
<1>1. Init => RunInv
  <2>. SUFFICES ASSUME Init PROVE RunInv  OBVIOUS
  <2>1. inst.revision = 0  BY DEF Init
  <2>2. \A r \in Runs : runs[r] = Unbound  BY DEF Init
  <2>3. registry.entry = NoEntry  BY DEF Init
  <2>. QED
    BY <2>1, <2>2, <2>3 DEF RunInv, LockHeld, Past, BoundGrant, At, Unbound, NoEntry
<1>2. Types /\ RunInv /\ [Next]_vars => RunInv'
  <2>. SUFFICES ASSUME Types, RunInv, [Next]_vars PROVE RunInv'  OBVIOUS
  <2>1. CASE UNCHANGED vars
    BY <2>1 DEF vars, RunInv, LockHeld, Past, BoundGrant, At, Approved
  <2>. QED  BY <2>1, AdminRunInv, RunStepRunInv DEF Next
<1>. QED  BY <1>1, <1>2, TypeCorrect, PTL DEF Spec

\* ActingIsApproved: whoever approves, revokes or changes what, at whatever
\* moment, a tool only works while the Skill is enabled with the version and the
\* tools of the run, under a grant approved for them.
THEOREM WorkIsApproved == Spec => []ActingIsApproved
<1>1. RunInv => ActingIsApproved  BY DEF RunInv, ActingIsApproved, Approved
<1>. QED  BY <1>1, RunInvariant, PTL

\* WithdrawnForGood: a run that has lost its authority never has it again, and
\* none of its tools begins to work.
THEOREM WithdrawnStays == Spec => WithdrawnForGood
<1>1. Types /\ RunInv /\ [Next]_vars =>
        [\A r \in Runs : Withdrawn(r) =>
           /\ Withdrawn(r)'
           /\ runs'[r].pc = "acting" => At(r, "acting")]_vars
  <2>. SUFFICES ASSUME Types, RunInv, Next, NEW r \in Runs, Withdrawn(r)
                PROVE  /\ Withdrawn(r)'
                       /\ runs'[r].pc = "acting" => At(r, "acting")
    BY DEF vars
  <2>. RunTypes /\ RowTypes /\ G!TypeOK  BY DEF Types
  <2>. runs \in [Runs -> RunRows] /\ inst \in InstRows  BY DEF RunTypes, RowTypes
  <2>1. /\ runs[r].grant \in Grants /\ grants[runs[r].grant] # G!NoGrant
        /\ runs[r].pc \notin {"idle", "picked"}
        /\ runs[r].entry.revision \in Nat /\ inst.revision \in Nat
        /\ runs[r].entry.revision <= inst.revision
    BY DEF Withdrawn, RunInv, BoundGrant, Past, RunRows, Entries, InstRows
  <2>2. /\ grants[runs[r].grant].status = "revoked" => grants'[runs[r].grant].status = "revoked"
        /\ grants[runs[r].grant].expired => grants'[runs[r].grant].expired
    <3>1. [G!Next]_grants  BY GrantStep
    <3>. QED  BY <2>1, <3>1, GrantKept
  <2>3. CASE Manage \/ Decide
    <3>1. UNCHANGED runs  BY <2>3, AdminRuns
    <3>2. inst'.revision \in {inst.revision, inst.revision + 1}  BY <2>3, AdminRevision
    <3>3. inst.revision # runs[r].entry.revision => inst'.revision # runs[r].entry.revision
      BY <2>1, <3>2
    <3>. QED  BY <2>2, <3>1, <3>3 DEF Withdrawn, At
  <2>4. ASSUME NEW s \in Runs, RunStep(s)
        PROVE  /\ Withdrawn(r)'
               /\ runs'[r].pc = "acting" => At(r, "acting")
    <3>1. UNCHANGED <<versions, inst, caps, grants>>  BY <2>4, RunTables DEF tableVars
    <3>2. runs'[r].entry = runs[r].entry /\ runs'[r].grant = runs[r].grant
      <4>1. CASE s # r
        BY <2>4, <4>1, PickRow, BindRow, CallRow DEF RunStep, CallStep
      <4>2. CASE s = r
        <5>1. CallStep(r)  BY <2>1, <2>4, <4>2 DEF RunStep, CallStep, Pick, Bind, At
        <5>. QED  BY <5>1, CallRow
      <4>. QED  BY <4>1, <4>2
    <3>3. Withdrawn(r)'  BY <2>2, <3>1, <3>2 DEF Withdrawn
    <3>4. ~Valid(r)  BY DEF Withdrawn, Valid, Authorized
    <3>5. runs'[r].pc = "acting" => At(r, "acting")
      BY <2>4, <3>4, ActingAfter DEF At
    <3>. QED  BY <3>3, <3>5
  <2>. QED  BY <2>3, <2>4 DEF Next
<1>. QED  BY <1>1, TypeCorrect, RunInvariant, PTL DEF Spec, WithdrawnForGood

------------------------------------------------------------------------------
(* The catalogues                                                            *)

(* A snapshot that has been built: it names a committed revision, and holds   *)
(* what that revision holds unless it is degraded.                           *)
Faithful(s) ==
  /\ s.revision <= revision
  /\ ~s.degraded => s.skills = committed[s.revision]

Catalogues == \A p \in Processes : Faithful(catalogue[p].snapshot)

(* publish never takes a healthy catalogue from a process that has one.      *)
Serves(p) == catalogue[p].published /\ ~catalogue[p].snapshot.degraded

Serving == \A p \in Processes : process[p] = "up" => Serves(p)

(* What a task read, and what it was given, is of a committed revision; the   *)
(* loop is about to acknowledge what its process has.                        *)
TaskKept(t) ==
  /\ task[t].view <= revision
  /\ TaskAt(t, "running") =>
       /\ Faithful(task[t].used)
       /\ ~task[t].used.degraded
       /\ task[t].used.revision >= task[t].view
  /\ t \in Processes /\ TaskAt(t, "acknowledging") =>
       /\ process[t] = "up"
       /\ catalogue[t].snapshot.revision >= task[t].view
  /\ t \in Requests => ~TaskAt(t, "acknowledging")

CataloguesInv ==
  /\ CataloguesTypeOK
  /\ committed[0] = Nothing
  /\ Catalogues
  /\ Serving
  /\ \A t \in Tasks : TaskKept(t)

------------------------------------------------------------------------------
LEMMA HostIsProcess == ASSUME NEW t \in Tasks PROVE Host(t) \in Processes
BY CataloguesAssumption DEF Host, Tasks

LEMMA BlankTyped == Nothing \in SkillSets /\ Blank \in Snapshots
<1>1. 0 \in Revisions  BY CataloguesAssumption DEF Revisions
<1> QED BY <1>1 DEF Nothing, Unpublished, SkillSets, Blank, Snapshots

(* What a rebuild hands to the registry.                                     *)
LEMMA BuiltFaithful ==
  ASSUME CataloguesInv, NEW t \in Tasks
  PROVE  /\ Built(t) \in Snapshots /\ Faithful(Built(t)) /\ ~Built(t).degraded
         /\ Built(t).revision = task[t].view
         /\ Degraded(t) \in Snapshots /\ Faithful(Degraded(t)) /\ Degraded(t).degraded
<1>1. task[t].view \in Revisions /\ task[t].view <= revision
  BY DEF CataloguesInv, CataloguesTypeOK, TaskKept
<1>2. committed[task[t].view] \in SkillSets
  BY <1>1 DEF CataloguesInv, CataloguesTypeOK
<1> QED BY <1>1, <1>2, BlankTyped DEF Built, Degraded, Snapshots, Faithful

(* What the registry makes of it.                                            *)
LEMMA PublishKeeps ==
  ASSUME CataloguesInv, NEW p \in Processes, NEW s \in Snapshots, Faithful(s)
  PROVE  LET c == Published(p, s)
         IN  /\ c \in [Processes -> [snapshot : Snapshots, published : BOOLEAN]]
             /\ \A q \in Processes : Faithful(c[q].snapshot)
             /\ \A q \in Processes : Serves(q) => c[q].published /\ ~c[q].snapshot.degraded
             /\ \A q \in Processes : c[q].snapshot.revision >= catalogue[q].snapshot.revision
             /\ Accepts(p, s) => c[p].snapshot = s /\ c[p].published
<1> DEFINE c == Published(p, s)
<1> DEFINE n == [snapshot |-> s, published |-> TRUE]
<1>0. catalogue \in [Processes -> [snapshot : Snapshots, published : BOOLEAN]]
  BY DEF CataloguesInv, CataloguesTypeOK
<1>1. \A q \in Processes : catalogue[q].snapshot.revision \in Nat
  BY <1>0, CataloguesAssumption DEF Snapshots, Revisions
<1>2. CASE Accepts(p, s)
  <2>1. c = [catalogue EXCEPT ![p] = n]  BY <1>2 DEF Published
  <2>2. n \in [snapshot : Snapshots, published : BOOLEAN]  OBVIOUS
  <2>3. c \in [Processes -> [snapshot : Snapshots, published : BOOLEAN]]  BY <1>0, <2>1, <2>2
  <2>4. c[p] = n /\ \A q \in Processes : q # p => c[q] = catalogue[q]  BY <1>0, <2>1
  <2>5. s.revision >= catalogue[p].snapshot.revision
        /\ (Serves(p) => ~s.degraded)
    BY <1>2 DEF Accepts, Serves
  <2> QED BY <1>0, <1>1, <2>3, <2>4, <2>5 DEF CataloguesInv, Catalogues, Serves
<1>3. CASE ~Accepts(p, s)
  <2>1. c = catalogue  BY <1>3 DEF Published
  <2> QED BY <1>0, <1>1, <1>3, <2>1 DEF CataloguesInv, Catalogues, Serves
<1> QED BY <1>2, <1>3

LEMMA FaultTyped == ASSUME faults \in 0..MaxFaults, Fault PROVE faults' \in 0..MaxFaults
BY CataloguesAssumption DEF Fault

(* A rebuild, whoever asked for it.                                          *)
LEMMA RebuildKeeps ==
  ASSUME CataloguesInv, NEW t \in Tasks, NEW usable \in BOOLEAN, Rebuilds(t, usable)
  PROVE  /\ catalogue' \in [Processes -> [snapshot : Snapshots, published : BOOLEAN]]
         /\ faults' \in 0..MaxFaults
         /\ \A q \in Processes : Faithful(catalogue'[q].snapshot)
         /\ \A q \in Processes :
              Serves(q) => catalogue'[q].published /\ ~catalogue'[q].snapshot.degraded
         /\ \A q \in Processes :
              catalogue'[q].snapshot.revision >= catalogue[q].snapshot.revision
         /\ usable => /\ catalogue'[Host(t)].snapshot = Built(t)
                      /\ catalogue'[Host(t)].published
<1>0. faults \in 0..MaxFaults  BY DEF CataloguesInv, CataloguesTypeOK
<1>1. Host(t) \in Processes  BY HostIsProcess
<1>2. CASE /\ catalogue' = Published(Host(t), Built(t))
           /\ usable = Accepts(Host(t), Built(t)) /\ UNCHANGED faults
  <2>1. /\ Built(t) \in Snapshots /\ Faithful(Built(t)) /\ ~Built(t).degraded
    BY BuiltFaithful
  <2>2. faults' \in 0..MaxFaults  BY <1>0, <1>2
  <2> QED BY <1>1, <1>2, <2>1, <2>2, PublishKeeps
<1>3. CASE /\ IF Intact(task[t].view) THEN Fault ELSE UNCHANGED faults
           /\ catalogue' = Published(Host(t), Degraded(t)) /\ ~usable
  <2>1. faults' \in 0..MaxFaults  BY <1>0, <1>3, FaultTyped
  <2>2. Degraded(t) \in Snapshots /\ Faithful(Degraded(t))  BY BuiltFaithful
  <2> QED BY <1>1, <1>3, <2>1, <2>2, PublishKeeps
<1> QED BY <1>2, <1>3 DEF Rebuilds
------------------------------------------------------------------------------
(* The parts of the invariant across a step.                                 *)

LEMMA Numbers ==
  ASSUME CataloguesInv
  PROVE  /\ Revisions \subseteq Nat /\ revision \in Nat
         /\ \A t \in Tasks : task[t].view \in Revisions
         /\ \A p \in Processes : catalogue[p].snapshot.revision \in Revisions
BY CataloguesAssumption DEF CataloguesInv, CataloguesTypeOK, Revisions, Snapshots

(* A task that does not move is kept as it is while catalogues only advance.  *)
LEMMA TaskStays ==
  ASSUME CataloguesInv, NEW t \in Tasks, task'[t] = task[t],
         revision' = revision, committed' = committed,
         t \in Processes => /\ process'[t] = process[t]
                           /\ catalogue'[t].snapshot.revision \in Nat
                           /\ catalogue'[t].snapshot.revision >= catalogue[t].snapshot.revision
  PROVE  TaskKept(t)'
<1>1. TaskKept(t)  BY DEF CataloguesInv
<1>2. task[t].view \in Nat /\ (t \in Processes => catalogue[t].snapshot.revision \in Nat)
  BY Numbers
<1>3. Faithful(task[t].used)' = Faithful(task[t].used)  BY DEF Faithful
<1> QED BY <1>1, <1>2, <1>3 DEF TaskKept, TaskAt

(* Between the two, a task may be anywhere but in a run or at the outbox.     *)
LEMMA TaskElsewhere ==
  ASSUME NEW t \in Tasks, task'[t].view <= revision',
         task'[t].pc \notin {"running", "acknowledging"}
  PROVE  TaskKept(t)'
BY DEF TaskKept, TaskAt

TaskRecords == [pc : {"idle", "open", "building", "committed", "refreshing",
                      "running", "acknowledging"},
                view : Revisions, used : Snapshots]

LEMMA TaskTyped == ASSUME CataloguesInv PROVE task \in [Tasks -> TaskRecords]
BY DEF CataloguesInv, CataloguesTypeOK, TaskRecords

(* Steps that only move one task, and neither into a run nor to the outbox.   *)
LEMMA MoveKeeps ==
  ASSUME CataloguesInv, NEW t \in Tasks, NEW r \in TaskRecords,
         task' = [task EXCEPT ![t] = r], r.view <= revision,
         r.pc \notin {"running", "acknowledging"},
         UNCHANGED <<dbVars, process, catalogue>>, faults' \in 0..MaxFaults
  PROVE  CataloguesInv'
<1>1. task \in [Tasks -> TaskRecords]  BY TaskTyped
<1>2. task' \in [Tasks -> TaskRecords] /\ task'[t] = r
      /\ \A u \in Tasks : u # t => task'[u] = task[u]
  BY <1>1
<1>3. CataloguesTypeOK'
  BY <1>2 DEF CataloguesInv, CataloguesTypeOK, TaskRecords, dbVars
<1>4. (committed[0] = Nothing)' /\ Catalogues' /\ Serving'
  BY DEF CataloguesInv, Catalogues, Serving, Serves, Faithful, dbVars
<1>5. ASSUME NEW u \in Tasks PROVE TaskKept(u)'
  <2>1. CASE u = t  BY <2>1, <1>2, TaskElsewhere DEF dbVars
  <2>2. CASE u # t  BY <2>2, <1>2, TaskStays, Numbers DEF dbVars
  <2> QED BY <2>1, <2>2
<1> QED BY <1>3, <1>4, <1>5 DEF CataloguesInv

LEMMA IdleRecord == Idle \in TaskRecords /\ Idle.view = 0 /\ Idle.pc = "idle"
<1>1. 0 \in Revisions  BY CataloguesAssumption DEF Revisions
<1> QED BY <1>1, BlankTyped DEF Idle, TaskRecords

LEMMA EndKeeps ==
  ASSUME CataloguesInv, NEW t \in Tasks, Ends(t),
         UNCHANGED <<dbVars, process, catalogue>>, faults' \in 0..MaxFaults
  PROVE  CataloguesInv'
<1>1. Idle.view <= revision /\ Idle.pc \notin {"running", "acknowledging"}
  BY IdleRecord, Numbers
<1>2. task' = [task EXCEPT ![t] = Idle]  BY DEF Ends
<1> QED BY <1>1, <1>2, IdleRecord, MoveKeeps

------------------------------------------------------------------------------
(* Management.                                                               *)

LEMMA CommitKeeps ==
  ASSUME CataloguesInv, NEW r \in Requests, NEW s \in Skills,
         NEW package \in Packages \cup {NoPackage}, Commits(s, package), Manages(r)
  PROVE  CataloguesInv'
<1> DEFINE entry == [package |-> package, since |-> revision + 1]
<1> DEFINE skills == [committed[revision] EXCEPT ![s] = entry]
<1>1. /\ revision \in Revisions /\ revision' = revision + 1 /\ revision' \in Revisions
      /\ Revisions \subseteq Nat
  BY Numbers, CataloguesAssumption DEF Commits, CataloguesInv, CataloguesTypeOK, Revisions
<1>2. committed \in [Revisions -> SkillSets]  BY DEF CataloguesInv, CataloguesTypeOK
<1>3. skills \in SkillSets
  <2>1. committed[revision] \in [Skills -> [package : Packages \cup {NoPackage}, since : Revisions]]
    BY <1>1, <1>2 DEF SkillSets
  <2>2. entry \in [package : Packages \cup {NoPackage}, since : Revisions]  BY <1>1
  <2> QED BY <2>1, <2>2 DEF SkillSets
<1>4. /\ committed' \in [Revisions -> SkillSets]
      /\ \A n \in Revisions : n <= revision => committed'[n] = committed[n]
  <2>1. committed' = [committed EXCEPT ![revision + 1] = skills]  BY DEF Commits
  <2> QED BY <1>1, <1>2, <1>3, <2>1
<1>5. ASSUME NEW x \in Snapshots, Faithful(x) PROVE Faithful(x)'
  <2>1. x.revision \in Revisions /\ x.revision <= revision  BY <1>5 DEF Snapshots, Faithful
  <2> DEFINE n == x.revision
  <2>0. n \in Nat /\ revision \in Nat  BY <1>1, <2>1
  <2>2. n <= revision'
    <3>1. revision' = revision + 1 /\ n <= revision  BY <1>1, <2>1
    <3> HIDE DEF n
    <3> QED BY <2>0, <3>1
  <2>3. committed'[x.revision] = committed[x.revision]  BY <1>4, <2>1
  <2>4. ~x.degraded => x.skills = committed[x.revision]  BY <1>5 DEF Faithful
  <2> QED BY <2>2, <2>3, <2>4 DEF Faithful
<1>6. /\ task \in [Tasks -> TaskRecords] /\ r \in Tasks  BY TaskTyped DEF Tasks
<1>7. /\ task' \in [Tasks -> TaskRecords]
      /\ \A u \in Tasks : u # r => task'[u] = task[u]
      /\ task'[r] = task[r] \/ (task'[r].view = task[r].view /\ task'[r].pc = "committed")
  <2>1. [task[r] EXCEPT !.pc = "committed"] \in TaskRecords  BY <1>6 DEF TaskRecords
  <2> QED BY <1>6, <2>1 DEF Manages, TaskGoes, TaskRecords
<1>8. CataloguesTypeOK'
  <2>1. 1..revision \subseteq 1..(revision + 1)  BY <1>1
  <2> QED BY <1>1, <1>4, <1>7, <2>1
       DEF CataloguesInv, CataloguesTypeOK, TaskRecords, Commits, Manages
<1>9. committed'[0] = Nothing
  BY <1>1, <1>4, CataloguesAssumption DEF CataloguesInv, Revisions
<1>10. Catalogues' /\ Serving'
  <2>1. \A p \in Processes : catalogue[p].snapshot \in Snapshots
    BY DEF CataloguesInv, CataloguesTypeOK
  <2>2. catalogue' = catalogue /\ process' = process  BY DEF Manages
  <2>3. ASSUME NEW p \in Processes PROVE Faithful(catalogue[p].snapshot)'
    BY <1>5, <2>1, <2>2 DEF CataloguesInv, Catalogues, Faithful
  <2> QED BY <2>2, <2>3 DEF CataloguesInv, Catalogues, Serving, Serves
<1>11. ASSUME NEW u \in Tasks PROVE TaskKept(u)'
  <2>1. TaskKept(u) /\ task[u].used \in Snapshots /\ task[u].view \in Nat
    BY <1>1, <1>6 DEF CataloguesInv, TaskRecords
  <2>2. CASE task'[u] = task[u]
    <3>1. Faithful(task[u].used) => Faithful(task[u].used)'
      BY <1>5, <2>1, <2>2 DEF Faithful
    <3> QED BY <1>1, <2>1, <2>2, <3>1 DEF TaskKept, TaskAt, Manages
  <2>3. CASE task'[u].view = task[u].view /\ task'[u].pc = "committed"
    <3>1. task'[u].view <= revision'  BY <1>1, <2>1, <2>3 DEF TaskKept
    <3> QED BY <2>3, <3>1, TaskElsewhere
  <2> QED BY <1>7, <2>2, <2>3
<1> QED BY <1>8, <1>9, <1>10, <1>11 DEF CataloguesInv
------------------------------------------------------------------------------
(* Reconciliation.                                                           *)

LEMMA OpenKeeps ==
  ASSUME CataloguesInv, NEW t \in Tasks, Open(t) \/ BeginRefresh(t)
  PROVE  CataloguesInv'
<1> PICK pc \in {"open", "refreshing"} :
           task' = [task EXCEPT ![t].pc = pc, ![t].view = revision]
  BY DEF Open, BeginRefresh
<1> DEFINE r == [task[t] EXCEPT !.pc = pc, !.view = revision]
<1>1. task \in [Tasks -> TaskRecords]  BY TaskTyped
<1>2. revision \in Revisions /\ revision \in Nat /\ faults \in 0..MaxFaults
  BY Numbers DEF CataloguesInv, CataloguesTypeOK
<1>3. r \in TaskRecords /\ r.view <= revision /\ r.pc \notin {"running", "acknowledging"}
  <2>1. r \in TaskRecords /\ r.view = revision /\ r.pc = pc  BY <1>1, <1>2 DEF TaskRecords
  <2> HIDE DEF r
  <2> QED BY <1>2, <2>1
<1>4. task' = [task EXCEPT ![t] = r]  BY <1>1
<1>5. UNCHANGED <<dbVars, process, catalogue, faults>>  BY DEF Open, BeginRefresh
<1> HIDE DEF r
<1> QED BY <1>2, <1>3, <1>4, <1>5, MoveKeeps

(* The step after which a task uses its process's catalogue, or acknowledges   *)
(* what is in it.                                                             *)
LEMMA ProceedKeeps ==
  ASSUME CataloguesInv, NEW t \in Tasks, NEW s \in Snapshots,
         process[Host(t)] = "up", Faithful(s), ~s.degraded, s.revision = task[t].view,
         Proceeds(t, s), UNCHANGED <<dbVars, process>>, faults' \in 0..MaxFaults,
         catalogue' \in [Processes -> [snapshot : Snapshots, published : BOOLEAN]],
         catalogue'[Host(t)].snapshot = s,
         \A q \in Processes : Faithful(catalogue'[q].snapshot),
         \A q \in Processes :
           Serves(q) => catalogue'[q].published /\ ~catalogue'[q].snapshot.degraded,
         \A q \in Processes :
           catalogue'[q].snapshot.revision >= catalogue[q].snapshot.revision
  PROVE  CataloguesInv'
<1>1. task \in [Tasks -> TaskRecords]  BY TaskTyped
<1>2. /\ task' \in [Tasks -> TaskRecords]
      /\ \A u \in Tasks : u # t => task'[u] = task[u]
      /\ task'[t].view = task[t].view
      /\ t \in Requests => task'[t].pc = "running" /\ task'[t].used = s
      /\ t \notin Requests => task'[t].pc = "acknowledging"
  BY <1>1, BlankTyped DEF Proceeds, TaskRecords
<1>3. CataloguesTypeOK'
  BY <1>2 DEF CataloguesInv, CataloguesTypeOK, TaskRecords, dbVars
<1>4. (committed[0] = Nothing)' /\ Catalogues' /\ Serving'
  BY DEF CataloguesInv, Catalogues, Serving, Serves, Faithful, dbVars
<1>5. ASSUME NEW u \in Tasks PROVE TaskKept(u)'
  <2>1. CASE u # t
    <3>1. \A q \in Processes : catalogue'[q].snapshot.revision \in Nat
      BY Numbers DEF Snapshots
    <3> QED BY <2>1, <1>2, <3>1, TaskStays DEF dbVars
  <2>2. CASE u = t
    <3>1. task[t].view \in Nat /\ task[t].view <= revision  BY Numbers DEF CataloguesInv, TaskKept
    <3>2. CASE t \in Requests
      <4>1. t \notin Processes  BY <3>2, CataloguesAssumption
      <4>2. Faithful(task[t].used)'
        BY <1>2, <3>2 DEF Faithful, dbVars
      <4> QED BY <2>2, <1>2, <3>1, <3>2, <4>1, <4>2 DEF TaskKept, TaskAt, dbVars
    <3>3. CASE t \notin Requests
      <4>1. Host(t) = t  BY <3>3 DEF Host, Tasks
      <4> QED BY <2>2, <1>2, <3>1, <3>3, <4>1 DEF TaskKept, TaskAt, dbVars
    <3> QED BY <3>2, <3>3
  <2> QED BY <2>1, <2>2
<1> QED BY <1>3, <1>4, <1>5 DEF CataloguesInv

(* A rebuild whose caller goes back to rest.                                 *)
LEMMA RebuildEnds ==
  ASSUME CataloguesInv, NEW t \in Tasks, NEW usable \in BOOLEAN, Rebuilds(t, usable),
         Ends(t), UNCHANGED dbVars,
         \A q \in Processes \ {Host(t)} : process'[q] = process[q],
         t \in Requests => process' = process,
         process' \in [Processes -> {"down", "starting", "up"}],
         process'[Host(t)] = "up" => usable \/ process[Host(t)] = "up"
  PROVE  CataloguesInv'
<1>1. task \in [Tasks -> TaskRecords]  BY TaskTyped
<1>2. /\ task' \in [Tasks -> TaskRecords]
      /\ \A u \in Tasks : u # t => task'[u] = task[u]
      /\ task'[t] = Idle
  BY <1>1, IdleRecord DEF Ends
<1>3. /\ catalogue' \in [Processes -> [snapshot : Snapshots, published : BOOLEAN]]
      /\ faults' \in 0..MaxFaults
      /\ \A q \in Processes : Faithful(catalogue'[q].snapshot)
      /\ \A q \in Processes :
           Serves(q) => catalogue'[q].published /\ ~catalogue'[q].snapshot.degraded
      /\ \A q \in Processes :
           catalogue'[q].snapshot.revision >= catalogue[q].snapshot.revision
      /\ usable => /\ catalogue'[Host(t)].snapshot = Built(t)
                   /\ catalogue'[Host(t)].published
  BY RebuildKeeps
<1>4. CataloguesTypeOK'
  BY <1>2, <1>3 DEF CataloguesInv, CataloguesTypeOK, TaskRecords, dbVars
<1>5. (committed[0] = Nothing)' /\ Catalogues'
  BY <1>3 DEF CataloguesInv, Catalogues, Faithful, dbVars
<1>6. Serving'
  <2> SUFFICES ASSUME NEW q \in Processes, process'[q] = "up" PROVE Serves(q)'
    BY DEF Serving
  <2>1. CASE process[q] = "up"
    BY <2>1, <1>3 DEF CataloguesInv, Serving, Serves
  <2>2. CASE process[q] # "up"
    <3>1. q = Host(t) /\ usable  BY <2>2
    <3>2. ~Built(t).degraded  BY BuiltFaithful
    <3> QED BY <3>1, <3>2, <1>3 DEF Serves
  <2> QED BY <2>1, <2>2
<1>7. ASSUME NEW u \in Tasks PROVE TaskKept(u)'
  <2>1. CASE u = t
    <3>1. 0 <= revision'  BY Numbers DEF dbVars
    <3> QED BY <2>1, <3>1, <1>2, IdleRecord, TaskElsewhere
  <2>2. CASE u # t
    <3>1. u \in Processes => process'[u] = process[u]
      <4>1. CASE t \in Requests  BY <4>1
      <4>2. CASE t \in Processes  BY <4>2, <2>2 DEF Host
      <4> QED BY <4>1, <4>2 DEF Tasks
    <3>2. \A q \in Processes : catalogue'[q].snapshot.revision \in Nat
      BY <1>3, Numbers DEF Snapshots
    <3> QED BY <2>2, <1>2, <1>3, <3>1, <3>2, TaskStays DEF dbVars
  <2> QED BY <2>1, <2>2
<1> QED BY <1>4, <1>5, <1>6, <1>7 DEF CataloguesInv

LEMMA ReconcileKeeps ==
  ASSUME CataloguesInv, NEW t \in Tasks, Reconcile(t)
  PROVE  CataloguesInv'
<1>0. process[Host(t)] = "up" /\ UNCHANGED <<dbVars, process, catalogue, faults>> /\ faults \in 0..MaxFaults
  BY DEF Reconcile, CataloguesInv, CataloguesTypeOK
<1>1. CASE UpToDate(t)
  <2>1. Host(t) \in Processes  BY HostIsProcess
  <2>2. catalogue \in [Processes -> [snapshot : Snapshots, published : BOOLEAN]]
    BY DEF CataloguesInv, CataloguesTypeOK
  <2>3. /\ Held(t) = catalogue[Host(t)].snapshot /\ Held(t) \in Snapshots
        /\ Faithful(Held(t)) /\ ~Held(t).degraded /\ Held(t).revision = task[t].view
    BY <1>1, <2>1, <2>2 DEF Held, UpToDate, CataloguesInv, Catalogues
  <2>4. \A q \in Processes :
          /\ Faithful(catalogue[q].snapshot)
          /\ Serves(q) => catalogue[q].published /\ ~catalogue[q].snapshot.degraded
          /\ catalogue[q].snapshot.revision >= catalogue[q].snapshot.revision
    BY Numbers DEF CataloguesInv, Catalogues, Serves
  <2>5. Proceeds(t, Held(t))  BY <1>1 DEF Reconcile
  <2>6. catalogue' = catalogue  BY <1>0
  <2> QED BY <1>0, <2>2, <2>3, <2>4, <2>5, <2>6, ProceedKeeps
<1>2. CASE ~UpToDate(t)
  <2> DEFINE r == [task[t] EXCEPT !.pc = "building"]
  <2>1. task \in [Tasks -> TaskRecords] /\ task[t].view <= revision
    BY TaskTyped DEF CataloguesInv, TaskKept
  <2>2. r \in TaskRecords /\ r.view <= revision /\ r.pc \notin {"running", "acknowledging"}
    BY <2>1 DEF TaskRecords
  <2>3. task' = [task EXCEPT ![t] = r]  BY <1>2, <2>1 DEF Reconcile, TaskGoes
  <2> HIDE DEF r
  <2> QED BY <1>0, <2>2, <2>3, MoveKeeps
<1> QED BY <1>1, <1>2

LEMMA BuildKeeps == ASSUME CataloguesInv, NEW t \in Tasks, Build(t) PROVE CataloguesInv'
<1> PICK usable \in BOOLEAN :
      /\ Rebuilds(t, usable)
      /\ IF usable THEN Proceeds(t, Built(t)) ELSE Ends(t)
  BY DEF Build
<1>0. process[Host(t)] = "up" /\ UNCHANGED <<dbVars, process>>  BY DEF Build
<1>1. CASE usable
  <2>1. /\ Built(t) \in Snapshots /\ Faithful(Built(t)) /\ ~Built(t).degraded
        /\ Built(t).revision = task[t].view
    BY BuiltFaithful
  <2> QED BY <1>0, <1>1, <2>1, RebuildKeeps, ProceedKeeps
<1>2. CASE ~usable
  <2>1. process' \in [Processes -> {"down", "starting", "up"}]
    BY <1>0 DEF CataloguesInv, CataloguesTypeOK
  <2> QED BY <1>0, <1>2, <2>1, RebuildEnds
<1> QED BY <1>1, <1>2

LEMMA AcknowledgeKeeps ==
  ASSUME CataloguesInv, NEW p \in Processes, Acknowledge(p)
  PROVE  CataloguesInv'
<1>1. task \in [Tasks -> TaskRecords] /\ p \in Tasks  BY TaskTyped DEF Tasks
<1>2. /\ task' \in [Tasks -> TaskRecords]
      /\ \A u \in Tasks : u # p => task'[u] = task[u]
      /\ task'[p] = Idle
  BY <1>1, IdleRecord DEF Acknowledge, Ends
<1>3. UNCHANGED <<revision, committed, damaged, local, process, catalogue, faults>>
  BY DEF Acknowledge
<1>4. processed' \subseteq 1..revision'
  <2>1. task[p].view \in Nat /\ revision \in Nat /\ task[p].view <= revision
    BY <1>1, Numbers DEF CataloguesInv, TaskKept
  <2>2. 1..task[p].view \subseteq 1..revision  BY <2>1
  <2> QED BY <1>3, <2>2 DEF Acknowledge, CataloguesInv, CataloguesTypeOK
<1>5. CataloguesTypeOK'
  BY <1>2, <1>3, <1>4 DEF CataloguesInv, CataloguesTypeOK, TaskRecords
<1>6. (committed[0] = Nothing)' /\ Catalogues' /\ Serving'
  BY <1>3 DEF CataloguesInv, Catalogues, Serving, Serves, Faithful
<1>7. ASSUME NEW u \in Tasks PROVE TaskKept(u)'
  <2>1. CASE u = p
    <3>1. 0 <= revision'  BY <1>3, Numbers
    <3> QED BY <2>1, <3>1, <1>2, IdleRecord, TaskElsewhere
  <2>2. CASE u # p
    <3>1. \A q \in Processes : /\ catalogue[q].snapshot.revision \in Nat
                              /\ catalogue[q].snapshot.revision >= catalogue[q].snapshot.revision
      BY Numbers
    <3> QED BY <2>2, <3>1, <1>2, <1>3, TaskStays
  <2> QED BY <2>1, <2>2
<1> QED BY <1>5, <1>6, <1>7 DEF CataloguesInv
------------------------------------------------------------------------------
(* Processes.                                                                *)

LEMMA StartKeeps ==
  ASSUME CataloguesInv, NEW p \in Processes, Start(p)
  PROVE  CataloguesInv'
<1> DEFINE r == [task[p] EXCEPT !.pc = "building", !.view = revision]
<1>1. task \in [Tasks -> TaskRecords] /\ p \in Tasks  BY TaskTyped DEF Tasks
<1>2. revision \in Revisions /\ revision \in Nat  BY Numbers DEF CataloguesInv, CataloguesTypeOK
<1>3. r \in TaskRecords /\ r.view = revision /\ r.pc = "building"  BY <1>1, <1>2 DEF TaskRecords
<1>4. UNCHANGED <<dbVars, catalogue, faults>>  BY DEF Start
<1>5. /\ task' \in [Tasks -> TaskRecords]
      /\ \A u \in Tasks : u # p => task'[u] = task[u]
      /\ task'[p] = r
  <2>1. task' = [task EXCEPT ![p] = r]  BY <1>1 DEF Start
  <2> HIDE DEF r
  <2> QED BY <1>1, <1>3, <2>1
<1>6. /\ process' \in [Processes -> {"down", "starting", "up"}]
      /\ \A q \in Processes : q # p => process'[q] = process[q]
      /\ process'[p] = "starting"
  BY DEF Start, CataloguesInv, CataloguesTypeOK
<1>7. CataloguesTypeOK'
  BY <1>4, <1>5, <1>6 DEF CataloguesInv, CataloguesTypeOK, TaskRecords, dbVars
<1>8. (committed[0] = Nothing)' /\ Catalogues' /\ Serving'
  BY <1>4, <1>6 DEF CataloguesInv, Catalogues, Serving, Serves, Faithful, dbVars
<1>9. ASSUME NEW u \in Tasks PROVE TaskKept(u)'
  <2>1. CASE u = p
    <3>1. task'[u].view <= revision'  BY <2>1, <1>2, <1>3, <1>4, <1>5 DEF dbVars
    <3>2. task'[u].pc \notin {"running", "acknowledging"}  BY <2>1, <1>3, <1>5
    <3> QED BY <3>1, <3>2, TaskElsewhere
  <2>2. CASE u # p
    <3>1. \A q \in Processes : /\ catalogue[q].snapshot.revision \in Nat
                              /\ catalogue[q].snapshot.revision >= catalogue[q].snapshot.revision
      BY Numbers
    <3> QED BY <2>2, <3>1, <1>4, <1>5, <1>6, TaskStays DEF dbVars
  <2> QED BY <2>1, <2>2
<1> QED BY <1>7, <1>8, <1>9 DEF CataloguesInv

LEMMA GoneKeeps ==
  ASSUME CataloguesInv, NEW p \in Processes, Gone(p), UNCHANGED dbVars,
         faults' \in 0..MaxFaults
  PROVE  CataloguesInv'
<1> DEFINE c == [snapshot |-> Blank, published |-> FALSE]
<1>1. task \in [Tasks -> TaskRecords]  BY TaskTyped
<1>2. /\ task' \in [Tasks -> TaskRecords]
      /\ \A u \in Tasks : task'[u] = task[u] \/ task'[u] = Idle
      /\ task'[p] = Idle
  BY <1>1, IdleRecord DEF Gone, Host, Tasks
<1>3. /\ process' \in [Processes -> {"down", "starting", "up"}]
      /\ \A q \in Processes : q # p => process'[q] = process[q]
      /\ process'[p] = "down"
  BY DEF Gone, CataloguesInv, CataloguesTypeOK
<1>4. /\ catalogue' \in [Processes -> [snapshot : Snapshots, published : BOOLEAN]]
      /\ \A q \in Processes : q # p => catalogue'[q] = catalogue[q]
      /\ catalogue'[p] = c
  <2>1. c \in [snapshot : Snapshots, published : BOOLEAN]  BY BlankTyped
  <2>2. catalogue' = [catalogue EXCEPT ![p] = c]  BY DEF Gone
  <2> QED BY <2>1, <2>2 DEF CataloguesInv, CataloguesTypeOK
<1>5. CataloguesTypeOK'
  BY <1>2, <1>3, <1>4 DEF CataloguesInv, CataloguesTypeOK, TaskRecords, dbVars
<1>6. Catalogues'
  <2>1. Faithful(Blank)'  BY Numbers DEF CataloguesInv, Faithful, Blank, dbVars
  <2> QED BY <1>4, <2>1 DEF CataloguesInv, Catalogues, Faithful, dbVars
<1>7. (committed[0] = Nothing)' /\ Serving'
  BY <1>3, <1>4 DEF CataloguesInv, Serving, Serves, dbVars
<1>8. ASSUME NEW u \in Tasks PROVE TaskKept(u)'
  <2>1. CASE task'[u] = Idle
    <3>1. 0 <= revision'  BY Numbers DEF dbVars
    <3> QED BY <2>1, <3>1, IdleRecord, TaskElsewhere
  <2>2. CASE task'[u] # Idle
    <3>1. task'[u] = task[u] /\ u # p  BY <2>2, <1>2
    <3>2. u \in Processes => /\ catalogue'[u].snapshot.revision \in Nat
                             /\ catalogue'[u].snapshot.revision >= catalogue[u].snapshot.revision
      BY <3>1, <1>4, Numbers
    <3> QED BY <3>1, <3>2, <1>3, TaskStays DEF dbVars
  <2> QED BY <2>1, <2>2
<1> QED BY <1>5, <1>6, <1>7, <1>8 DEF CataloguesInv

LEMMA EndStartKeeps ==
  ASSUME CataloguesInv, NEW p \in Processes, EndStart(p)
  PROVE  CataloguesInv'
<1>0. p \in Tasks /\ Host(p) = p /\ p \notin Requests
      /\ faults \in 0..MaxFaults /\ UNCHANGED dbVars
  BY CataloguesAssumption DEF Tasks, Host, EndStart, CataloguesInv, CataloguesTypeOK
<1>1. CASE Rebuilds(p, TRUE) /\ process' = [process EXCEPT ![p] = "up"] /\ Ends(p)
  <2>1. /\ process' \in [Processes -> {"down", "starting", "up"}]
        /\ \A q \in Processes \ {p} : process'[q] = process[q]
    BY <1>1 DEF CataloguesInv, CataloguesTypeOK
  <2> QED BY <1>0, <1>1, <2>1, RebuildEnds
<1>2. CASE Gone(p) /\ IF Intact(task[p].view) THEN Fault ELSE UNCHANGED faults
  BY <1>0, <1>2, GoneKeeps, FaultTyped
<1> QED BY <1>1, <1>2 DEF EndStart

(* Bytes of packages and the outbox are in no other part of the invariant.    *)
LEMMA PackagesKeep ==
  ASSUME CataloguesInv, NEW package \in Packages, Damage(package) \/ Repair(package)
  PROVE  CataloguesInv'
<1>1. faults' \in 0..MaxFaults
  BY FaultTyped DEF Damage, Repair, CataloguesInv, CataloguesTypeOK
<1>2. damaged' \subseteq Packages  BY DEF Damage, Repair, CataloguesInv, CataloguesTypeOK
<1>3. UNCHANGED <<revision, committed, processed, local, process, catalogue, task>>
  BY DEF Damage, Repair
<1>4. CataloguesTypeOK'  BY <1>1, <1>2, <1>3 DEF CataloguesInv, CataloguesTypeOK
<1> QED BY <1>3, <1>4 DEF CataloguesInv, Catalogues, Serving, Serves, TaskKept, TaskAt, Faithful

------------------------------------------------------------------------------
LEMMA InvInit == CataloguesInit => CataloguesInv
<1> SUFFICES ASSUME CataloguesInit PROVE CataloguesInv  OBVIOUS
<1>1. 0 \in Revisions /\ 0 \in 0..MaxFaults  BY CataloguesAssumption DEF Revisions
<1>2. CataloguesTypeOK
  BY <1>1, BlankTyped, IdleRecord DEF CataloguesInit, CataloguesTypeOK, TaskRecords
<1>3. committed[0] = Nothing  BY <1>1 DEF CataloguesInit
<1>4. Faithful(Blank)  BY <1>3 DEF CataloguesInit, Faithful, Blank
<1>5. Catalogues /\ Serving  BY <1>4 DEF CataloguesInit, Catalogues, Serving
<1>6. \A t \in Tasks : TaskKept(t)
  BY IdleRecord DEF CataloguesInit, TaskKept, TaskAt
<1> QED BY <1>2, <1>3, <1>5, <1>6 DEF CataloguesInv

LEMMA InvStep == CataloguesInv /\ [CataloguesNext]_catalogueVars => CataloguesInv'
<1> SUFFICES ASSUME CataloguesInv, [CataloguesNext]_catalogueVars PROVE CataloguesInv'
  OBVIOUS
<1>0. faults \in 0..MaxFaults  BY DEF CataloguesInv, CataloguesTypeOK
<1>1. ASSUME NEW r \in Requests, NEW s \in Skills, NEW package \in PackagesOf[s],
             Activate(r, s, package)
      PROVE  CataloguesInv'
  BY <1>1, CommitKeeps DEF Activate, Packages
<1>2. ASSUME NEW r \in Requests, NEW s \in Skills, Configure(r, s) \/ Retire(r, s)
      PROVE  CataloguesInv'
  <2>1. Active(s) \in Packages \cup {NoPackage}
    BY DEF Active, CataloguesInv, CataloguesTypeOK, SkillSets
  <2> QED BY <1>2, <2>1, CommitKeeps DEF Configure, Retire
<1>3. ASSUME NEW t \in Tasks, Open(t) \/ BeginRefresh(t) PROVE CataloguesInv'
  BY <1>3, OpenKeeps
<1>4. ASSUME NEW t \in Tasks, Reconcile(t) PROVE CataloguesInv'
  BY <1>4, ReconcileKeeps
<1>5. ASSUME NEW t \in Tasks, Build(t) PROVE CataloguesInv'
  BY <1>5, BuildKeeps
<1>6. ASSUME NEW r \in Requests, EndRun(r) PROVE CataloguesInv'
  BY <1>0, <1>6, EndKeeps DEF EndRun, Tasks
<1>7. ASSUME NEW r \in Requests, EndRefresh(r) PROVE CataloguesInv'
  <2>1. r \in Tasks /\ Host(r) \in Processes  BY HostIsProcess DEF Tasks
  <2>2. PICK usable \in BOOLEAN : Rebuilds(r, usable)  BY <1>7 DEF EndRefresh
  <2>3. Ends(r) /\ UNCHANGED <<dbVars, process>>  BY <1>7 DEF EndRefresh
  <2>4. process' \in [Processes -> {"down", "starting", "up"}]
    BY <2>3 DEF CataloguesInv, CataloguesTypeOK
  <2> QED BY <2>1, <2>2, <2>3, <2>4, RebuildEnds
<1>8. ASSUME NEW p \in Processes, Acknowledge(p) PROVE CataloguesInv'
  BY <1>8, AcknowledgeKeeps
<1>9. ASSUME NEW p \in Processes, Start(p) \/ EndStart(p) PROVE CataloguesInv'
  BY <1>9, StartKeeps, EndStartKeeps
<1>10. ASSUME NEW p \in Processes, Crash(p) PROVE CataloguesInv'
  BY <1>0, <1>10, GoneKeeps, FaultTyped DEF Crash
<1>11. ASSUME NEW t \in Tasks, Abandon(t) PROVE CataloguesInv'
  <2>1. faults' \in 0..MaxFaults  BY <1>0, <1>11, FaultTyped DEF Abandon
  <2> QED BY <1>11, <2>1, EndKeeps DEF Abandon
<1>12. ASSUME NEW package \in Packages, Damage(package) \/ Repair(package) PROVE CataloguesInv'
  BY <1>12, PackagesKeep
<1>13. ASSUME UNCHANGED catalogueVars PROVE CataloguesInv'
  BY <1>13 DEF catalogueVars, dbVars, CataloguesInv, CataloguesTypeOK, Catalogues, Serving,
               Serves, TaskKept, TaskAt, Faithful
<1> QED
  BY <1>1, <1>2, <1>3, <1>4, <1>5, <1>6, <1>7, <1>8, <1>9, <1>10, <1>11, <1>12, <1>13
  DEF CataloguesNext, Managing, RequestStep, LoopStep, Tasks

(* What every process holds, and every task goes by, is what the database held *)
(* at the revision it names, from the first start on.                          *)
THEOREM CataloguesHold == CataloguesSpec => []CataloguesInv
BY InvInit, InvStep, PTL DEF CataloguesSpec

(* Every healthy catalogue holds the Skills of exactly one committed revision, *)
(* and no run uses one that is older than its request, however refreshes,      *)
(* reconciliation and crashes of any number of processes interleave.          *)
THEOREM RunsUseOneRevisionHolds == CataloguesSpec => []RunsUseOneRevision
<1>1. CataloguesInv => RunsUseOneRevision
  BY DEF CataloguesInv, Catalogues, TaskKept, Faithful, RunsUseOneRevision, Tasks
<1> QED BY <1>1, CataloguesHold, PTL

(* Only what some process serves is ever acknowledged.                        *)
THEOREM AcknowledgedIsServedHolds == CataloguesSpec => AcknowledgedIsServed
<1> DEFINE served == \A e \in processed' \ processed : \E p \in Processes :
                       /\ process[p] = "up" /\ ~catalogue[p].snapshot.degraded
                       /\ catalogue[p].snapshot.revision >= e
<1>1. CataloguesInv /\ [CataloguesNext]_catalogueVars => served \/ UNCHANGED catalogueVars
  <2> SUFFICES ASSUME CataloguesInv, CataloguesNext, NEW e \in processed' \ processed
               PROVE  \E p \in Processes :
                        /\ process[p] = "up" /\ ~catalogue[p].snapshot.degraded
                        /\ catalogue[p].snapshot.revision >= e
    OBVIOUS
  <2>1. PICK p \in Processes : Acknowledge(p)
    <3>1. processed' # processed  OBVIOUS
    <3> QED BY <3>1
         DEF CataloguesNext, Managing, Activate, Configure, Retire, Commits, RequestStep, LoopStep,
             Open, Reconcile, Build, EndRun, BeginRefresh, EndRefresh, EndStart, Start, Crash,
             Abandon, Damage, Repair, dbVars
  <2>2. p \in Tasks /\ TaskAt(p, "acknowledging") /\ e \in 1..task[p].view
    BY <2>1 DEF Acknowledge, Tasks
  <2>3. /\ process[p] = "up" /\ catalogue[p].snapshot.revision >= task[p].view
        /\ ~catalogue[p].snapshot.degraded
    BY <2>2 DEF CataloguesInv, TaskKept, Serving, Serves
  <2>4. task[p].view \in Nat /\ catalogue[p].snapshot.revision \in Nat  BY <2>2, Numbers
  <2> QED BY <2>2, <2>3, <2>4
<1> QED BY <1>1, CataloguesHold, PTL DEF CataloguesSpec, AcknowledgedIsServed

(* What a step makes of a process that serves before and after it: only a    *)
(* rebuild touches its catalogue, and only the loss of the process undoes it. *)
LEMMA ServingGoesOn ==
  ASSUME CataloguesInv, [CataloguesNext]_catalogueVars, NEW p \in Processes,
         process[p] = "up", process'[p] = "up"
  PROVE  /\ catalogue'[p].snapshot.revision >= catalogue[p].snapshot.revision
         /\ ~catalogue'[p].snapshot.degraded
<1>1. Serves(p) /\ catalogue[p].snapshot.revision \in Nat
  BY Numbers DEF CataloguesInv, Serving
<1>2. CASE catalogue'[p] = catalogue[p]  BY <1>1, <1>2 DEF Serves
<1>3. ASSUME NEW t \in Tasks, NEW usable \in BOOLEAN, Rebuilds(t, usable)
      PROVE  /\ catalogue'[p].snapshot.revision >= catalogue[p].snapshot.revision
             /\ ~catalogue'[p].snapshot.degraded
  BY <1>1, <1>3, RebuildKeeps
<1>4. ASSUME NEW q \in Processes, Gone(q) PROVE catalogue'[p] = catalogue[p]
  <2>1. q # p  BY <1>4 DEF Gone, CataloguesInv, CataloguesTypeOK
  <2> QED BY <1>4, <2>1 DEF Gone, CataloguesInv, CataloguesTypeOK
<1>5. ASSUME NEW t \in Tasks, Build(t) PROVE \E usable \in BOOLEAN : Rebuilds(t, usable)
  BY <1>5 DEF Build
<1>6. ASSUME NEW r \in Requests, EndRefresh(r) PROVE \E usable \in BOOLEAN : Rebuilds(r, usable)
  BY <1>6 DEF EndRefresh
<1>7. ASSUME NEW q \in Processes, EndStart(q) PROVE Rebuilds(q, TRUE) \/ Gone(q)
  BY <1>7 DEF EndStart
<1>8. \/ catalogue' = catalogue
      \/ \E t \in Tasks : Build(t)
      \/ \E r \in Requests : EndRefresh(r)
      \/ \E q \in Processes : EndStart(q) \/ Gone(q)
  BY DEF CataloguesNext, catalogueVars, Managing, Activate, Configure, Retire, Manages,
         RequestStep, LoopStep, Open, Reconcile, EndRun, BeginRefresh, Acknowledge, Start,
         Crash, Abandon, Damage, Repair, Tasks
<1> QED BY <1>2, <1>3, <1>4, <1>5, <1>6, <1>7, <1>8 DEF Tasks

LEMMA ProcessedStays == [CataloguesNext]_catalogueVars => processed \subseteq processed'
BY DEF CataloguesNext, catalogueVars, Managing, Activate, Configure, Retire, Commits,
       RequestStep, LoopStep, Open, Reconcile, Build, EndRun, BeginRefresh, EndRefresh,
       Acknowledge, EndStart, Start, Crash, Abandon, Damage, Repair, dbVars

(* A process that serves and goes on serving never goes back to an older or a *)
(* degraded catalogue, in whatever order rebuilds end (publish).              *)
THEOREM ServedGrowsHolds == CataloguesSpec => ServedGrows
<1>1. CataloguesInv /\ [CataloguesNext]_catalogueVars =>
        [/\ processed \subseteq processed'
         /\ \A p \in Processes : process[p] = "up" /\ process'[p] = "up" =>
              /\ catalogue'[p].snapshot.revision >= catalogue[p].snapshot.revision
              /\ ~catalogue'[p].snapshot.degraded]_catalogueVars
  BY ServingGoesOn, ProcessedStays
<1> QED BY <1>1, CataloguesHold, PTL DEF CataloguesSpec, ServedGrows

==============================================================================
