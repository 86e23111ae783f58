---------------------------- MODULE SkillCatalogues ----------------------------
(***************************************************************************)
(* The catalogues of Skills that several processes keep of one database:   *)
(* the registry's revision and its outbox, written with every management   *)
(* operation; the rebuild of a catalogue from the rows of one revision     *)
(* (skills/service.py), what the registry of a process accepts             *)
(* (skills/registry.py), and who asks for a rebuild: the process when it   *)
(* starts, its reconciliation loop (main.py), a request that prepares a    *)
(* run, and a management request after its commit.                         *)
(*                                                                         *)
(* _bump_registry locks the registry's row until the commit, so revisions  *)
(* are committed in order, each with its changes.  All SELECTs of a        *)
(* transaction read the snapshot its first one took: a transaction's view  *)
(* is a revision.  The work of a process is done by tasks of one event     *)
(* loop: each step here ends where its task waits.                         *)
(*                                                                         *)
(* Of a Skill only its package and the revision of its last change are     *)
(* kept; who may use it is SkillAuthority's.  Changes that raise no        *)
(* registry revision (a draft, a decision on a bare grant) are there too.  *)
(***************************************************************************)
EXTENDS Naturals

CONSTANTS
  Processes,
  Requests,     \* what a process serves concurrently, besides its own loop
  HostOf,       \* the process of each request
  Skills,
  PackagesOf,   \* the packages that may become a Skill's active version
  LastRevision, \* bound: management operations
  MaxFaults,    \* bound: crashes, packages damaged and rebuilds that fail
  NoPackage

Tasks == Processes \cup Requests
Packages == UNION {PackagesOf[s] : s \in Skills}

ASSUME CataloguesAssumption ==
  /\ Processes \cap Requests = {}
  /\ HostOf \in [Requests -> Processes]
  /\ NoPackage \notin Packages
  /\ LastRevision \in Nat /\ MaxFaults \in Nat

VARIABLES
  revision,    \* skill_registry_state.revision
  committed,   \* the Skills as each revision left them
  processed,   \* the events of the outbox with processed_at, by their revision
  damaged,     \* packages whose stored bytes fail their check
  local,       \* E4 is off: requests refresh their process after the commit
  process,     \* whether a process serves
  catalogue,   \* the snapshot its registry holds
  task,        \* what the loop of a process, or a request, is doing
  faults       \* faults so far

dbVars == <<revision, committed, processed, damaged, local>>
catalogueVars == <<dbVars, process, catalogue, task, faults>>

Revisions == 0..LastRevision

\* NoPackage: not published yet, or, once changed, archived.
Unpublished == [package |-> NoPackage, since |-> 0]
SkillSets   == [Skills -> [package : Packages \cup {NoPackage}, since : Revisions]]
Nothing     == [s \in Skills |-> Unpublished]

Snapshots == [revision : Revisions, skills : SkillSets, degraded : BOOLEAN]
Blank     == [revision |-> 0, skills |-> Nothing, degraded |-> FALSE]
Idle      == [pc |-> "idle", view |-> 0, used |-> Blank]

CataloguesTypeOK ==
  /\ revision \in Revisions
  /\ committed \in [Revisions -> SkillSets]
  /\ processed \subseteq 1..revision
  /\ damaged \subseteq Packages
  /\ local \in BOOLEAN
  /\ process \in [Processes -> {"down", "starting", "up"}]
  /\ catalogue \in [Processes -> [snapshot : Snapshots, published : BOOLEAN]]
  /\ task \in [Tasks -> [pc : {"idle", "open", "building", "committed", "refreshing",
                               "running", "acknowledging"},
                         view : Revisions, used : Snapshots]]
  /\ faults \in 0..MaxFaults

CataloguesInit ==
  /\ revision = 0
  /\ committed = [r \in Revisions |-> Nothing]
  /\ processed = {}
  /\ damaged = {}
  /\ local \in BOOLEAN
  /\ process = [p \in Processes |-> "down"]
  /\ catalogue = [p \in Processes |-> [snapshot |-> Blank, published |-> FALSE]]
  /\ task = [t \in Tasks |-> Idle]
  /\ faults = 0
--------------------------------------------------------------------------------
TaskAt(t, pc)   == task[t].pc = pc
TaskGoes(t, pc) == task' = [task EXCEPT ![t].pc = pc]
Ends(t)     == task' = [task EXCEPT ![t] = Idle]

Host(t) == IF t \in Processes THEN t ELSE HostOf[t]
Held(t) == catalogue[Host(t)].snapshot

Fault == faults < MaxFaults /\ faults' = faults + 1
--------------------------------------------------------------------------------
(* Management requests                                                        *)

\* The operation's transaction: rows, the next revision and its event.
Commits(s, package) ==
  /\ revision < LastRevision
  /\ revision' = revision + 1
  /\ committed' = [committed EXCEPT ![revision + 1] =
       [committed[revision] EXCEPT ![s] = [package |-> package, since |-> revision + 1]]]
  /\ UNCHANGED <<processed, damaged, local>>

\* The callback is registered unless the session has business authority.
Manages(r) ==
  /\ process[HostOf[r]] = "up" /\ TaskAt(r, "idle")
  /\ IF local THEN TaskGoes(r, "committed") ELSE UNCHANGED task
  /\ UNCHANGED <<process, catalogue, faults>>

Active(s)    == committed[revision][s].package
Available(s) == Active(s) # NoPackage \/ committed[revision][s].since = 0

\* An import, a draft or an older version becomes the active one, once its
\* stored bytes have been read again (_verify_version_storage).
Activate(r, s, package) ==
  /\ Available(s) /\ package \notin damaged
  /\ Commits(s, package)
  /\ Manages(r)

\* Settings, or the grant of the Skill, change.
Configure(r, s) ==
  /\ Active(s) # NoPackage
  /\ Commits(s, Active(s))
  /\ Manages(r)

Retire(r, s) ==
  /\ Active(s) # NoPackage
  /\ Commits(s, NoPackage)
  /\ Manages(r)
--------------------------------------------------------------------------------
(* Rebuilding a catalogue                                                     *)

(* Fault: the rows are read in a later snapshot than the revision.            *)
BuiltFromLatest(t) ==
  [revision |-> task[t].view, skills |-> committed[revision], degraded |-> FALSE]

\* refresh_registry: revision and rows of one view.
Built(t) ==
  [revision |-> task[t].view, skills |-> committed[task[t].view], degraded |-> FALSE]

\* One package that fails its check leaves nothing in the catalogue.
Degraded(t) == [revision |-> task[t].view, skills |-> Nothing, degraded |-> TRUE]

Intact(r) == \A s \in Skills : committed[r][s].package \notin damaged

(* Fault: the last rebuild to end is the one that stays.                      *)
AcceptsTheLast(p, snapshot) == TRUE

\* StandardSkillRegistry.publish: no older revision, and nothing degraded over
\* a healthy catalogue, unless that is the one the process was made with.
Accepts(p, snapshot) ==
  LET held == catalogue[p].snapshot
  IN  /\ snapshot.revision >= held.revision
      /\ snapshot.degraded /\ ~held.degraded =>
           ~catalogue[p].published /\ snapshot.revision > held.revision

Published(p, snapshot) ==
  IF Accepts(p, snapshot)
  THEN [catalogue EXCEPT ![p] = [snapshot |-> snapshot, published |-> TRUE]]
  ELSE catalogue

\* The rebuild gives its caller a usable catalogue, or raises: a package is
\* damaged, another error meets a Skill, or the registry refuses.
Rebuilds(t, usable) ==
  LET p == Host(t)
  IN  \/ /\ Intact(task[t].view)
         /\ catalogue' = Published(p, Built(t))
         /\ usable = Accepts(p, Built(t))
         /\ UNCHANGED faults
      \/ /\ IF Intact(task[t].view) THEN Fault ELSE UNCHANGED faults
         /\ catalogue' = Published(p, Degraded(t))
         /\ ~usable
--------------------------------------------------------------------------------
(* Who asks for it                                                            *)

\* The transaction's first SELECT: of a request, or of the loop.
Open(t) ==
  /\ process[Host(t)] = "up" /\ TaskAt(t, "idle")
  /\ task' = [task EXCEPT ![t].pc = "open", ![t].view = revision]
  /\ UNCHANGED <<dbVars, process, catalogue, faults>>

(* Fault: the catalogue is renewed only if it is degraded.                    *)
Healthy(t) == ~Held(t).degraded

UpToDate(t) == Held(t).revision = task[t].view /\ ~Held(t).degraded

\* With a usable catalogue of the view's revision a run is prepared, and the
\* loop goes on to the outbox.
Proceeds(t, snapshot) ==
  task' = [task EXCEPT ![t].pc = IF t \in Requests THEN "running" ELSE "acknowledging",
                       ![t].used = IF t \in Requests THEN snapshot ELSE Blank]

\* reconcile_registry
Reconcile(t) ==
  /\ process[Host(t)] = "up" /\ TaskAt(t, "open")
  /\ IF UpToDate(t) THEN Proceeds(t, Held(t)) ELSE TaskGoes(t, "building")
  /\ UNCHANGED <<dbVars, process, catalogue, faults>>

\* Without one a request is answered with 503; the loop tries again.
Build(t) ==
  /\ process[Host(t)] = "up" /\ TaskAt(t, "building")
  /\ \E usable \in BOOLEAN :
       /\ Rebuilds(t, usable)
       /\ IF usable THEN Proceeds(t, Built(t)) ELSE Ends(t)
  /\ UNCHANGED <<dbVars, process>>

EndRun(r) ==
  /\ TaskAt(r, "running")
  /\ Ends(r)
  /\ UNCHANGED <<dbVars, process, catalogue, faults>>

\* consume_registry_events acknowledges for every process.
Acknowledge(p) ==
  /\ TaskAt(p, "acknowledging")
  /\ processed' = processed \cup 1..task[p].view
  /\ Ends(p)
  /\ UNCHANGED <<revision, committed, damaged, local, process, catalogue, faults>>

\* The callback begins a transaction of its own, and tells nobody how it ends.
BeginRefresh(r) ==
  /\ TaskAt(r, "committed")
  /\ task' = [task EXCEPT ![r].pc = "refreshing", ![r].view = revision]
  /\ UNCHANGED <<dbVars, process, catalogue, faults>>

EndRefresh(r) ==
  /\ TaskAt(r, "refreshing")
  /\ \E usable \in BOOLEAN : Rebuilds(r, usable)
  /\ Ends(r)
  /\ UNCHANGED <<dbVars, process>>
--------------------------------------------------------------------------------
(* Processes and packages                                                     *)

\* lifespan: a rebuild, whatever the registry holds, before anything is served.
Start(p) ==
  /\ process[p] = "down"
  /\ process' = [process EXCEPT ![p] = "starting"]
  /\ task' = [task EXCEPT ![p].pc = "building", ![p].view = revision]
  /\ UNCHANGED <<dbVars, catalogue, faults>>

Gone(p) ==
  /\ process' = [process EXCEPT ![p] = "down"]
  /\ catalogue' = [catalogue EXCEPT ![p] = [snapshot |-> Blank, published |-> FALSE]]
  /\ task' = [t \in Tasks |-> IF Host(t) = p THEN Idle ELSE task[t]]

\* A process that cannot build its first catalogue ends.
EndStart(p) ==
  /\ process[p] = "starting"
  /\ \/ /\ Rebuilds(p, TRUE)
        /\ process' = [process EXCEPT ![p] = "up"]
        /\ Ends(p)
     \/ /\ IF Intact(task[p].view) THEN Fault ELSE UNCHANGED faults
        /\ Gone(p)
  /\ UNCHANGED dbVars

Crash(p) ==
  /\ process[p] # "down"
  /\ Fault
  /\ Gone(p)
  /\ UNCHANGED dbVars

\* A session is lost, or a request cancelled, on its way.
Abandon(t) ==
  /\ process[Host(t)] = "up" /\ ~TaskAt(t, "idle")
  /\ IF t \in Requests THEN UNCHANGED faults ELSE Fault
  /\ Ends(t)
  /\ UNCHANGED <<dbVars, process, catalogue>>

Damage(package) ==
  /\ package \notin damaged
  /\ Fault
  /\ damaged' = damaged \cup {package}
  /\ UNCHANGED <<revision, committed, processed, local, process, catalogue, task>>

\* An operator restores the row.
Repair(package) ==
  /\ package \in damaged
  /\ damaged' = damaged \ {package}
  /\ UNCHANGED <<revision, committed, processed, local, process, catalogue, task, faults>>
--------------------------------------------------------------------------------
Managing ==
  \E r \in Requests, s \in Skills :
    \/ \E package \in PackagesOf[s] : Activate(r, s, package)
    \/ Configure(r, s) \/ Retire(r, s)

RequestStep(r) ==
  Open(r) \/ Reconcile(r) \/ Build(r) \/ EndRun(r) \/ BeginRefresh(r) \/ EndRefresh(r)

\* consume_registry_events in a loop that no error ends; or the start before it.
LoopStep(p) == Open(p) \/ Reconcile(p) \/ Build(p) \/ Acknowledge(p) \/ EndStart(p)

CataloguesNext ==
  \/ Managing
  \/ \E r \in Requests : RequestStep(r)
  \/ \E p \in Processes : LoopStep(p) \/ Start(p) \/ Crash(p)
  \/ \E t \in Tasks : Abandon(t)
  \/ \E package \in Packages : Damage(package) \/ Repair(package)

CataloguesSpec ==
  /\ CataloguesInit /\ [][CataloguesNext]_catalogueVars
  /\ \A p \in Processes : WF_catalogueVars(LoopStep(p))
--------------------------------------------------------------------------------
\* A healthy catalogue holds the Skills of exactly one committed revision, and a
\* run uses such a catalogue, no older than the changes committed when its
\* request began: an instance that lags refuses new runs instead of mixing
\* versions (standard_skill_integration_requirements.md:392).
RunsUseOneRevision ==
  /\ \A p \in Processes :
       LET held == catalogue[p].snapshot
       IN  ~held.degraded => held.skills = committed[held.revision]
  /\ \A r \in Requests : TaskAt(r, "running") =>
       LET used == task[r].used
       IN  /\ ~used.degraded /\ used.revision >= task[r].view
           /\ used.skills = committed[used.revision]

\* An event of the outbox is acknowledged only while a process serves a healthy
\* catalogue that contains its change: neither a damaged package nor a rebuild
\* that ends late loses one (skill-precutover-rework-matrix-2026-08-26.md:11).
AcknowledgedIsServed ==
  [][\A e \in processed' \ processed : \E p \in Processes :
       /\ process[p] = "up" /\ ~catalogue[p].snapshot.degraded
       /\ catalogue[p].snapshot.revision >= e]_catalogueVars

\* Once the packages in use stay intact, every process that serves comes to the
\* database's revision and stays there, and the outbox is drained, although the
\* first process to see an event acknowledges it for all of them.
Converges ==
  <>[]Intact(revision) =>
    <>[](\A p \in Processes : process[p] = "up" =>
           /\ Held(p).revision = revision /\ ~Held(p).degraded
           /\ processed = 1..revision)

\* A process that serves and goes on serving is never taken back: its catalogue
\* stays healthy and reaches only later revisions, whatever rebuilds end in which
\* order.  What the outbox counts as processed stays processed.
ServedGrows ==
  [][/\ processed \subseteq processed'
     /\ \A p \in Processes : process[p] = "up" /\ process'[p] = "up" =>
          /\ catalogue'[p].snapshot.revision >= catalogue[p].snapshot.revision
          /\ ~catalogue'[p].snapshot.degraded]_catalogueVars
================================================================================
