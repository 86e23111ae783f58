---------------------------- MODULE RagProjection ----------------------------
(***************************************************************************)
(* The retrieval projection of one user: the row of rag_user_states that   *)
(* gates source writes and readers, the generations and artifacts of each  *)
(* index kind, their Chroma collections, and everything that moves them:   *)
(* the rebuild of E5ProjectionService, its failure path, the reconciler,   *)
(* the cleanup, source writes, rebuild requests and readers.               *)
(*                                                                         *)
(* Users share nothing: every transaction below first locks the user's row *)
(* (lock_owner), so it is one step.  What is not under that lock is a step *)
(* of its own: reading sources, worker threads that write to Chroma and    *)
(* outlive the coroutine that started them, the job's lease, readers.      *)
(*                                                                         *)
(* Jobs do what JobLifecycle promises (JobQueue implements it); `lapsed`   *)
(* is added because the code also looks at the lease time.                 *)
(***************************************************************************)
EXTENDS Naturals, FiniteSets, Sequences

CONSTANTS
  Jobs,         \* job rows of this user's rebuilds
  None,         \* SQL NULL
  MaxAttempts,  \* JobRuntimeConfig.max_attempts
  MaxSource,    \* bound on the source versions
  IndexKinds,   \* the kinds of index, in build order: <<"knowledge", "notes">>
  Readers       \* concurrent retrievals

ASSUME ProjectionAssumption ==
  /\ None \notin Jobs \cup (Jobs \X (1..MaxAttempts))
  /\ MaxAttempts \in Nat \ {0}
  /\ MaxSource \in Nat \ {0}
  /\ IndexKinds \in Seq(STRING)

VARIABLES
  phase, epoch, lapsed,  \* the jobs: lifecycle phase, fencing token, lease run out
  source,                \* version of what a build depends on: sources, index and embedding config
  state,                 \* rag_user_states
  head,                  \* rag_generation_heads.active_generation_id, by kind
  gen,                   \* rag_generations and rag_artifacts, by attempt and kind
  manifest,              \* the source version of an attempt's artifacts
  worker,                \* the rebuild coroutine of each attempt
  thread,                \* the to_thread call that builds a collection
  chroma,                \* the collections that exist
  tombs,                 \* the .retired files
  reader                 \* query_user calls

jobVars == <<phase, epoch, lapsed>>
sqlVars == <<source, state, head, gen, manifest>>
buildVars == <<worker, thread, chroma, tombs>>
vars == <<phase, epoch, lapsed, source, state, head, gen, manifest, worker, thread, chroma, tombs, reader>>

Kinds      == DOMAIN IndexKinds
Attempts   == Jobs \X (1..MaxAttempts)
Verdicts   == {"succeeded", "cancelled", "dead_letter"}

NoGeneration == [status |-> "none", cleanup |-> "none"]
NoThread     == [kind |-> 0, pc |-> "none"]
NoWorker     == [pc |-> "none", revision |-> 0, source |-> 0, built |-> 0]
Gone         == [NoWorker EXCEPT !.pc = "gone"]
NoReader     == [pc |-> "idle", revision |-> 0, source |-> 0,
                 head |-> [k \in Kinds |-> None], seen |-> {}]
Answered     == [NoReader EXCEPT !.pc = "answered"]

Generations == [status : {"none", "building", "ready", "failed", "retired"},
                cleanup : {"none", "building", "pending", "retained", "deleted"}]
UserStates  == [status : {"building", "ready", "failed"}, job : Jobs \cup {None},
                revision : Nat, source : 0..MaxSource]
Workers     == [pc : {"none", "claimed", "begun", "sourced", "building", "waiting", "gone"},
                revision : Nat, source : 0..MaxSource, built : 0..Len(IndexKinds)]
Threads     == [kind : 0..Len(IndexKinds), pc : {"none", "queued", "writing"}]
Queries     == [pc : {"idle", "reading", "answered"}, revision : Nat, source : 0..MaxSource,
                head : [Kinds -> Attempts \cup {None}], seen : SUBSET Kinds]

TypeOK ==
  /\ phase \in [Jobs -> {"absent", "idle", "held", "revoked"} \cup Verdicts]
  /\ epoch \in [Jobs -> 0..MaxAttempts]
  /\ lapsed \in [Jobs -> BOOLEAN]
  /\ source \in 1..MaxSource
  /\ state \in UserStates
  /\ head \in [Kinds -> Attempts \cup {None}]
  /\ gen \in [Attempts -> [Kinds -> Generations]]
  /\ manifest \in [Attempts -> 0..MaxSource]
  /\ worker \in [Attempts -> Workers]
  /\ thread \in [Attempts -> Threads]
  /\ chroma \subseteq Attempts \X Kinds
  /\ tombs \subseteq Attempts \X Kinds
  /\ reader \in [Readers -> Queries]

Init ==
  /\ phase = [j \in Jobs |-> "absent"]
  /\ epoch = [j \in Jobs |-> 0]
  /\ lapsed = [j \in Jobs |-> FALSE]
  /\ source = 1
  /\ state = [status |-> "failed", job |-> None, revision |-> 1, source |-> 0]
  /\ head = [k \in Kinds |-> None]
  /\ gen = [a \in Attempts |-> [k \in Kinds |-> NoGeneration]]
  /\ manifest = [a \in Attempts |-> 0]
  /\ worker = [a \in Attempts |-> NoWorker]
  /\ thread = [a \in Attempts |-> NoThread]
  /\ chroma = {}
  /\ tombs = {}
  /\ reader = [r \in Readers |-> NoReader]

-----------------------------------------------------------------------------
(* Jobs.                                                                    *)

(* enqueue, with a fresh idempotency key. *)
Submitted(new) == phase' = [j \in Jobs |-> IF j \in new THEN "idle" ELSE phase[j]]

(* claim_one and start: the handler of the new attempt begins. *)
Claim(j) ==
  /\ phase[j] = "idle" /\ epoch[j] < MaxAttempts
  /\ phase' = [phase EXCEPT ![j] = "held"]
  /\ epoch' = [epoch EXCEPT ![j] = @ + 1]
  /\ lapsed' = [lapsed EXCEPT ![j] = FALSE]
  /\ worker' = [worker EXCEPT ![<<j, epoch[j] + 1>>] = [NoWorker EXCEPT !.pc = "claimed"]]
  /\ UNCHANGED <<sqlVars, thread, chroma, tombs, reader>>

Lapse(j) ==
  /\ phase[j] \in {"held", "revoked"} /\ ~lapsed[j]
  /\ lapsed' = [lapsed EXCEPT ![j] = TRUE]
  /\ UNCHANGED <<phase, epoch, sqlVars, buildVars, reader>>

(* fail() or recover_expired: the job waits for its next attempt, if it has   *)
(* one left and the failure was not permanent, or ends.  The worker may not   *)
(* know (an orphaned handler, a lost lease).                                 *)
EndAttempt(j) ==
  /\ \/ /\ phase[j] = "held"
        /\ \/ epoch[j] < MaxAttempts /\ phase' = [phase EXCEPT ![j] = "idle"]
           \/ phase' = [phase EXCEPT ![j] = "dead_letter"]
     \/ phase[j] = "revoked" /\ phase' = [phase EXCEPT ![j] = "cancelled"]
  /\ lapsed' = [lapsed EXCEPT ![j] = FALSE]
  /\ UNCHANGED <<epoch, sqlVars, buildVars, reader>>

Cancel(j) ==
  /\ phase[j] \in {"idle", "held"}
  /\ phase' = [phase EXCEPT ![j] = IF @ = "idle" THEN "cancelled" ELSE "revoked"]
  /\ UNCHANGED <<epoch, lapsed, sqlVars, buildVars, reader>>

(* Fault: the status of the job is not looked at. *)
CurrentByToken(a) == epoch[a[1]] = a[2] /\ ~lapsed[a[1]]

(* current_job *)
Current(a) == phase[a[1]] = "held" /\ epoch[a[1]] = a[2] /\ ~lapsed[a[1]]

-----------------------------------------------------------------------------
(* Requests.                                                                *)

(* Fault: the gate closes, but the state does not name the job. *)
WriteWithoutJob(first, others) ==
  /\ state.status # "building"
  /\ source < MaxSource
  /\ \A j \in {first} \cup others : phase[j] = "absent"
  /\ Submitted({first} \cup others)
  /\ source' = source + 1
  /\ state' = [state EXCEPT !.status = "building", !.job = None, !.revision = @ + 1]
  /\ UNCHANGED <<epoch, lapsed, head, gen, manifest, buildVars, reader>>

(* A transaction writes notes or knowledge documents (or the embedding        *)
(* config): refused while a rebuild is under way, else the gate closes and    *)
(* every changed row brings a job, the first of which the state names.        *)
Write(first, others) ==
  /\ state.status # "building"
  /\ source < MaxSource
  /\ \A j \in {first} \cup others : phase[j] = "absent"
  /\ Submitted({first} \cup others)
  /\ source' = source + 1
  /\ state' = [state EXCEPT !.status = "building", !.job = first, !.revision = @ + 1]
  /\ UNCHANGED <<epoch, lapsed, head, gen, manifest, buildVars, reader>>

(* queue_locked: an unfinished job serves this request too. *)
Unfinished == state.job # None /\ phase[state.job] \notin Verdicts

Queue(fresh) ==
  \/ /\ Unfinished
     /\ state' = [state EXCEPT !.status = "building"]
     /\ UNCHANGED phase
  \/ /\ ~Unfinished
     /\ phase[fresh] = "absent"
     /\ Submitted({fresh})
     /\ state' = [state EXCEPT !.status = "building", !.job = fresh, !.revision = @ + 1]

RequestRebuild(fresh) ==
  /\ Queue(fresh)
  /\ UNCHANGED <<epoch, lapsed, source, head, gen, manifest, buildVars, reader>>

SaveIndex(fresh) ==
  /\ state.status # "building"
  /\ source < MaxSource
  /\ source' = source + 1
  /\ Queue(fresh)
  /\ UNCHANGED <<epoch, lapsed, head, gen, manifest, buildVars, reader>>

-----------------------------------------------------------------------------
(* rebuild().                                                               *)

(* First transaction: the gate closes under this job. *)
Begin(a) ==
  /\ worker[a].pc = "claimed" /\ Current(a)
  /\ state' = [state EXCEPT !.status = "building", !.job = a[1], !.revision = @ + 1]
  /\ worker' = [worker EXCEPT ![a].pc = "begun", ![a].revision = state.revision + 1]
  /\ UNCHANGED <<jobVars, source, head, gen, manifest, thread, chroma, tombs, reader>>

ReadSources(a) ==
  /\ worker[a].pc = "begun"
  /\ worker' = [worker EXCEPT ![a].pc = "sourced", ![a].source = source]
  /\ UNCHANGED <<jobVars, sqlVars, thread, chroma, tombs, reader>>

CheckState(a) ==
  /\ state.status = "building"
  /\ state.job = a[1]
  /\ state.revision = worker[a].revision

(* Second transaction: the locators are durable before any external write. *)
Prepare(a) ==
  /\ worker[a].pc = "sourced" /\ Current(a) /\ CheckState(a)
  /\ state' = [state EXCEPT !.source = worker[a].source]
  /\ gen' = [gen EXCEPT ![a] = [k \in Kinds |-> [status |-> "building", cleanup |-> "building"]]]
  /\ manifest' = [manifest EXCEPT ![a] = worker[a].source]
  /\ worker' = [worker EXCEPT ![a].pc = "building"]
  /\ UNCHANGED <<jobVars, source, head, thread, chroma, tombs, reader>>

(* One kind after the other; the cancellation probe does not look at the lease. *)
StartBuild(a) ==
  /\ worker[a].pc = "building" /\ worker[a].built < Len(IndexKinds)
  /\ phase[a[1]] = "held" /\ epoch[a[1]] = a[2]
  /\ thread' = [thread EXCEPT ![a] = [kind |-> worker[a].built + 1, pc |-> "queued"]]
  /\ worker' = [worker EXCEPT ![a].pc = "waiting"]
  /\ UNCHANGED <<jobVars, sqlVars, chroma, tombs, reader>>

(* Faults: the replaced generation is not retired; it is retired but not    *)
(* handed to the cleanup.                                                    *)
PublishKeepsPrevious(a) ==
  /\ worker[a].pc = "building" /\ worker[a].built = Len(IndexKinds)
  /\ Current(a) /\ CheckState(a)
  /\ source = worker[a].source
  /\ \A k \in Kinds : gen[a][k].status = "building"
  /\ gen' = [b \in Attempts |-> [k \in Kinds |->
       IF b = a THEN [status |-> "ready", cleanup |-> "retained"]
       ELSE gen[b][k]]]
  /\ head' = [k \in Kinds |-> a]
  /\ state' = [state EXCEPT !.status = "ready", !.job = None]
  /\ phase' = [phase EXCEPT ![a[1]] = "succeeded"]
  /\ worker' = [worker EXCEPT ![a] = Gone]
  /\ UNCHANGED <<epoch, lapsed, source, manifest, thread, chroma, tombs, reader>>

PublishForgetsPrevious(a) ==
  /\ worker[a].pc = "building" /\ worker[a].built = Len(IndexKinds)
  /\ Current(a) /\ CheckState(a)
  /\ source = worker[a].source
  /\ \A k \in Kinds : gen[a][k].status = "building"
  /\ gen' = [b \in Attempts |-> [k \in Kinds |->
       IF b = a THEN [status |-> "ready", cleanup |-> "retained"]
       ELSE IF b = head[k] THEN [status |-> "retired", cleanup |-> "retained"]
       ELSE gen[b][k]]]
  /\ head' = [k \in Kinds |-> a]
  /\ state' = [state EXCEPT !.status = "ready", !.job = None]
  /\ phase' = [phase EXCEPT ![a[1]] = "succeeded"]
  /\ worker' = [worker EXCEPT ![a] = Gone]
  /\ UNCHANGED <<epoch, lapsed, source, manifest, thread, chroma, tombs, reader>>

(* Third transaction: both heads, the state and the job's result at once. *)
Publish(a) ==
  /\ worker[a].pc = "building" /\ worker[a].built = Len(IndexKinds)
  /\ Current(a) /\ CheckState(a)
  /\ source = worker[a].source
  /\ \A k \in Kinds : gen[a][k].status = "building"
  /\ gen' = [b \in Attempts |-> [k \in Kinds |->
       IF b = a THEN [status |-> "ready", cleanup |-> "retained"]
       ELSE IF b = head[k] THEN [status |-> "retired", cleanup |-> "pending"]
       ELSE gen[b][k]]]
  /\ head' = [k \in Kinds |-> a]
  /\ state' = [state EXCEPT !.status = "ready", !.job = None]
  /\ phase' = [phase EXCEPT ![a[1]] = "succeeded"]
  /\ worker' = [worker EXCEPT ![a] = Gone]
  /\ UNCHANGED <<epoch, lapsed, source, manifest, thread, chroma, tombs, reader>>

(* Fault: an attempt that lost its claim still reports. *)
FailAttemptUnfenced(a) ==
  /\ worker[a].pc \in {"begun", "sourced", "building", "waiting"}
  /\ state' = IF state.job = a[1] /\ state.revision = worker[a].revision
              THEN [state EXCEPT !.status = "failed"] ELSE state
  /\ gen' = [gen EXCEPT ![a] = [k \in Kinds |->
       IF @[k].status = "building" THEN [status |-> "failed", cleanup |-> "pending"] ELSE @[k]]]
  /\ worker' = [worker EXCEPT ![a] = Gone]
  /\ UNCHANGED <<jobVars, source, head, manifest, thread, chroma, tombs, reader>>

(* _fail: only the current attempt may open the gate again as failed. *)
FailAttempt(a) ==
  /\ worker[a].pc \in {"begun", "sourced", "building", "waiting"}
  /\ Current(a)
  /\ state' = IF state.job = a[1] /\ state.revision = worker[a].revision
              THEN [state EXCEPT !.status = "failed"] ELSE state
  /\ gen' = [gen EXCEPT ![a] = [k \in Kinds |->
       IF @[k].status = "building" THEN [status |-> "failed", cleanup |-> "pending"] ELSE @[k]]]
  /\ worker' = [worker EXCEPT ![a] = Gone]
  /\ UNCHANGED <<jobVars, source, head, manifest, thread, chroma, tombs, reader>>

(* The coroutine ends and stores nothing: _fail finds the claim stale, or    *)
(* raises.  Its thread goes on.                                              *)
Abandon(a) ==
  /\ worker[a].pc \notin {"none", "gone"}
  /\ worker' = [worker EXCEPT ![a] = Gone]
  /\ UNCHANGED <<jobVars, sqlVars, thread, chroma, tombs, reader>>

(* The process ends, and its threads with it. *)
Crash(a) ==
  /\ worker[a].pc # "none"
  /\ worker[a] # Gone \/ thread[a] # NoThread
  /\ worker' = [worker EXCEPT ![a] = Gone]
  /\ thread' = [thread EXCEPT ![a] = NoThread]
  /\ UNCHANGED <<jobVars, sqlVars, chroma, tombs, reader>>

-----------------------------------------------------------------------------
(* Worker threads, under attempt_lock.                                      *)

ThreadStart(a) ==
  /\ thread[a].pc = "queued"
  /\ IF <<a, thread[a].kind>> \in tombs
     THEN thread' = [thread EXCEPT ![a] = NoThread] /\ UNCHANGED chroma
     ELSE /\ thread' = [thread EXCEPT ![a].pc = "writing"]
          /\ chroma' = chroma \cup {<<a, thread[a].kind>>}
  /\ UNCHANGED <<jobVars, sqlVars, worker, tombs, reader>>

(* The collection is written and, if the worker still waits, validated, or    *)
(* something failed on the way.                                              *)
ThreadEnd(a) ==
  /\ thread[a].pc = "writing"
  /\ thread' = [thread EXCEPT ![a] = NoThread]
  /\ \/ /\ worker[a].pc = "waiting"
        /\ worker' = [worker EXCEPT ![a].pc = "building", ![a].built = @ + 1]
     \/ UNCHANGED worker
  /\ UNCHANGED <<jobVars, sqlVars, chroma, tombs, reader>>

-----------------------------------------------------------------------------
(* The reconciler and the cleanup after a publication.                      *)

(* Fault: only a dead letter is noticed. *)
ReconcileDeadLetters ==
  /\ state.status = "building" /\ state.job # None
  /\ phase[state.job] = "dead_letter"
  /\ state' = [state EXCEPT !.status = "failed"]
  /\ UNCHANGED <<jobVars, source, head, gen, manifest, buildVars, reader>>

Reconcile ==
  /\ state.status = "building" /\ state.job # None
  /\ phase[state.job] \in Verdicts
  /\ state' = [state EXCEPT !.status = "failed"]
  /\ UNCHANGED <<jobVars, source, head, gen, manifest, buildVars, reader>>

(* Fault: an attempt at work is not spared. *)
LiveNever(a) == FALSE

(* cleanup: the attempt may still need the collection. *)
Live(a) == phase[a[1]] \in {"held", "revoked"} /\ epoch[a[1]] = a[2] /\ ~lapsed[a[1]]

Reclaimable(a, k) ==
  /\ gen[a][k].cleanup \notin {"none", "retained", "deleted"}
  /\ head[k] # a
  /\ ~Live(a)
  /\ gen[a][k].status \in {"building", "failed", "retired"}
  /\ ~(thread[a].pc = "writing" /\ thread[a].kind = k)   \* chroma_attempt_busy

(* Fault: nothing keeps a late thread from creating the collection again. *)
CleanupWithoutTombstone(a, k) ==
  /\ Reclaimable(a, k)
  /\ chroma' = chroma \ {<<a, k>>}
  /\ gen' = [gen EXCEPT ![a][k] = [status |-> IF @.status = "building" THEN "failed" ELSE @.status,
                                   cleanup |-> "deleted"]]
  /\ UNCHANGED <<jobVars, source, state, head, manifest, worker, thread, tombs, reader>>

Cleanup(a, k) ==
  /\ Reclaimable(a, k)
  /\ chroma' = chroma \ {<<a, k>>}
  /\ tombs' = tombs \cup {<<a, k>>}
  /\ gen' = [gen EXCEPT ![a][k] = [status |-> IF @.status = "building" THEN "failed" ELSE @.status,
                                   cleanup |-> "deleted"]]
  /\ UNCHANGED <<jobVars, source, state, head, manifest, worker, thread, reader>>

(* The external half happens, the commit does not; the tombstone may be      *)
(* missing too.                                                              *)
CleanupInterrupted(a, k) ==
  /\ Reclaimable(a, k)
  /\ chroma' = chroma \ {<<a, k>>}
  /\ tombs' \in {tombs, tombs \cup {<<a, k>>}}
  /\ UNCHANGED <<jobVars, sqlVars, worker, thread, reader>>

-----------------------------------------------------------------------------
(* query_user.                                                              *)

(* read_snapshot: one transaction, one snapshot. *)
Servable ==
  /\ state.status = "ready"
  /\ state.source = source
  /\ \A k \in Kinds :
       /\ head[k] # None
       /\ gen[head[k]][k] = [status |-> "ready", cleanup |-> "retained"]
       /\ manifest[head[k]] = state.source

ReadStart(r) ==
  /\ reader[r].pc # "reading" /\ Servable
  /\ reader' = [reader EXCEPT ![r] = [pc |-> "reading", revision |-> state.revision,
                                      source |-> source, head |-> head, seen |-> {}]]
  /\ UNCHANGED <<jobVars, sqlVars, buildVars>>

(* validate and query one collection; anything missing is an error. *)
ReadCollection(r, k) ==
  /\ reader[r].pc = "reading" /\ k \notin reader[r].seen
  /\ reader' = IF <<reader[r].head[k], k>> \in chroma
               THEN [reader EXCEPT ![r].seen = @ \cup {k}]
               ELSE [reader EXCEPT ![r] = NoReader]
  /\ UNCHANGED <<jobVars, sqlVars, buildVars>>

(* assert_current *)
SameToken(r) ==
  Servable /\ state.revision = reader[r].revision /\ source = reader[r].source /\ head = reader[r].head

(* Fault: the answer is given without a second look. *)
AnswerUnchecked(r) ==
  /\ reader[r].pc = "reading" /\ reader[r].seen = Kinds
  /\ reader' = [reader EXCEPT ![r] = Answered]
  /\ UNCHANGED <<jobVars, sqlVars, buildVars>>

Answer(r) ==
  /\ reader[r].pc = "reading" /\ reader[r].seen = Kinds
  /\ SameToken(r)
  /\ reader' = [reader EXCEPT ![r] = Answered]
  /\ UNCHANGED <<jobVars, sqlVars, buildVars>>

Reject(r) ==
  /\ reader[r].pc = "reading" /\ reader[r].seen = Kinds
  /\ ~SameToken(r)
  /\ reader' = [reader EXCEPT ![r] = NoReader]
  /\ UNCHANGED <<jobVars, sqlVars, buildVars>>

-----------------------------------------------------------------------------
JobStep(j) == Claim(j) \/ Lapse(j) \/ EndAttempt(j) \/ Cancel(j)

Request ==
  \/ \E first \in Jobs, others \in SUBSET Jobs : Write(first, others)
  \/ \E fresh \in Jobs : RequestRebuild(fresh) \/ SaveIndex(fresh)

(* What a live worker does next, and its thread. *)
WorkerStep(a) == Begin(a) \/ ReadSources(a) \/ Prepare(a) \/ StartBuild(a) \/ Publish(a)
ThreadStep(a) == ThreadStart(a) \/ ThreadEnd(a)

ReaderStep(r) ==
  \/ ReadStart(r) \/ Answer(r) \/ Reject(r)
  \/ \E k \in Kinds : ReadCollection(r, k)

Next ==
  \/ \E j \in Jobs : JobStep(j)
  \/ Request
  \/ \E a \in Attempts : \/ WorkerStep(a) \/ ThreadStep(a)
                         \/ FailAttempt(a) \/ Abandon(a) \/ Crash(a)
                         \/ \E k \in Kinds : Cleanup(a, k) \/ CleanupInterrupted(a, k)
  \/ Reconcile
  \/ \E r \in Readers : ReaderStep(r)

Spec == Init /\ [][Next]_vars

(* The runner claims and recovers jobs; a claim that is not served any more  *)
(* ends by its lease; threads end; the reconciler comes round every five     *)
(* seconds.  Nothing obliges a worker to get anywhere.                       *)
Fairness ==
  /\ \A j \in Jobs : WF_vars(Claim(j)) /\ WF_vars(EndAttempt(j))
  /\ \A a \in Attempts : WF_vars(ThreadStep(a))
  /\ \A a \in Attempts, k \in Kinds : SF_vars(Cleanup(a, k))
  /\ WF_vars(Reconcile)

FairSpec == Spec /\ Fairness

-----------------------------------------------------------------------------
(* A state that says ready keeps its word: both kinds are served from one    *)
(* publication, which was built from the sources as they are now and whose   *)
(* collections exist, whatever was written, cancelled, crashed, retried  *)
(* or cleaned up before.                                                     *)
ReadyIsServable ==
  state.status = "ready" =>
    /\ Servable
    /\ \A k, l \in Kinds : head[k] = head[l]
    /\ \A k \in Kinds : <<head[k], k>> \in chroma

(* A closed gate waits for somebody: whoever closed it, an upload, a note, a  *)
(* request or a rebuild, left it the name of a job that has an attempt left,  *)
(* is held by one, or has ended, which the reconciler looks for.  It has not  *)
(* ended well: a success opens the gate, so that the reconciler never calls   *)
(* failed what was published.                                                *)
GateHasAnOwner ==
  state.status = "building" =>
    /\ state.job \in Jobs /\ phase[state.job] \notin {"absent", "succeeded"}
    /\ phase[state.job] = "idle" => epoch[state.job] < MaxAttempts

(* No collection is lost sight of: one that is not served is in the hands of  *)
(* a claim in force or of the thread that writes it, or the cleanup finds its *)
(* locator, however its worker, its process or an earlier cleanup ended.     *)
NoneIsLost ==
  \A a \in Attempts, k \in Kinds : <<a, k>> \in chroma /\ head[k] # a =>
    Live(a) \/ thread[a] = [kind |-> k, pc |-> "writing"] \/ Reclaimable(a, k)

(* What the cleanup may not touch is exactly what is being served: no        *)
(* generation stays ready, and no artifact stays retained, once replaced.    *)
RetainedIsActive ==
  \A a \in Attempts, k \in Kinds :
    gen[a][k].status = "ready" \/ gen[a][k].cleanup = "retained" <=> head[k] = a

(* A locator recorded as deleted never comes back to life: not by a thread   *)
(* whose coroutine was cancelled before or while the collection was deleted. *)
DeletedIsGone ==
  \A a \in Attempts, k \in Kinds : gen[a][k].cleanup = "deleted" => <<a, k>> \notin chroma

(* A build is called failed by the attempt that is running it or after its   *)
(* job has ended; a stale attempt cannot fail a newer one.                   *)
FailureIsOwn ==
  [][state.status = "building" /\ state'.status = "failed" =>
       \/ phase[state.job] \in Verdicts
       \/ \E a \in Attempts : /\ a[1] = state.job /\ Current(a)
                             /\ worker[a].revision = state.revision]_vars

(* An answer was read, in several steps without any lock, from the           *)
(* publication that is still the current one when the answer is given.       *)
AnswersAreCurrent ==
  [][\A r \in Readers : reader'[r] = Answered /\ reader[r] # Answered =>
       /\ state.status = "ready"
       /\ reader[r].source = source
       /\ \A k \in Kinds : head[k] = reader[r].head[k] /\ <<head[k], k>> \in chroma]_vars

(* The gate never stays closed: a rebuild ends as ready or as failed.        *)
RebuildEnds == state.status = "building" ~> state.status # "building"

(* Every collection that is not served is reclaimed.                         *)
CollectionsReclaimed ==
  \A a \in Attempts, k \in Kinds :
    <<a, k>> \in chroma /\ head[k] # a ~> <<a, k>> \notin chroma \/ head[k] = a

(* The jobs of this module are jobs as JobLifecycle promises them; that a    *)
(* publication is the success of a claim in force follows.                   *)
Lifecycle == INSTANCE JobLifecycle WITH
  winner <- [j \in Jobs |-> IF phase[j] = "succeeded" THEN epoch[j] ELSE 0]

JobsFollowLifecycle == Lifecycle!Spec
=============================================================================
