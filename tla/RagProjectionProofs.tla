------------------------- MODULE RagProjectionProofs -------------------------
(***************************************************************************)
(* What RagProjection promises, for every number of jobs, attempts, source *)
(* versions, index kinds and readers.                                      *)
(***************************************************************************)
EXTENDS RagProjection, SequenceTheorems, TLAPS

LEMMA Constants ==
  /\ None \notin Jobs /\ None \notin Attempts
  /\ MaxAttempts \in Nat /\ MaxSource \in Nat /\ 1 \in 1..MaxSource
  /\ Len(IndexKinds) \in Nat /\ Kinds = 1..Len(IndexKinds)
BY ProjectionAssumption, LenProperties DEF Attempts, Kinds

LEMMA AttemptParts ==
  ASSUME NEW a \in Attempts
  PROVE  a = <<a[1], a[2]>> /\ a[1] \in Jobs /\ a[2] \in 1..MaxAttempts
BY DEF Attempts

AtWork == {"begun", "sourced", "building", "waiting"}

(* An attempt that has not been granted has no worker. *)
ClaimsCounted ==
  \A a \in Attempts : a[2] > epoch[a[1]] => worker[a] = NoWorker /\ thread[a] = NoThread

(* One thread of an attempt at most, for the kind that its worker waits for. *)
ThreadsFit ==
  \A a \in Attempts :
    /\ thread[a].pc # "none" => thread[a].kind \in Kinds
    /\ worker[a].pc \in {"claimed", "begun", "sourced", "building"} => thread[a] = NoThread
    /\ worker[a].pc = "waiting" => worker[a].built < Len(IndexKinds)
    /\ worker[a].pc = "waiting" /\ thread[a].pc # "none" => thread[a].kind = worker[a].built + 1

(* An attempt that has not come to its second transaction has no locator. *)
LocatorsFirst ==
  \A a \in Attempts :
    worker[a].pc \in {"none", "claimed", "begun", "sourced"} =>
      \A k \in Kinds : gen[a][k] = NoGeneration

(* A generation that is being built may be cleaned up, the active one may not, *)
(* and nothing brings back what was deleted: its tombstone stands.             *)
Recorded(a, k) ==
  /\ gen[a][k].status = "building" => gen[a][k].cleanup = "building"
  /\ gen[a][k].status = "ready" \/ gen[a][k].cleanup = "retained" <=> head[k] = a
  /\ gen[a][k].cleanup = "deleted" => <<a, k>> \in tombs /\ <<a, k>> \notin chroma

GenerationsRecorded == \A a \in Attempts, k \in Kinds : Recorded(a, k)

(* Every start of a rebuild raises the revision of the state, so that no two  *)
(* workers have the same.                                                     *)
RevisionsCount ==
  /\ \A a \in Attempts : worker[a].pc \in AtWork => worker[a].revision <= state.revision
  /\ \A a, b \in Attempts :
       /\ worker[a].pc \in AtWork /\ worker[b].pc \in AtWork
       /\ worker[a].revision = worker[b].revision
       => a = b

(* While the state is at the revision of a worker, its locators and the state *)
(* tell what the worker has read.                                             *)
SourcesNoted ==
  \A a \in Attempts : worker[a].pc \in {"building", "waiting"} =>
    /\ manifest[a] = worker[a].source
    /\ state.revision = worker[a].revision => state.source = worker[a].source

(* What has been built for a claim in force is there: nobody cleans up after  *)
(* it, and behind the back of a thread that writes.                           *)
BuiltStands ==
  \A a \in Attempts :
    /\ thread[a].pc = "writing" => <<a, thread[a].kind>> \in chroma
    /\ Live(a) => \A k \in Kinds : k <= worker[a].built => <<a, k>> \in chroma

-----------------------------------------------------------------------------
(* Types.                                                                   *)

Phases == {"absent", "idle", "held", "revoked"} \cup Verdicts

JobTypes ==
  /\ phase \in [Jobs -> Phases]
  /\ epoch \in [Jobs -> 0..MaxAttempts]
  /\ lapsed \in [Jobs -> BOOLEAN]

SqlTypes ==
  /\ source \in 1..MaxSource
  /\ state \in UserStates
  /\ state.status = "building" => state.job # None
  /\ head \in [Kinds -> Attempts \cup {None}]
  /\ gen \in [Attempts -> [Kinds -> Generations]]
  /\ manifest \in [Attempts -> 0..MaxSource]

BuildTypes ==
  /\ worker \in [Attempts -> Workers]
  /\ thread \in [Attempts -> Threads]
  /\ chroma \subseteq Attempts \X Kinds
  /\ tombs \subseteq Attempts \X Kinds

ReaderTypes == reader \in [Readers -> Queries]

Types == JobTypes /\ SqlTypes /\ BuildTypes /\ ReaderTypes

LEMMA TypesAreTypes == Types => TypeOK
BY DEF Types, TypeOK, JobTypes, SqlTypes, BuildTypes, ReaderTypes, Phases

LEMMA Nulls ==
  /\ NoGeneration \in Generations
  /\ NoThread \in Threads /\ NoThread.pc = "none"
  /\ NoWorker \in Workers /\ NoWorker.pc = "none" /\ NoWorker.built = 0
  /\ Gone \in Workers /\ Gone.pc = "gone" /\ Gone.built = 0
  /\ NoReader \in Queries /\ NoReader.pc = "idle"
  /\ Answered \in Queries /\ Answered.pc = "answered"
BY Constants DEF NoGeneration, Generations, NoThread, Threads, NoWorker, Workers, Gone, NoReader,
   Queries, Answered

LEMMA InitTypes == Init => Types
BY Constants, Nulls DEF Init, Types, JobTypes, SqlTypes, BuildTypes, ReaderTypes, Phases, UserStates

LEMMA SubmittedTypes ==
  ASSUME JobTypes, NEW new, Submitted(new)
  PROVE  phase' \in [Jobs -> Phases]
BY DEF JobTypes, Submitted, Phases

(* The gate closes under job j. *)
LEMMA GateCloses ==
  ASSUME state \in UserStates, NEW j \in Jobs,
         state' = [state EXCEPT !.status = "building", !.job = j, !.revision = @ + 1]
  PROVE  /\ state' \in UserStates
         /\ state'.status = "building" /\ state'.job = j /\ j # None
         /\ state'.revision = state.revision + 1 /\ state.revision \in Nat
         /\ state'.source = state.source
<1>1. state.revision \in Nat /\ state.revision + 1 \in Nat
  BY DEF UserStates
<1>2. state = [status |-> state.status, job |-> state.job, revision |-> state.revision,
               source |-> state.source]
  BY DEF UserStates
<1>3. state' = [status |-> "building", job |-> j, revision |-> state.revision + 1,
                source |-> state.source]
  BY <1>2
<1> QED BY <1>1, <1>3, Constants DEF UserStates

LEMMA QueueTypes ==
  ASSUME JobTypes, SqlTypes, NEW fresh \in Jobs, Queue(fresh)
  PROVE  /\ phase' \in [Jobs -> Phases] /\ state' \in UserStates
         /\ state'.status = "building" /\ state'.job # None
<1>1. CASE Unfinished /\ state' = [state EXCEPT !.status = "building"] /\ UNCHANGED phase
  BY <1>1 DEF JobTypes, SqlTypes, UserStates, Unfinished
<1>2. CASE /\ Submitted({fresh})
           /\ state' = [state EXCEPT !.status = "building", !.job = fresh, !.revision = @ + 1]
  BY <1>2, SubmittedTypes, GateCloses DEF SqlTypes
<1> QED BY <1>1, <1>2 DEF Queue

LEMMA JobTypesKept == ASSUME Types, [Next]_vars PROVE JobTypes'
<1>0. JobTypes /\ SqlTypes /\ MaxAttempts \in Nat
  BY Constants DEF Types
<1>1. ASSUME NEW j \in Jobs, Claim(j) PROVE JobTypes'
  BY <1>0, <1>1 DEF JobTypes, Claim, Phases
<1>2. ASSUME NEW j \in Jobs, Lapse(j) PROVE JobTypes'
  BY <1>0, <1>2 DEF JobTypes, Lapse
<1>3. ASSUME NEW j \in Jobs, EndAttempt(j) PROVE JobTypes'
  BY <1>0, <1>3 DEF JobTypes, EndAttempt, Phases, Verdicts
<1>4. ASSUME NEW j \in Jobs, Cancel(j) PROVE JobTypes'
  BY <1>0, <1>4 DEF JobTypes, Cancel, Phases, Verdicts
<1>5. CASE Request
  <2>1. UNCHANGED <<epoch, lapsed>> /\ phase' \in [Jobs -> Phases]
    BY <1>0, <1>5, SubmittedTypes, QueueTypes DEF Request, Write, RequestRebuild, SaveIndex
  <2> QED BY <1>0, <2>1 DEF JobTypes
<1>6. ASSUME NEW a \in Attempts, Publish(a) PROVE JobTypes'
  BY <1>0, <1>6 DEF JobTypes, Publish, Phases, Verdicts
<1>7. CASE UNCHANGED jobVars
  BY <1>0, <1>7 DEF JobTypes, jobVars
<1> QED
  BY <1>1, <1>2, <1>3, <1>4, <1>5, <1>6, <1>7
     DEF Next, JobStep, WorkerStep, ThreadStep, ReaderStep, jobVars, vars, Begin, ReadSources, Prepare,
         StartBuild, FailAttempt, Abandon, Crash, ThreadStart, ThreadEnd, Cleanup, CleanupInterrupted,
         Reconcile, ReadStart, ReadCollection, Answer, Reject

LEMMA GenerationRecords ==
  \A s \in {"none", "building", "ready", "failed", "retired"},
     c \in {"none", "building", "pending", "retained", "deleted"} :
       [status |-> s, cleanup |-> c] \in Generations
BY DEF Generations

LEMMA SqlTypesKept == ASSUME Types, [Next]_vars PROVE SqlTypes'
<1>0. JobTypes /\ SqlTypes /\ MaxSource \in Nat /\ None \notin Jobs
  BY Constants DEF Types
<1>a. gen \in [Attempts -> [Kinds -> Generations]] /\ state \in UserStates
  BY <1>0 DEF SqlTypes
<1>1. ASSUME NEW first \in Jobs, NEW others \in SUBSET Jobs, Write(first, others) PROVE SqlTypes'
  <2>1. source' \in 1..MaxSource /\ UNCHANGED <<head, gen, manifest>>
    BY <1>0, <1>1 DEF SqlTypes, Write
  <2>2. state' \in UserStates /\ state'.job # None
    BY <1>a, <1>1, GateCloses DEF Write
  <2> QED BY <1>0, <2>1, <2>2 DEF SqlTypes
<1>2. ASSUME NEW fresh \in Jobs, RequestRebuild(fresh) PROVE SqlTypes'
  BY <1>0, <1>2, QueueTypes DEF SqlTypes, RequestRebuild
<1>3. ASSUME NEW fresh \in Jobs, SaveIndex(fresh) PROVE SqlTypes'
  BY <1>0, <1>3, QueueTypes DEF SqlTypes, SaveIndex
<1>4. ASSUME NEW a \in Attempts, Begin(a) PROVE SqlTypes'
  <2>1. a[1] \in Jobs
    BY AttemptParts
  <2> QED BY <1>0, <1>4, <2>1, GateCloses DEF SqlTypes, Begin
<1>5. ASSUME NEW a \in Attempts, Prepare(a) PROVE SqlTypes'
  <2>1. worker[a].source \in 0..MaxSource
    BY DEF Types, BuildTypes, Workers
  <2> QED BY <1>0, <1>5, <2>1, GenerationRecords DEF SqlTypes, UserStates, Prepare
<1>6. ASSUME NEW a \in Attempts, Publish(a) PROVE SqlTypes'
  <2>1. gen' \in [Attempts -> [Kinds -> Generations]]
    BY <1>a, <1>6, GenerationRecords DEF Publish
  <2>2. head' \in [Kinds -> Attempts \cup {None}] /\ state' \in UserStates /\ state'.status = "ready"
    BY <1>a, <1>6 DEF Publish, UserStates
  <2> QED BY <1>0, <1>6, <2>1, <2>2 DEF SqlTypes, Publish
<1>7. ASSUME NEW a \in Attempts, FailAttempt(a) PROVE SqlTypes'
  <2>1. gen' \in [Attempts -> [Kinds -> Generations]]
    <3>1. [k \in Kinds |-> IF gen[a][k].status = "building"
                            THEN [status |-> "failed", cleanup |-> "pending"]
                            ELSE gen[a][k]] \in [Kinds -> Generations]
      BY <1>a, GenerationRecords
    <3> QED BY <1>a, <1>7, <3>1 DEF FailAttempt
  <2>2. state' \in UserStates /\ (state'.status = "building" => state'.job # None)
    BY <1>0, <1>7 DEF FailAttempt, UserStates, SqlTypes
  <2> QED BY <1>0, <1>7, <2>1, <2>2 DEF SqlTypes, FailAttempt
<1>8. ASSUME NEW a \in Attempts, NEW k \in Kinds, Cleanup(a, k) PROVE SqlTypes'
  <2>1. gen' \in [Attempts -> [Kinds -> Generations]]
    <3>1. gen[a][k] \in Generations
      BY <1>a
    <3>2. [status |-> IF gen[a][k].status = "building" THEN "failed" ELSE gen[a][k].status,
           cleanup |-> "deleted"] \in Generations
      BY <3>1 DEF Generations
    <3> QED BY <1>a, <1>8, <3>2 DEF Cleanup
  <2> QED BY <1>0, <1>8, <2>1 DEF SqlTypes, Cleanup
<1>9. CASE Reconcile
  BY <1>0, <1>9 DEF SqlTypes, UserStates, Reconcile
<1>10. CASE UNCHANGED sqlVars
  BY <1>0, <1>10 DEF SqlTypes, sqlVars
<1> QED
  BY <1>1, <1>2, <1>3, <1>4, <1>5, <1>6, <1>7, <1>8, <1>9, <1>10
     DEF Next, Request, JobStep, WorkerStep, ThreadStep, ReaderStep, sqlVars, vars, Claim, Lapse, EndAttempt,
         Cancel, ReadSources, StartBuild, Abandon, Crash, ThreadStart, ThreadEnd, CleanupInterrupted,
         ReadStart, ReadCollection, Answer, Reject

LEMMA NewWorker ==
  LET w == [NoWorker EXCEPT !.pc = "claimed"]
  IN  w \in Workers /\ w.pc = "claimed" /\ w.built = 0
BY Constants DEF NoWorker, Workers

(* What a step does to the worker that takes it. *)
LEMMA WorkerMoves ==
  ASSUME BuildTypes, SqlTypes, NEW a \in Attempts
  PROVE  /\ \A w \in Workers : [worker EXCEPT ![a] = w] \in [Attempts -> Workers]
         /\ Begin(a) =>
              /\ worker' = [worker EXCEPT ![a] = [@ EXCEPT !.pc = "begun", !.revision = state.revision + 1]]
              /\ worker' \in [Attempts -> Workers]
         /\ ReadSources(a) =>
              /\ worker' = [worker EXCEPT ![a] = [@ EXCEPT !.pc = "sourced", !.source = source]]
              /\ worker' \in [Attempts -> Workers]
         /\ Prepare(a) =>
              /\ worker' = [worker EXCEPT ![a] = [@ EXCEPT !.pc = "building"]]
              /\ worker' \in [Attempts -> Workers]
         /\ StartBuild(a) =>
              /\ worker' = [worker EXCEPT ![a] = [@ EXCEPT !.pc = "waiting"]]
              /\ worker' \in [Attempts -> Workers]
<1>1. worker \in [Attempts -> Workers] /\ worker[a] \in Workers
  BY DEF BuildTypes
<1>2. state.revision + 1 \in Nat /\ source \in 0..MaxSource
  BY Constants DEF SqlTypes, UserStates
<1>3. \A w \in Workers : [worker EXCEPT ![a] = w] \in [Attempts -> Workers]
  BY <1>1
<1>4. /\ [worker[a] EXCEPT !.pc = "begun", !.revision = state.revision + 1] \in Workers
      /\ [worker[a] EXCEPT !.pc = "sourced", !.source = source] \in Workers
      /\ [worker[a] EXCEPT !.pc = "building"] \in Workers
      /\ [worker[a] EXCEPT !.pc = "waiting"] \in Workers
  BY <1>1, <1>2 DEF Workers
<1>5. Begin(a) =>
        worker' = [worker EXCEPT ![a] = [@ EXCEPT !.pc = "begun", !.revision = state.revision + 1]]
  BY <1>1 DEF Begin
<1>6. ReadSources(a) =>
        worker' = [worker EXCEPT ![a] = [@ EXCEPT !.pc = "sourced", !.source = source]]
  BY <1>1 DEF ReadSources
<1>7. Prepare(a) => worker' = [worker EXCEPT ![a] = [@ EXCEPT !.pc = "building"]]
  BY <1>1 DEF Prepare
<1>8. StartBuild(a) => worker' = [worker EXCEPT ![a] = [@ EXCEPT !.pc = "waiting"]]
  BY <1>1 DEF StartBuild
<1> HIDE DEF Begin, ReadSources, Prepare, StartBuild
<1> QED BY <1>3, <1>4, <1>5, <1>6, <1>7, <1>8

LEMMA BuildTypesKept == ASSUME Types, ThreadsFit, [Next]_vars PROVE BuildTypes'
<1>0. BuildTypes /\ SqlTypes /\ JobTypes
  BY DEF Types
<1>a. Len(IndexKinds) \in Nat /\ Kinds = 1..Len(IndexKinds) /\ MaxSource \in Nat
  BY Constants
<1>b. \A b \in Attempts : worker[b] \in Workers /\ thread[b] \in Threads
  BY <1>0 DEF BuildTypes
<1>1. ASSUME NEW j \in Jobs, Claim(j) PROVE BuildTypes'
  BY <1>0, <1>1, NewWorker DEF BuildTypes, Claim
<1>2. ASSUME NEW a \in Attempts, Begin(a) PROVE BuildTypes'
  BY <1>0, <1>2, WorkerMoves DEF BuildTypes, Begin
<1>3. ASSUME NEW a \in Attempts, ReadSources(a) PROVE BuildTypes'
  BY <1>0, <1>3, WorkerMoves DEF BuildTypes, ReadSources
<1>4. ASSUME NEW a \in Attempts, Prepare(a) PROVE BuildTypes'
  BY <1>0, <1>4, WorkerMoves DEF BuildTypes, Prepare
<1>5. ASSUME NEW a \in Attempts, StartBuild(a) PROVE BuildTypes'
  <2>1. [kind |-> worker[a].built + 1, pc |-> "queued"] \in Threads
    BY <1>a, <1>b, <1>5 DEF Workers, Threads, StartBuild
  <2>2. thread' \in [Attempts -> Threads]
    BY <1>0, <1>5, <2>1 DEF StartBuild, BuildTypes
  <2> QED BY <1>0, <1>5, <2>2, WorkerMoves DEF BuildTypes, StartBuild
<1>6. ASSUME NEW a \in Attempts, Publish(a) \/ FailAttempt(a) \/ Abandon(a) \/ Crash(a) PROVE BuildTypes'
  BY <1>0, <1>6, Nulls DEF BuildTypes, Publish, FailAttempt, Abandon, Crash
<1>7. ASSUME NEW a \in Attempts, ThreadStart(a) PROVE BuildTypes'
  <2>1. thread[a].kind \in Kinds
    BY <1>7 DEF ThreadStart, ThreadsFit
  <2>2. [thread[a] EXCEPT !.pc = "writing"] \in Threads
    BY <1>b DEF Threads
  <2>3. thread' \in [Attempts -> Threads]
    BY <1>0, <1>7, <2>2, Nulls DEF ThreadStart, BuildTypes
  <2>4. chroma' \subseteq Attempts \X Kinds
    BY <1>0, <1>7, <2>1 DEF ThreadStart, BuildTypes
  <2> QED BY <1>0, <1>7, <2>3, <2>4 DEF BuildTypes, ThreadStart
<1>8. ASSUME NEW a \in Attempts, ThreadEnd(a) PROVE BuildTypes'
  <2>1. worker' \in [Attempts -> Workers]
    <3>1. CASE UNCHANGED worker
      BY <1>0, <3>1 DEF BuildTypes
    <3>2. CASE worker[a].pc = "waiting" /\ worker' = [worker EXCEPT ![a].pc = "building", ![a].built = @ + 1]
      <4>1. worker[a].built + 1 \in 0..Len(IndexKinds)
        BY <1>a, <1>b, <3>2 DEF ThreadsFit, Workers
      <4> QED BY <1>0, <1>b, <3>2, <4>1 DEF BuildTypes, Workers
    <3> QED BY <1>8, <3>1, <3>2 DEF ThreadEnd
  <2> QED BY <1>0, <1>8, <2>1, Nulls DEF BuildTypes, ThreadEnd
<1>9. ASSUME NEW a \in Attempts, NEW k \in Kinds, Cleanup(a, k) \/ CleanupInterrupted(a, k)
      PROVE  BuildTypes'
  BY <1>0, <1>9 DEF BuildTypes, Cleanup, CleanupInterrupted
<1>10. CASE UNCHANGED buildVars
  BY <1>0, <1>10 DEF BuildTypes, buildVars
<1> QED
  BY <1>1, <1>2, <1>3, <1>4, <1>5, <1>6, <1>7, <1>8, <1>9, <1>10
     DEF Next, Request, JobStep, WorkerStep, ThreadStep, ReaderStep, buildVars, vars, Lapse, EndAttempt,
         Cancel, Write, RequestRebuild, SaveIndex, Reconcile, ReadStart, ReadCollection, Answer, Reject

LEMMA ReaderTypesKept == ASSUME Types, [Next]_vars PROVE ReaderTypes'
<1>0. reader \in [Readers -> Queries] /\ SqlTypes /\ MaxSource \in Nat
  BY Constants DEF Types, ReaderTypes
<1>1. ASSUME NEW r \in Readers, ReadStart(r) PROVE ReaderTypes'
  BY <1>0, <1>1 DEF ReaderTypes, Queries, SqlTypes, UserStates, ReadStart
<1>2. ASSUME NEW r \in Readers, NEW k \in Kinds, ReadCollection(r, k) PROVE ReaderTypes'
  <2>1. reader[r] \in Queries /\ [reader[r] EXCEPT !.seen = @ \cup {k}] \in Queries
    BY <1>0 DEF Queries
  <2> QED BY <1>0, <1>2, <2>1, Nulls DEF ReaderTypes, ReadCollection
<1>3. ASSUME NEW r \in Readers, Answer(r) \/ Reject(r) PROVE ReaderTypes'
  BY <1>0, <1>3, Nulls DEF ReaderTypes, Answer, Reject
<1>4. CASE UNCHANGED reader
  BY <1>0, <1>4 DEF ReaderTypes
<1> QED
  BY <1>1, <1>2, <1>3, <1>4
     DEF Next, Request, JobStep, WorkerStep, ThreadStep, ReaderStep, vars, Claim, Lapse, EndAttempt, Cancel,
         Write, RequestRebuild, SaveIndex, Begin, ReadSources, Prepare, StartBuild, Publish, FailAttempt,
         Abandon, Crash, ThreadStart, ThreadEnd, Cleanup, CleanupInterrupted, Reconcile

LEMMA TypesKept == ASSUME Types, ThreadsFit, [Next]_vars PROVE Types'
BY JobTypesKept, SqlTypesKept, BuildTypesKept, ReaderTypesKept DEF Types
-----------------------------------------------------------------------------
(* The workers and their threads.                                           *)

LEMMA ClaimsCountedKept == ASSUME Types, ClaimsCounted, [Next]_vars PROVE ClaimsCounted'
<1> SUFFICES ASSUME NEW b \in Attempts, b[2] > epoch'[b[1]]
             PROVE  worker'[b] = NoWorker /\ thread'[b] = NoThread
  BY DEF ClaimsCounted
<1>0. /\ b[1] \in Jobs /\ b[2] \in Nat
      /\ epoch \in [Jobs -> 0..MaxAttempts] /\ MaxAttempts \in Nat
      /\ worker \in [Attempts -> Workers] /\ thread \in [Attempts -> Threads]
  BY AttemptParts, Constants DEF Types, JobTypes, BuildTypes
<1>1. epoch'[b[1]] = epoch[b[1]] => worker[b] = NoWorker /\ thread[b] = NoThread
  BY DEF ClaimsCounted
<1>2. ASSUME NEW j \in Jobs, Claim(j) PROVE worker'[b] = NoWorker /\ thread'[b] = NoThread
  <2>1. b[2] > epoch[b[1]] /\ b # <<j, epoch[j] + 1>>
    BY <1>0, <1>2 DEF Claim
  <2>2. worker[b] = NoWorker /\ thread[b] = NoThread
    BY <2>1 DEF ClaimsCounted
  <2> QED BY <1>0, <1>2, <2>1, <2>2 DEF Claim
<1>3. ASSUME NEW a \in Attempts, worker[a].pc # "none" \/ thread[a].pc # "none",
             UNCHANGED epoch,
             \A c \in Attempts \ {a} : worker'[c] = worker[c] /\ thread'[c] = thread[c]
      PROVE  worker'[b] = NoWorker /\ thread'[b] = NoThread
  BY <1>1, <1>3, Nulls
<1>4. CASE UNCHANGED <<epoch, worker, thread>>
  BY <1>1, <1>4
<1>5. ASSUME NEW a \in Attempts,
             \/ WorkerStep(a) \/ ThreadStep(a) \/ FailAttempt(a) \/ Abandon(a) \/ Crash(a)
      PROVE  /\ worker[a].pc # "none" \/ thread[a].pc # "none"
             /\ UNCHANGED epoch
             /\ \A c \in Attempts \ {a} : worker'[c] = worker[c] /\ thread'[c] = thread[c]
  BY <1>0, <1>5
     DEF WorkerStep, ThreadStep, jobVars, Begin, ReadSources, Prepare, StartBuild, Publish, FailAttempt,
         Abandon, Crash, ThreadStart, ThreadEnd
<1> QED
  BY <1>2, <1>3, <1>4, <1>5
     DEF Next, Request, JobStep, ReaderStep, vars, jobVars, buildVars, Lapse, EndAttempt, Cancel, Write, RequestRebuild,
         SaveIndex, Cleanup, CleanupInterrupted, Reconcile, ReadStart, ReadCollection, Answer, Reject

(* What a step of attempt a does to its worker, field by field. *)
LEMMA Stages ==
  ASSUME Types, NEW a \in Attempts
  PROVE  /\ Begin(a) => /\ worker'[a].pc = "begun" /\ worker'[a].built = worker[a].built
                        /\ worker'[a].revision = state.revision + 1
         /\ ReadSources(a) => /\ worker'[a].pc = "sourced" /\ worker'[a].built = worker[a].built
                              /\ worker'[a].revision = worker[a].revision
         /\ Prepare(a) => /\ worker'[a].pc = "building" /\ worker'[a].built = worker[a].built
                          /\ worker'[a].revision = worker[a].revision
                          /\ worker'[a].source = worker[a].source
         /\ StartBuild(a) => /\ worker'[a].pc = "waiting" /\ worker'[a].built = worker[a].built
                             /\ worker'[a].revision = worker[a].revision
                             /\ worker'[a].source = worker[a].source
         /\ ThreadEnd(a) => \/ worker'[a] = worker[a]
                            \/ /\ worker[a].pc = "waiting" /\ worker'[a].pc = "building"
                               /\ worker'[a].built = worker[a].built + 1
                               /\ worker'[a].revision = worker[a].revision
                               /\ worker'[a].source = worker[a].source
<1>1. worker \in [Attempts -> Workers] /\ worker[a] \in Workers
  BY DEF Types, BuildTypes
<1>2. ASSUME Begin(a)
      PROVE  /\ worker'[a].pc = "begun" /\ worker'[a].built = worker[a].built
             /\ worker'[a].revision = state.revision + 1
  BY <1>1, <1>2 DEF Begin, Workers
<1>3. ASSUME ReadSources(a)
      PROVE  /\ worker'[a].pc = "sourced" /\ worker'[a].built = worker[a].built
             /\ worker'[a].revision = worker[a].revision
  BY <1>1, <1>3 DEF ReadSources, Workers
<1>4. ASSUME Prepare(a)
      PROVE  /\ worker'[a].pc = "building" /\ worker'[a].built = worker[a].built
             /\ worker'[a].revision = worker[a].revision /\ worker'[a].source = worker[a].source
  BY <1>1, <1>4 DEF Prepare, Workers
<1>5. ASSUME StartBuild(a)
      PROVE  /\ worker'[a].pc = "waiting" /\ worker'[a].built = worker[a].built
             /\ worker'[a].revision = worker[a].revision /\ worker'[a].source = worker[a].source
  BY <1>1, <1>5 DEF StartBuild, Workers
<1>6. ASSUME ThreadEnd(a), worker'[a] # worker[a]
      PROVE  /\ worker[a].pc = "waiting" /\ worker'[a].pc = "building"
             /\ worker'[a].built = worker[a].built + 1
             /\ worker'[a].revision = worker[a].revision /\ worker'[a].source = worker[a].source
  BY <1>1, <1>6 DEF ThreadEnd, Workers
<1> QED BY <1>2, <1>3, <1>4, <1>5, <1>6

(* ThreadsFit, of one attempt. *)
Fits(w, t) ==
  /\ t.pc # "none" => t.kind \in Kinds
  /\ w.pc \in {"claimed", "begun", "sourced", "building"} => t = NoThread
  /\ w.pc = "waiting" => w.built < Len(IndexKinds)
  /\ w.pc = "waiting" /\ t.pc # "none" => t.kind = w.built + 1

LEMMA ThreadsFitKept == ASSUME Types, ClaimsCounted, ThreadsFit, [Next]_vars PROVE ThreadsFit'
<1>0. /\ worker \in [Attempts -> Workers] /\ thread \in [Attempts -> Threads]
      /\ epoch \in [Jobs -> 0..MaxAttempts] /\ MaxAttempts \in Nat
      /\ Kinds = 1..Len(IndexKinds) /\ Len(IndexKinds) \in Nat
      /\ \A b \in Attempts : Fits(worker[b], thread[b])
      /\ BuildTypes /\ SqlTypes
  BY Constants DEF Types, JobTypes, BuildTypes, ThreadsFit, Fits
<1>a. (\A b \in Attempts : Fits(worker'[b], thread'[b])) => ThreadsFit'
  BY DEF ThreadsFit, Fits
<1>1. ASSUME NEW j \in Jobs, Claim(j) PROVE ThreadsFit'
  <2> DEFINE a == <<j, epoch[j] + 1>>
  <2>1. a \in Attempts => thread[a] = NoThread
    BY <1>0 DEF ClaimsCounted
  <2>2. Fits([NoWorker EXCEPT !.pc = "claimed"], NoThread)
    BY NewWorker, Nulls DEF Fits
  <2>3. \A b \in Attempts : Fits(worker'[b], thread'[b])
    BY <1>0, <1>1, <2>1, <2>2 DEF Claim
  <2> QED BY <1>a, <2>3
<1>2. ASSUME NEW a \in Attempts,
             \A c \in Attempts \ {a} : worker'[c] = worker[c] /\ thread'[c] = thread[c],
             Fits(worker'[a], thread'[a])
      PROVE  ThreadsFit'
  BY <1>0, <1>2, <1>a
<1>3. ASSUME NEW a \in Attempts, Begin(a) \/ ReadSources(a) \/ Prepare(a)
      PROVE  /\ \A c \in Attempts \ {a} : worker'[c] = worker[c] /\ thread'[c] = thread[c]
             /\ Fits(worker'[a], thread'[a])
  <2>1. thread' = thread /\ Fits(worker[a], thread[a]) /\ worker[a].pc \in {"claimed", "begun", "sourced"}
    BY <1>0, <1>3 DEF Begin, ReadSources, Prepare
  <2>2. worker'[a].pc \in {"begun", "sourced", "building"}
    BY <1>3, Stages
  <2>3. Fits(worker'[a], thread[a])
    BY <2>1, <2>2, Nulls DEF Fits
  <2> QED BY <1>0, <1>3, <2>1, <2>3 DEF Begin, ReadSources, Prepare
<1>4. ASSUME NEW a \in Attempts, StartBuild(a)
      PROVE  /\ \A c \in Attempts \ {a} : worker'[c] = worker[c] /\ thread'[c] = thread[c]
             /\ Fits(worker'[a], thread'[a])
  <2>1. worker'[a].pc = "waiting" /\ worker'[a].built = worker[a].built
    BY <1>4, Stages
  <2>2. thread'[a].kind = worker[a].built + 1 /\ thread'[a].pc = "queued"
    BY <1>0, <1>4 DEF StartBuild
  <2>3. worker[a].built \in Nat /\ worker[a].built < Len(IndexKinds)
    BY <1>0, <1>4 DEF StartBuild, Workers
  <2>4. Fits(worker'[a], thread'[a])
    BY <1>0, <2>1, <2>2, <2>3 DEF Fits
  <2> QED BY <1>0, <1>4, <2>4 DEF StartBuild
<1>5. ASSUME NEW a \in Attempts, Publish(a) \/ FailAttempt(a) \/ Abandon(a)
      PROVE  /\ \A c \in Attempts \ {a} : worker'[c] = worker[c] /\ thread'[c] = thread[c]
             /\ Fits(worker'[a], thread'[a])
  BY <1>0, <1>5, Nulls DEF Publish, FailAttempt, Abandon, Fits
<1>6. ASSUME NEW a \in Attempts, Crash(a)
      PROVE  /\ \A c \in Attempts \ {a} : worker'[c] = worker[c] /\ thread'[c] = thread[c]
             /\ Fits(worker'[a], thread'[a])
  BY <1>0, <1>6, Nulls DEF Crash, Fits
<1>7. ASSUME NEW a \in Attempts, ThreadStart(a)
      PROVE  /\ \A c \in Attempts \ {a} : worker'[c] = worker[c] /\ thread'[c] = thread[c]
             /\ Fits(worker'[a], thread'[a])
  <2>1. Fits(worker[a], thread[a]) /\ thread[a].pc = "queued" /\ worker' = worker
    BY <1>0, <1>7 DEF ThreadStart
  <2>2. thread'[a] = NoThread \/ (thread'[a].pc = "writing" /\ thread'[a].kind = thread[a].kind)
    BY <1>0, <1>7 DEF ThreadStart, Threads
  <2>3. Fits(worker[a], thread'[a])
    BY <2>1, <2>2, Nulls DEF Fits
  <2> QED BY <1>0, <1>7, <2>1, <2>3 DEF ThreadStart
<1>8. ASSUME NEW a \in Attempts, ThreadEnd(a)
      PROVE  /\ \A c \in Attempts \ {a} : worker'[c] = worker[c] /\ thread'[c] = thread[c]
             /\ Fits(worker'[a], thread'[a])
  <2>1. Fits(worker[a], thread[a]) /\ thread[a].pc = "writing" /\ thread'[a] = NoThread
    BY <1>0, <1>8 DEF ThreadEnd
  <2>2. worker'[a] = worker[a] \/ worker'[a].pc = "building"
    BY <1>0, <1>8 DEF ThreadEnd, Workers
  <2>3. Fits(worker'[a], NoThread)
    BY <2>1, <2>2, Nulls DEF Fits
  <2> QED BY <1>0, <1>8, <2>1, <2>3 DEF ThreadEnd
<1>9. CASE UNCHANGED <<worker, thread>>
  BY <1>0, <1>9, <1>a
<1> QED
  BY <1>1, <1>2, <1>3, <1>4, <1>5, <1>6, <1>7, <1>8, <1>9
     DEF Next, WorkerStep, ThreadStep, Request, JobStep, ReaderStep, vars, buildVars, Lapse, EndAttempt, Cancel,
         Write, RequestRebuild, SaveIndex, Cleanup, CleanupInterrupted, Reconcile, ReadStart, ReadCollection,
         Answer, Reject
-----------------------------------------------------------------------------
(* Generations.                                                             *)

LEMMA LocatorsFirstKept ==
  ASSUME Types, ClaimsCounted, LocatorsFirst, GenerationsRecorded, [Next]_vars
  PROVE  LocatorsFirst'
<1> DEFINE Early(w) == w.pc \in {"none", "claimed", "begun", "sourced"}
           Blank(g) == \A k \in Kinds : g[k] = NoGeneration
<1> SUFFICES ASSUME NEW b \in Attempts, Early(worker'[b])
             PROVE  Blank(gen'[b])
  BY DEF LocatorsFirst
<1>0. /\ worker \in [Attempts -> Workers] /\ gen \in [Attempts -> [Kinds -> Generations]]
      /\ epoch \in [Jobs -> 0..MaxAttempts] /\ MaxAttempts \in Nat
      /\ Early(worker[b]) => Blank(gen[b])
  BY Constants DEF Types, JobTypes, SqlTypes, BuildTypes, LocatorsFirst
<1>1. ASSUME NEW j \in Jobs, Claim(j) PROVE Blank(gen'[b])
  <2>1. CASE b = <<j, epoch[j] + 1>>
    <3>1. b[2] > epoch[b[1]]
      BY <1>0, <1>1, <2>1 DEF Claim
    <3>2. worker[b] = NoWorker
      BY <3>1 DEF ClaimsCounted
    <3> QED BY <1>0, <1>1, <3>2, Nulls DEF Claim, sqlVars
  <2>2. CASE b # <<j, epoch[j] + 1>>
    BY <1>0, <1>1, <2>2 DEF Claim, sqlVars
  <2> QED BY <2>1, <2>2
<1>2. ASSUME NEW a \in Attempts, Begin(a) \/ ReadSources(a) PROVE Blank(gen'[b])
  <2>1. Early(worker[a]) /\ gen' = gen /\ (b # a => worker'[b] = worker[b])
    BY <1>0, <1>2 DEF Begin, ReadSources, sqlVars
  <2> QED BY <1>0, <2>1
<1>3. ASSUME NEW a \in Attempts, Prepare(a) PROVE Blank(gen'[b])
  <2>1. worker'[a].pc = "building"
    BY <1>3, Stages
  <2> QED BY <1>0, <1>3, <2>1 DEF Prepare
<1>4. ASSUME NEW a \in Attempts, StartBuild(a) \/ ThreadEnd(a) PROVE Blank(gen'[b])
  <2>1. (b # a => worker'[b] = worker[b]) /\ gen' = gen
    BY <1>0, <1>4 DEF StartBuild, ThreadEnd, sqlVars
  <2>2. worker'[a] = worker[a] \/ ~Early(worker'[a])
    BY <1>4, Stages
  <2> QED BY <1>0, <2>1, <2>2
<1>5. ASSUME NEW a \in Attempts, Publish(a) PROVE Blank(gen'[b])
  <2>1. b # a /\ worker'[b] = worker[b]
    BY <1>0, <1>5, Nulls DEF Publish
  <2>2. ASSUME NEW k \in Kinds PROVE b # head[k]
    <3>1. gen[b][k] = NoGeneration
      BY <1>0, <2>1
    <3>2. Recorded(b, k)
      BY DEF GenerationsRecorded
    <3> QED BY <3>1, <3>2 DEF Recorded, NoGeneration
  <2> QED BY <1>0, <1>5, <2>1, <2>2 DEF Publish
<1>6. ASSUME NEW a \in Attempts, FailAttempt(a) \/ Abandon(a) \/ Crash(a) PROVE Blank(gen'[b])
  <2>1. b # a /\ worker'[b] = worker[b]
    BY <1>0, <1>6, Nulls DEF FailAttempt, Abandon, Crash
  <2>2. gen'[b] = gen[b]
    BY <1>0, <1>6, <2>1 DEF FailAttempt, Abandon, Crash, sqlVars
  <2> QED BY <1>0, <2>1, <2>2
<1>7. ASSUME NEW a \in Attempts, NEW k \in Kinds, Cleanup(a, k) PROVE Blank(gen'[b])
  <2>1. gen[a][k] # NoGeneration /\ worker' = worker
    BY <1>7 DEF Cleanup, Reclaimable, NoGeneration
  <2>2. CASE b = a
    BY <1>0, <2>1, <2>2
  <2>3. CASE b # a
    BY <1>0, <1>7, <2>1, <2>3 DEF Cleanup
  <2> QED BY <2>2, <2>3
<1>8. CASE UNCHANGED <<worker, gen>>
  BY <1>0, <1>8
<1> QED
  BY <1>1, <1>2, <1>3, <1>4, <1>5, <1>6, <1>7, <1>8
     DEF Next, WorkerStep, ThreadStep, Request, JobStep, ReaderStep, vars, sqlVars, buildVars, Lapse, EndAttempt,
         Cancel, Write, RequestRebuild, SaveIndex, ThreadStart, CleanupInterrupted, Reconcile, ReadStart,
         ReadCollection, Answer, Reject

LEMMA GenerationsRecordedKept ==
  ASSUME Types, LocatorsFirst, GenerationsRecorded, [Next]_vars
  PROVE  GenerationsRecorded'
<1> SUFFICES ASSUME NEW b \in Attempts, NEW l \in Kinds
             PROVE  Recorded(b, l)'
  BY DEF GenerationsRecorded
<1>0. /\ gen \in [Attempts -> [Kinds -> Generations]] /\ gen[b][l] \in Generations
      /\ head \in [Kinds -> Attempts \cup {None}] /\ None \notin Attempts
      /\ Recorded(b, l)
  BY Constants DEF Types, SqlTypes, GenerationsRecorded
<1>1. ASSUME NEW a \in Attempts, Prepare(a) PROVE Recorded(b, l)'
  <2>1. UNCHANGED <<head, chroma, tombs>> /\ (b # a => gen'[b] = gen[b])
    BY <1>0, <1>1 DEF Prepare
  <2>2. b = a => gen[b][l] = NoGeneration
    BY <1>1 DEF Prepare, LocatorsFirst
  <2>3. b = a => gen'[b][l] = [status |-> "building", cleanup |-> "building"]
    BY <1>0, <1>1 DEF Prepare
  <2> QED BY <1>0, <2>1, <2>2, <2>3 DEF Recorded, NoGeneration
<1>2. ASSUME NEW a \in Attempts, Publish(a) PROVE Recorded(b, l)'
  <2>1. /\ UNCHANGED <<chroma, tombs>> /\ head'[l] = a
        /\ gen'[b][l] = IF b = a THEN [status |-> "ready", cleanup |-> "retained"]
                        ELSE IF b = head[l] THEN [status |-> "retired", cleanup |-> "pending"]
                        ELSE gen[b][l]
    BY <1>0, <1>2 DEF Publish
  <2> QED BY <1>0, <2>1 DEF Recorded
<1>3. ASSUME NEW a \in Attempts, FailAttempt(a) PROVE Recorded(b, l)'
  <2>1. UNCHANGED <<head, chroma, tombs>> /\ (b # a => gen'[b] = gen[b])
    BY <1>0, <1>3 DEF FailAttempt
  <2>2. b = a => gen'[b][l] = IF gen[b][l].status = "building"
                              THEN [status |-> "failed", cleanup |-> "pending"] ELSE gen[b][l]
    BY <1>0, <1>3 DEF FailAttempt
  <2> QED BY <1>0, <2>1, <2>2 DEF Recorded
<1>4. ASSUME NEW a \in Attempts, NEW k \in Kinds, Cleanup(a, k) PROVE Recorded(b, l)'
  <2>1. head' = head /\ tombs' = tombs \cup {<<a, k>>} /\ chroma' = chroma \ {<<a, k>>}
    BY <1>4 DEF Cleanup
  <2>2. CASE b = a /\ l = k
    <3>1. /\ gen'[b][l].cleanup = "deleted" /\ gen'[b][l].status \in {"failed", "retired"}
          /\ head[l] # b
      BY <1>0, <1>4, <2>2 DEF Cleanup, Reclaimable, Generations
    <3> QED BY <1>0, <2>1, <2>2, <3>1 DEF Recorded
  <2>3. CASE ~(b = a /\ l = k)
    <3>1. gen'[b][l] = gen[b][l]
      BY <1>0, <1>4, <2>3 DEF Cleanup
    <3> QED BY <1>0, <2>1, <2>3, <3>1 DEF Recorded
  <2> QED BY <2>2, <2>3
<1>5. ASSUME NEW a \in Attempts, NEW k \in Kinds, CleanupInterrupted(a, k) PROVE Recorded(b, l)'
  BY <1>0, <1>5 DEF CleanupInterrupted, sqlVars, Recorded
<1>6. ASSUME NEW a \in Attempts, ThreadStart(a) PROVE Recorded(b, l)'
  BY <1>0, <1>6 DEF ThreadStart, sqlVars, Recorded
<1>7. CASE UNCHANGED <<head, gen, chroma, tombs>>
  BY <1>0, <1>7 DEF Recorded
<1> QED
  BY <1>1, <1>2, <1>3, <1>4, <1>5, <1>6, <1>7
     DEF Next, WorkerStep, ThreadStep, Request, JobStep, ReaderStep, vars, sqlVars, buildVars, Claim, Lapse,
         EndAttempt, Cancel, Write, RequestRebuild, SaveIndex, Begin, ReadSources, StartBuild, Abandon, Crash,
         ThreadEnd, Reconcile, ReadStart, ReadCollection, Answer, Reject
-----------------------------------------------------------------------------
(* Revisions and sources.                                                   *)

LEMMA GateMoves ==
  ASSUME Types, [Next]_vars
  PROVE  /\ state.revision \in Nat
         /\ \/ state'.revision = state.revision
            \/ state'.revision = state.revision + 1
         /\ \/ state'.source = state.source /\ UNCHANGED manifest
            \/ \E a \in Attempts : Prepare(a)
<1>0. state \in UserStates /\ state.revision \in Nat
  BY DEF Types, SqlTypes, UserStates
<1> DEFINE Goal == /\ \/ state'.revision = state.revision
                      \/ state'.revision = state.revision + 1
                   /\ \/ state'.source = state.source /\ UNCHANGED manifest
                      \/ \E a \in Attempts : Prepare(a)
<1>1. ASSUME NEW j \in Jobs, UNCHANGED manifest,
             state' = [state EXCEPT !.status = "building", !.job = j, !.revision = @ + 1]
      PROVE  Goal
  BY <1>0, <1>1, GateCloses
<1>2. ASSUME NEW s \in {"building", "ready", "failed"}, UNCHANGED manifest,
             \/ state' = [state EXCEPT !.status = s]
             \/ state' = [state EXCEPT !.status = s, !.job = None]
      PROVE  Goal
  BY <1>0, <1>2 DEF UserStates
<1>3. ASSUME NEW a \in Attempts, Prepare(a) PROVE Goal
  BY <1>0, <1>3 DEF Prepare, UserStates
<1>4. ASSUME UNCHANGED <<state, manifest>> PROVE Goal
  BY <1>4
<1> HIDE DEF Goal
<1>5. ASSUME Request PROVE Goal
  BY <1>1, <1>2, <1>5 DEF Request, Write, RequestRebuild, SaveIndex, Queue
<1>6. ASSUME NEW a \in Attempts, Begin(a) PROVE Goal
  BY <1>1, <1>6, AttemptParts DEF Begin
<1>7. ASSUME NEW a \in Attempts, Publish(a) PROVE Goal
  BY <1>2, <1>7 DEF Publish
<1>8. ASSUME NEW a \in Attempts, FailAttempt(a) PROVE Goal
  BY <1>2, <1>4, <1>8 DEF FailAttempt
<1>9. ASSUME Reconcile PROVE Goal
  BY <1>2, <1>9 DEF Reconcile
<1>10. Goal
  BY <1>3, <1>4, <1>5, <1>6, <1>7, <1>8, <1>9
     DEF Next, WorkerStep, ThreadStep, JobStep, ReaderStep, vars, sqlVars, Claim, Lapse, EndAttempt, Cancel,
         ReadSources, StartBuild, Abandon, Crash, ThreadStart, ThreadEnd, Cleanup, CleanupInterrupted,
         ReadStart, ReadCollection, Answer, Reject
<1> QED BY <1>0, <1>10 DEF Goal

(* A worker that is at work was so before, under the same revision, or begins. *)
LEMMA WorkGoesOn ==
  ASSUME Types, [Next]_vars, NEW b \in Attempts, worker'[b].pc \in AtWork
  PROVE  \/ Begin(b)
         \/ worker[b].pc \in AtWork /\ worker'[b].revision = worker[b].revision
<1>0. worker \in [Attempts -> Workers]
  BY DEF Types, BuildTypes
<1> DEFINE Goal == \/ Begin(b)
                   \/ worker[b].pc \in AtWork /\ worker'[b].revision = worker[b].revision
<1>1. worker'[b] = worker[b] => Goal
  OBVIOUS
<1>2. ASSUME NEW j \in Jobs, Claim(j) PROVE Goal
  <2>1. worker' = [worker EXCEPT ![<<j, epoch[j] + 1>>] = [NoWorker EXCEPT !.pc = "claimed"]]
    BY <1>2 DEF Claim
  <2> QED BY <1>0, <1>1, <2>1, NewWorker DEF AtWork
<1>3. ASSUME NEW a \in Attempts,
             Begin(a) \/ ReadSources(a) \/ Prepare(a) \/ StartBuild(a) \/ ThreadEnd(a)
      PROVE  Goal
  <2>1. b # a => worker'[b] = worker[b]
    BY <1>0, <1>3 DEF Begin, ReadSources, Prepare, StartBuild, ThreadEnd
  <2>2. b = a /\ ~Begin(a) => worker[b].pc \in AtWork \/ worker'[b] = worker[b]
    BY <1>0, <1>3, Stages DEF ReadSources, Prepare, StartBuild, AtWork
  <2>3. ~Begin(a) => worker'[a].revision = worker[a].revision
    BY <1>3, Stages
  <2> QED BY <1>1, <1>3, <2>1, <2>2, <2>3
<1>4. ASSUME NEW a \in Attempts, Publish(a) \/ FailAttempt(a) \/ Abandon(a) \/ Crash(a) PROVE Goal
  <2>1. worker' = [worker EXCEPT ![a] = Gone]
    BY <1>4 DEF Publish, FailAttempt, Abandon, Crash
  <2> QED BY <1>0, <1>1, <2>1, Nulls DEF AtWork
<1> HIDE DEF Goal
<1>5. Goal
  BY <1>1, <1>2, <1>3, <1>4
     DEF Next, WorkerStep, ThreadStep, JobStep, Request, ReaderStep, vars, buildVars, Lapse, EndAttempt, Cancel,
         Write, RequestRebuild, SaveIndex, ThreadStart, Cleanup, CleanupInterrupted, Reconcile, ReadStart,
         ReadCollection, Answer, Reject
<1> QED BY <1>5 DEF Goal

LEMMA RevisionsCountKept == ASSUME Types, RevisionsCount, [Next]_vars PROVE RevisionsCount'
<1>0. \A b \in Attempts : worker[b].revision \in Nat
  BY DEF Types, BuildTypes, Workers
<1>1. state.revision \in Nat /\ state'.revision \in {state.revision, state.revision + 1}
  BY GateMoves
<1>2. ASSUME NEW a \in Attempts, Begin(a)
      PROVE  /\ worker'[a].revision = state.revision + 1 /\ state'.revision = state.revision + 1
             /\ \A b \in Attempts : Begin(b) => b = a
  <2>1. state'.revision = state.revision + 1
    BY <1>2, GateCloses, AttemptParts DEF Begin, Types, SqlTypes
  <2>2. \A b \in Attempts : Begin(b) => b = a
    <3>1. worker \in [Attempts -> Workers] /\ worker[a].pc = "claimed" /\ worker'[a].pc = "begun"
      BY <1>2, Stages DEF Begin, Types, BuildTypes
    <3> QED BY <3>1 DEF Begin
  <2> QED BY <1>2, <2>1, <2>2, Stages
<1>3. \A b \in Attempts : worker'[b].pc \in AtWork => worker'[b].revision <= state'.revision
  <2> SUFFICES ASSUME NEW b \in Attempts, worker'[b].pc \in AtWork
               PROVE  worker'[b].revision <= state'.revision
    OBVIOUS
  <2>1. CASE Begin(b)
    BY <1>1, <1>2, <2>1
  <2>2. CASE worker[b].pc \in AtWork /\ worker'[b].revision = worker[b].revision
    BY <1>0, <1>1, <2>2 DEF RevisionsCount
  <2> QED BY <2>1, <2>2, WorkGoesOn
<1>4. ASSUME NEW a \in Attempts, NEW b \in Attempts, worker'[a].pc \in AtWork, worker'[b].pc \in AtWork,
             worker'[a].revision = worker'[b].revision
      PROVE  a = b
  <2>1. CASE Begin(a) \/ Begin(b)
    BY <1>0, <1>1, <1>2, <1>4, <2>1, WorkGoesOn DEF RevisionsCount
  <2>2. CASE ~Begin(a) /\ ~Begin(b)
    BY <1>4, <2>2, WorkGoesOn DEF RevisionsCount
  <2> QED BY <2>1, <2>2
<1> QED BY <1>3, <1>4 DEF RevisionsCount

LEMMA SourcesNotedKept ==
  ASSUME Types, RevisionsCount, SourcesNoted, [Next]_vars
  PROVE  SourcesNoted'
<1> SUFFICES ASSUME NEW b \in Attempts, worker'[b].pc \in {"building", "waiting"}
             PROVE  /\ manifest'[b] = worker'[b].source
                    /\ state'.revision = worker'[b].revision => state'.source = worker'[b].source
  BY DEF SourcesNoted
<1>0. /\ worker \in [Attempts -> Workers] /\ manifest \in [Attempts -> 0..MaxSource] /\ state \in UserStates
      /\ \A c \in Attempts : worker[c].revision \in Nat
      /\ state.revision \in Nat /\ state'.revision \in {state.revision, state.revision + 1}
  BY GateMoves DEF Types, SqlTypes, BuildTypes, Workers
<1>1. ASSUME NEW a \in Attempts, Prepare(a)
      PROVE  /\ manifest'[b] = worker'[b].source
             /\ state'.revision = worker'[b].revision => state'.source = worker'[b].source
  <2>1. /\ state'.revision = state.revision /\ state'.source = worker[a].source
        /\ state.revision = worker[a].revision /\ worker[a].pc \in AtWork
        /\ manifest' = [manifest EXCEPT ![a] = worker[a].source]
    BY <1>0, <1>1 DEF Prepare, CheckState, UserStates, AtWork
  <2>2. CASE b = a
    BY <1>0, <1>1, <2>1, <2>2, Stages
  <2>3. CASE b # a
    <3>1. worker'[b] = worker[b]
      BY <1>0, <1>1, <2>3 DEF Prepare
    <3>2. worker[b].revision # state.revision
      BY <2>1, <2>3, <3>1 DEF RevisionsCount, AtWork
    <3> QED BY <1>0, <2>1, <2>3, <3>1, <3>2 DEF SourcesNoted
  <2> QED BY <2>2, <2>3
<1>2. ASSUME ~\E a \in Attempts : Prepare(a)
      PROVE  /\ worker[b].pc \in {"building", "waiting"}
             /\ worker'[b].revision = worker[b].revision /\ worker'[b].source = worker[b].source
  <2> DEFINE Goal == /\ worker[b].pc \in {"building", "waiting"}
                     /\ worker'[b].revision = worker[b].revision /\ worker'[b].source = worker[b].source
  <2>1. worker'[b] = worker[b] => Goal
    OBVIOUS
  <2> HIDE DEF Goal
  <2>2. ASSUME NEW a \in Attempts, NEW w, worker' = [worker EXCEPT ![a] = w],
               w.pc \notin {"building", "waiting"}
        PROVE  Goal
    BY <1>0, <2>1, <2>2
  <2>3. ASSUME NEW j \in Jobs, Claim(j) PROVE Goal
    <3>1. worker' = [worker EXCEPT ![<<j, epoch[j] + 1>>] = [NoWorker EXCEPT !.pc = "claimed"]]
      BY <2>3 DEF Claim
    <3> QED BY <1>0, <2>1, <3>1, NewWorker
  <2>4. ASSUME NEW a \in Attempts, Begin(a) \/ ReadSources(a) PROVE Goal
    <3>1. b # a => worker'[b] = worker[b]
      BY <1>0, <2>4 DEF Begin, ReadSources
    <3> QED BY <2>1, <2>4, <3>1, Stages
  <2>5. ASSUME NEW a \in Attempts, StartBuild(a) \/ ThreadEnd(a) PROVE Goal
    <3>1. (b # a => worker'[b] = worker[b]) /\ (StartBuild(a) => worker[a].pc = "building")
      BY <1>0, <2>5 DEF StartBuild, ThreadEnd
    <3> QED BY <2>1, <2>5, <3>1, Stages DEF Goal
  <2>6. ASSUME NEW a \in Attempts, Publish(a) \/ FailAttempt(a) \/ Abandon(a) \/ Crash(a) PROVE Goal
    <3>1. worker' = [worker EXCEPT ![a] = Gone]
      BY <2>6 DEF Publish, FailAttempt, Abandon, Crash
    <3> QED BY <2>2, <3>1, Nulls
  <2>7. Goal
    BY <1>2, <2>1, <2>3, <2>4, <2>5, <2>6
       DEF Next, WorkerStep, ThreadStep, JobStep, Request, ReaderStep, vars, buildVars, Lapse, EndAttempt,
           Cancel, Write, RequestRebuild, SaveIndex, ThreadStart, Cleanup, CleanupInterrupted, Reconcile,
           ReadStart, ReadCollection, Answer, Reject
  <2> QED BY <2>7 DEF Goal
<1>3. CASE ~\E a \in Attempts : Prepare(a)
  <2>1. worker[b].revision <= state.revision
    BY <1>2, <1>3 DEF RevisionsCount, AtWork
  <2>2. state'.source = state.source /\ manifest' = manifest
    BY <1>3, GateMoves
  <2> QED BY <1>0, <1>2, <1>3, <2>1, <2>2 DEF SourcesNoted
<1> QED BY <1>1, <1>3
-----------------------------------------------------------------------------
(* Collections.                                                             *)

(* A claim is in force from its grant on, and once it is not, it never is again. *)
LEMMA LivesOnce ==
  ASSUME Types, [Next]_vars, NEW b \in Attempts, Live(b)'
  PROVE  Live(b) \/ worker'[b].built = 0
<1>0. /\ phase \in [Jobs -> Phases] /\ epoch \in [Jobs -> 0..MaxAttempts] /\ lapsed \in [Jobs -> BOOLEAN]
      /\ worker \in [Attempts -> Workers] /\ b = <<b[1], b[2]>> /\ b[1] \in Jobs
  BY AttemptParts DEF Types, JobTypes, BuildTypes
<1>1. ASSUME NEW j \in Jobs, Claim(j) PROVE Live(b) \/ worker'[b].built = 0
  <2>1. CASE b[1] = j
    <3>1. b[2] = epoch[j] + 1
      BY <1>0, <1>1, <2>1 DEF Claim, Live
    <3> QED BY <1>0, <1>1, <2>1, <3>1, NewWorker DEF Claim
  <2>2. CASE b[1] # j
    BY <1>0, <1>1, <2>2 DEF Claim, Live
  <2> QED BY <2>1, <2>2
<1>2. ASSUME NEW j \in Jobs, Lapse(j) \/ EndAttempt(j) \/ Cancel(j) PROVE Live(b)
  BY <1>0, <1>2 DEF Lapse, EndAttempt, Cancel, Live
<1>3. CASE Request
  <2>1. UNCHANGED <<epoch, lapsed>> /\ phase'[b[1]] \in {"idle", phase[b[1]]}
    BY <1>0, <1>3 DEF Request, Write, RequestRebuild, SaveIndex, Queue, Submitted
  <2> QED BY <2>1 DEF Live
<1>4. ASSUME NEW a \in Attempts, Publish(a) PROVE Live(b)
  BY <1>0, <1>4 DEF Publish, Live
<1>5. CASE UNCHANGED jobVars
  BY <1>5 DEF jobVars, Live
<1> QED
  BY <1>1, <1>2, <1>3, <1>4, <1>5
     DEF Next, WorkerStep, ThreadStep, JobStep, ReaderStep, vars, jobVars, Begin, ReadSources, Prepare,
         StartBuild, FailAttempt, Abandon, Crash, ThreadStart, ThreadEnd, Cleanup, CleanupInterrupted,
         Reconcile, ReadStart, ReadCollection, Answer, Reject

(* BuiltStands, of one attempt. *)
Stands(a) ==
  /\ thread[a].pc = "writing" => <<a, thread[a].kind>> \in chroma
  /\ Live(a) => \A k \in Kinds : k <= worker[a].built => <<a, k>> \in chroma

LEMMA BuiltStandsKept ==
  ASSUME Types, ClaimsCounted, ThreadsFit, BuiltStands, [Next]_vars
  PROVE  BuiltStands'
<1> SUFFICES ASSUME NEW b \in Attempts
             PROVE  /\ thread'[b].pc = "writing" => <<b, thread'[b].kind>> \in chroma'
                    /\ Live(b)' => \A k \in Kinds : k <= worker'[b].built => <<b, k>> \in chroma'
  BY DEF BuiltStands
<1> DEFINE Goal == /\ thread'[b].pc = "writing" => <<b, thread'[b].kind>> \in chroma'
                   /\ Live(b)' => \A k \in Kinds : k <= worker'[b].built => <<b, k>> \in chroma'
<1>0. /\ worker \in [Attempts -> Workers] /\ thread \in [Attempts -> Threads]
      /\ Kinds = 1..Len(IndexKinds) /\ Len(IndexKinds) \in Nat /\ worker[b].built \in Nat
      /\ Stands(b)
  BY Constants DEF Types, BuildTypes, Workers, BuiltStands, Stands
<1>1. Live(b)' => Live(b) \/ worker'[b].built = 0
  BY LivesOnce
<1>2. ASSUME chroma \subseteq chroma', worker'[b].built \in {worker[b].built, 0},
             thread'[b] \in {thread[b], NoThread}
      PROVE  Goal
  BY <1>0, <1>1, <1>2, Nulls DEF Stands
<1>3. ASSUME NEW a \in Attempts, NEW k \in Kinds, Reclaimable(a, k), chroma' = chroma \ {<<a, k>>},
             UNCHANGED <<jobVars, worker, thread>>
      PROVE  Goal
  <2>1. Live(b)' <=> Live(b)
    BY <1>3 DEF Live, jobVars
  <2>2. b = a => ~Live(b) /\ ~(thread[b].pc = "writing" /\ thread[b].kind = k)
    BY <1>3 DEF Reclaimable
  <2> QED BY <1>0, <1>3, <2>1, <2>2 DEF Stands
<1>4. ASSUME NEW a \in Attempts, ThreadStart(a) PROVE Goal
  <2>1. CASE b # a \/ thread'[b] = NoThread
    <3>1. chroma \subseteq chroma' /\ worker' = worker /\ thread'[b] \in {thread[b], NoThread}
      BY <1>0, <1>4, <2>1 DEF ThreadStart
    <3> QED BY <1>2, <3>1
  <2>2. CASE b = a /\ thread'[b] # NoThread
    <3>1. /\ chroma' = chroma \cup {<<b, thread[b].kind>>} /\ worker' = worker
          /\ thread'[b].kind = thread[b].kind
      BY <1>0, <1>4, <2>2 DEF ThreadStart, Threads
    <3> QED BY <1>0, <1>1, <3>1 DEF Stands
  <2> QED BY <2>1, <2>2
<1>5. ASSUME NEW a \in Attempts, ThreadEnd(a) PROVE Goal
  <2>1. chroma' = chroma /\ thread'[b] \in {thread[b], NoThread} /\ thread[a].pc = "writing"
    BY <1>0, <1>5 DEF ThreadEnd
  <2>2. CASE worker'[b] = worker[b]
    BY <1>2, <2>1, <2>2
  <2>3. CASE worker'[b] # worker[b]
    <3>1. b = a
      BY <1>0, <1>5, <2>3 DEF ThreadEnd
    <3>2. worker[b].pc = "waiting" /\ worker'[b].built = worker[b].built + 1
      BY <1>5, <2>3, <3>1, Stages
    <3>3. thread[b].kind = worker[b].built + 1 /\ <<b, thread[b].kind>> \in chroma
      BY <1>0, <2>1, <3>1, <3>2 DEF ThreadsFit, Stands
    <3>4. Live(b)' => Live(b)
      BY <1>0, <1>1, <3>2
    <3>5. \A k \in Kinds : k <= worker'[b].built => k <= worker[b].built \/ k = thread[b].kind
      BY <1>0, <3>2, <3>3
    <3> QED BY <1>0, <2>1, <3>3, <3>4, <3>5, Nulls DEF Stands
  <2> QED BY <2>2, <2>3
<1> HIDE DEF Goal
<1>6. ASSUME NEW j \in Jobs, Claim(j) PROVE Goal
  <2>1. UNCHANGED <<thread, chroma>>
    BY <1>6 DEF Claim
  <2>2. worker'[b].built \in {worker[b].built, 0}
    <3>1. worker' = [worker EXCEPT ![<<j, epoch[j] + 1>>] = [NoWorker EXCEPT !.pc = "claimed"]]
      BY <1>6 DEF Claim
    <3> QED BY <1>0, <3>1, NewWorker
  <2> QED BY <1>2, <2>1, <2>2
<1>7. ASSUME NEW a \in Attempts, Begin(a) \/ ReadSources(a) \/ Prepare(a) PROVE Goal
  <2>1. UNCHANGED <<thread, chroma>>
    BY <1>7 DEF Begin, ReadSources, Prepare
  <2>2. worker'[b].built = worker[b].built
    <3>1. b # a => worker'[b] = worker[b]
      BY <1>0, <1>7 DEF Begin, ReadSources, Prepare
    <3> QED BY <1>7, <3>1, Stages
  <2> QED BY <1>2, <2>1, <2>2
<1>8. ASSUME NEW a \in Attempts, StartBuild(a) PROVE Goal
  <2>1. chroma' = chroma
    BY <1>8 DEF StartBuild
  <2>2. worker'[b].built = worker[b].built
    <3>1. b # a => worker'[b] = worker[b]
      BY <1>0, <1>8 DEF StartBuild
    <3> QED BY <1>8, <3>1, Stages
  <2>3. thread'[b] = thread[b] \/ thread'[b].pc = "queued"
    BY <1>0, <1>8 DEF StartBuild
  <2> QED BY <1>0, <1>1, <2>1, <2>2, <2>3 DEF Stands, Goal
<1>9. ASSUME NEW a \in Attempts, Publish(a) \/ FailAttempt(a) \/ Abandon(a) \/ Crash(a) PROVE Goal
  <2>1. /\ worker' = [worker EXCEPT ![a] = Gone] /\ chroma' = chroma
        /\ thread'[b] \in {thread[b], NoThread}
    BY <1>0, <1>9 DEF Publish, FailAttempt, Abandon, Crash
  <2> QED BY <1>0, <1>2, <2>1, Nulls
<1>10. ASSUME NEW a \in Attempts, NEW k \in Kinds, Cleanup(a, k) \/ CleanupInterrupted(a, k) PROVE Goal
  BY <1>3, <1>10 DEF Cleanup, CleanupInterrupted
<1>11. ASSUME UNCHANGED <<worker, thread, chroma>> PROVE Goal
  BY <1>2, <1>11
<1>12. Goal
  BY <1>4, <1>5, <1>6, <1>7, <1>8, <1>9, <1>10, <1>11
     DEF Next, WorkerStep, ThreadStep, JobStep, Request, ReaderStep, vars, buildVars, Lapse, EndAttempt, Cancel,
         Write, RequestRebuild, SaveIndex, Reconcile, ReadStart, ReadCollection, Answer, Reject
<1> QED BY <1>12 DEF Goal

-----------------------------------------------------------------------------
(* What is served.                                                          *)

LEMMA ReadyKept ==
  ASSUME Types, GenerationsRecorded, SourcesNoted, BuiltStands, ReadyIsServable, [Next]_vars
  PROVE  ReadyIsServable'
<1> SUFFICES ASSUME state'.status = "ready"
             PROVE  /\ Servable'
                    /\ \A k, l \in Kinds : head'[k] = head'[l]
                    /\ \A k \in Kinds : <<head'[k], k>> \in chroma'
  BY DEF ReadyIsServable
<1> DEFINE Goal == /\ Servable'
                   /\ \A k, l \in Kinds : head'[k] = head'[l]
                   /\ \A k \in Kinds : <<head'[k], k>> \in chroma'
<1>0. /\ state \in UserStates /\ gen \in [Attempts -> [Kinds -> Generations]]
      /\ head \in [Kinds -> Attempts \cup {None}] /\ None \notin Attempts
      /\ Kinds = 1..Len(IndexKinds)
  BY Constants DEF Types, SqlTypes
<1>1. ASSUME NEW a \in Attempts, Publish(a) PROVE Goal
  <2>1. /\ source' = source /\ manifest' = manifest /\ chroma' = chroma
        /\ state' = [state EXCEPT !.status = "ready", !.job = None]
        /\ \A k \in Kinds : head'[k] = a
        /\ \A k \in Kinds : gen'[a][k] = [status |-> "ready", cleanup |-> "retained"]
    BY <1>1 DEF Publish
  <2>2. /\ manifest[a] = source /\ state.source = source
        /\ Live(a) /\ worker[a].built = Len(IndexKinds)
    BY <1>1 DEF Publish, Current, Live, CheckState, SourcesNoted
  <2>3. \A k \in Kinds : <<a, k>> \in chroma
    <3>1. Len(IndexKinds) \in Nat
      BY Constants
    <3>2. \A k \in Kinds : k <= worker[a].built => <<a, k>> \in chroma
      BY <2>2 DEF BuiltStands
    <3> QED BY <1>0, <2>2, <3>1, <3>2
  <2>4. state'.source = source
    BY <1>0, <2>1, <2>2 DEF UserStates
  <2> QED BY <1>0, <2>1, <2>2, <2>3, <2>4 DEF Servable
<1>2. ASSUME state'.status = state.status, state'.source = state.source, UNCHANGED <<source, head, manifest>>,
             \A k \in Kinds : head[k] # None /\ gen[head[k]][k] = [status |-> "ready", cleanup |-> "retained"]
               => gen'[head[k]][k] = gen[head[k]][k],
             \A k \in Kinds : <<head[k], k>> \in chroma => <<head[k], k>> \in chroma'
      PROVE  Goal
  BY <1>2 DEF ReadyIsServable, Servable
<1> HIDE DEF Goal
<1>3. ASSUME NEW a \in Attempts, Begin(a) \/ Prepare(a) PROVE FALSE
  BY <1>0, <1>3 DEF Begin, Prepare, CheckState, UserStates
<1>4. ASSUME Request PROVE FALSE
  BY <1>0, <1>4 DEF Request, Write, RequestRebuild, SaveIndex, Queue, UserStates
<1>5. ASSUME Reconcile PROVE FALSE
  BY <1>0, <1>5 DEF Reconcile, UserStates
<1>6. ASSUME NEW a \in Attempts, FailAttempt(a) PROVE Goal
  <2>1. state' = state
    BY <1>0, <1>6 DEF FailAttempt, UserStates
  <2>2. \A k \in Kinds : head[k] # None /\ gen[head[k]][k] = [status |-> "ready", cleanup |-> "retained"]
          => gen'[head[k]][k] = gen[head[k]][k]
    BY <1>0, <1>6 DEF FailAttempt
  <2> QED BY <1>2, <1>6, <2>1, <2>2 DEF FailAttempt
<1>7. ASSUME NEW a \in Attempts, NEW k \in Kinds, Cleanup(a, k) PROVE Goal
  <2>1. head[k] # a
    BY <1>7 DEF Cleanup, Reclaimable
  <2>2. \A l \in Kinds : head[l] # None => gen'[head[l]][l] = gen[head[l]][l]
    BY <1>0, <1>7, <2>1 DEF Cleanup
  <2> QED BY <1>2, <1>7, <2>1, <2>2 DEF Cleanup
<1>8. ASSUME NEW a \in Attempts, NEW k \in Kinds, CleanupInterrupted(a, k) PROVE Goal
  BY <1>2, <1>8 DEF CleanupInterrupted, Reclaimable, sqlVars
<1>9. ASSUME UNCHANGED sqlVars, chroma \subseteq chroma' PROVE Goal
  BY <1>2, <1>9 DEF sqlVars
<1>10. Goal
  BY <1>1, <1>3, <1>4, <1>5, <1>6, <1>7, <1>8, <1>9
     DEF Next, WorkerStep, ThreadStep, JobStep, ReaderStep, vars, buildVars, sqlVars, Claim, Lapse, EndAttempt,
         Cancel, ReadSources, StartBuild, Abandon, Crash, ThreadStart, ThreadEnd, ReadStart, ReadCollection,
         Answer, Reject
<1> QED BY <1>10 DEF Goal
-----------------------------------------------------------------------------
(* The invariant.                                                           *)

IInv ==
  /\ Types /\ ClaimsCounted /\ ThreadsFit /\ LocatorsFirst /\ GenerationsRecorded
  /\ RevisionsCount /\ SourcesNoted /\ BuiltStands /\ ReadyIsServable

LEMMA InitInv == Init => IInv
<1> SUFFICES ASSUME Init PROVE IInv
  OBVIOUS
<1>1. Types
  BY InitTypes
<1>2. /\ \A a \in Attempts : worker[a] = NoWorker /\ thread[a] = NoThread /\ ~Live(a)
      /\ \A a \in Attempts, k \in Kinds : gen[a][k] = NoGeneration /\ head[k] # a
      /\ state.status = "failed"
  BY AttemptParts, Constants DEF Init, Live
<1>3. ClaimsCounted /\ ThreadsFit /\ LocatorsFirst
  BY <1>2, Nulls DEF ClaimsCounted, ThreadsFit, LocatorsFirst
<1>4. GenerationsRecorded
  BY <1>2 DEF GenerationsRecorded, Recorded, NoGeneration
<1>5. RevisionsCount /\ SourcesNoted /\ BuiltStands
  BY <1>2, Nulls DEF RevisionsCount, SourcesNoted, BuiltStands, AtWork
<1>6. ReadyIsServable
  BY <1>2 DEF ReadyIsServable
<1> QED BY <1>1, <1>3, <1>4, <1>5, <1>6 DEF IInv

LEMMA NextInv == IInv /\ [Next]_vars => IInv'
BY TypesKept, ClaimsCountedKept, ThreadsFitKept, LocatorsFirstKept, GenerationsRecordedKept,
   RevisionsCountKept, SourcesNotedKept, BuiltStandsKept, ReadyKept DEF IInv

LEMMA Invariant == Spec => []IInv
BY InitInv, NextInv, PTL DEF Spec

(* The rows of a user, the workers, the threads and the collections keep      *)
(* their types, and no counter leaves its range (RagUserState, RagArtifact).  *)
THEOREM ProjectionTyped == Spec => []TypeOK
<1>1. IInv => TypeOK
  BY TypesAreTypes DEF IInv
<1> QED BY <1>1, Invariant, PTL

(* A state that says ready is served from one publication, built from the     *)
(* sources as they are now, and its collections exist (publish, read_snapshot).*)
THEOREM ReadyIsServableHolds == Spec => []ReadyIsServable
<1>1. IInv => ReadyIsServable
  BY DEF IInv
<1> QED BY <1>1, Invariant, PTL

(* Exactly the generations that the heads name are ready and retained.        *)
THEOREM RetainedIsActiveHolds == Spec => []RetainedIsActive
<1>1. IInv => RetainedIsActive
  BY DEF IInv, GenerationsRecorded, Recorded, RetainedIsActive
<1> QED BY <1>1, Invariant, PTL

(* No thread, however late, brings a collection back that was recorded as     *)
(* deleted.                                                                   *)
THEOREM DeletedIsGoneHolds == Spec => []DeletedIsGone
<1>1. IInv => DeletedIsGone
  BY DEF IInv, GenerationsRecorded, Recorded, DeletedIsGone
<1> QED BY <1>1, Invariant, PTL

(* A build is called failed by its own attempt, or after its job has ended    *)
(* (_fail, reconcile_pending).                                                *)
THEOREM FailureIsOwnHolds == Spec => FailureIsOwn
<1> DEFINE Own == state.status = "building" /\ state'.status = "failed" =>
                    \/ phase[state.job] \in Verdicts
                    \/ \E a \in Attempts : /\ a[1] = state.job /\ Current(a)
                                          /\ worker[a].revision = state.revision
<1>1. ASSUME IInv, [Next]_vars, state.status = "building", state'.status = "failed" PROVE Own
  <2>0. state \in UserStates
    BY <1>1 DEF IInv, Types, SqlTypes
  <2>1. ASSUME NEW a \in Attempts, FailAttempt(a) PROVE Own
    BY <2>0, <2>1, <1>1 DEF FailAttempt
  <2>2. CASE Reconcile
    BY <2>2 DEF Reconcile
  <2>3. ASSUME NEW a \in Attempts, Begin(a) \/ Prepare(a) \/ Publish(a) PROVE FALSE
    BY <2>0, <2>3, <1>1 DEF Begin, Prepare, Publish, UserStates
  <2>4. ASSUME Request PROVE FALSE
    BY <2>0, <2>4, <1>1 DEF Request, Write, RequestRebuild, SaveIndex, Queue, UserStates
  <2>5. ASSUME UNCHANGED state PROVE FALSE
    BY <2>5, <1>1
  <2> HIDE DEF Own
  <2> QED
    BY <1>1, <2>1, <2>2, <2>3, <2>4, <2>5
       DEF Next, WorkerStep, ThreadStep, JobStep, ReaderStep, vars, buildVars, sqlVars, Claim, Lapse,
           EndAttempt, Cancel, ReadSources, StartBuild, Abandon, Crash, ThreadStart, ThreadEnd, Cleanup,
           CleanupInterrupted, ReadStart, ReadCollection, Answer, Reject
<1>2. IInv /\ [Next]_vars => [Own]_vars
  BY <1>1
<1> QED BY <1>2, Invariant, PTL DEF Spec, FailureIsOwn

(* What a reader answers with, after reading in several steps without a lock, *)
(* is from the publication in force when it answers (assert_current).         *)
THEOREM AnswersAreCurrentHold == Spec => AnswersAreCurrent
<1> DEFINE Fresh == \A r \in Readers : reader'[r] = Answered /\ reader[r] # Answered =>
                      /\ state.status = "ready"
                      /\ reader[r].source = source
                      /\ \A k \in Kinds : head[k] = reader[r].head[k] /\ <<head[k], k>> \in chroma
<1>1. ASSUME IInv, [Next]_vars, NEW r \in Readers, reader'[r] = Answered, reader[r] # Answered
      PROVE  /\ state.status = "ready"
             /\ reader[r].source = source
             /\ \A k \in Kinds : head[k] = reader[r].head[k] /\ <<head[k], k>> \in chroma
  <2>0. reader \in [Readers -> Queries]
    BY <1>1 DEF IInv, Types, ReaderTypes
  <2>1. CASE Answer(r)
    BY <2>1, <1>1 DEF Answer, SameToken, Servable, IInv, ReadyIsServable
  <2>2. ASSUME NEW q \in Readers, ReadStart(q) \/ Reject(q) \/ Answer(q) PROVE q = r /\ Answer(r)
    BY <2>0, <2>2, <1>1, Nulls DEF ReadStart, Reject, Answer
  <2>3. ASSUME NEW q \in Readers, NEW k \in Kinds, ReadCollection(q, k) PROVE FALSE
    <3>1. q = r
      BY <2>0, <2>3, <1>1 DEF ReadCollection
    <3>2. reader[r].pc = "reading" /\ reader'[r].pc \in {"reading", "idle"}
      BY <2>0, <2>3, <3>1, Nulls DEF ReadCollection, Queries
    <3> QED BY <3>2, <1>1, Nulls
  <2>4. ASSUME UNCHANGED reader PROVE FALSE
    BY <2>4, <1>1
  <2> QED
    BY <1>1, <2>1, <2>2, <2>3, <2>4
       DEF Next, WorkerStep, ThreadStep, JobStep, Request, ReaderStep, vars, Claim, Lapse, EndAttempt, Cancel,
           Write, RequestRebuild, SaveIndex, Begin, ReadSources, Prepare, StartBuild, Publish, FailAttempt,
           Abandon, Crash, ThreadStart, ThreadEnd, Cleanup, CleanupInterrupted, Reconcile
<1>2. IInv /\ [Next]_vars => [Fresh]_vars
  BY <1>1
<1> QED BY <1>2, Invariant, PTL DEF Spec, AnswersAreCurrent
-----------------------------------------------------------------------------
(* The jobs.                                                                *)

Moved(j, from, to) == phase[j] \in from /\ phase'[j] = to /\ epoch'[j] = epoch[j]

(* What a step does to a job, in the words of JobLifecycle. *)
Follows(j) ==
  \/ phase'[j] = phase[j] /\ epoch'[j] = epoch[j]
  \/ Moved(j, {"absent"}, "idle")
  \/ phase[j] = "idle" /\ phase'[j] = "held" /\ epoch[j] < MaxAttempts /\ epoch'[j] = epoch[j] + 1
  \/ Moved(j, {"held"}, "idle") /\ epoch[j] < MaxAttempts
  \/ Moved(j, {"held"}, "succeeded") \/ Moved(j, {"held"}, "dead_letter") \/ Moved(j, {"held"}, "revoked")
  \/ Moved(j, {"idle", "revoked"}, "cancelled")

LEMMA FollowsIsAStep ==
  ASSUME NEW j \in Jobs, Follows(j)
  PROVE  Lifecycle!JobStep(j)
BY DEF Follows, Moved, Lifecycle!JobStep, Lifecycle!Submit, Lifecycle!Grant, Lifecycle!Release,
       Lifecycle!Commit, Lifecycle!Bury, Lifecycle!Revoke, Lifecycle!Stop, Lifecycle!Rests,
       Lifecycle!Moves, Lifecycle!SameEpoch

LEMMA EveryJobFollows ==
  ASSUME Types, [Next]_vars, NEW j \in Jobs
  PROVE  Follows(j)
<1>0. phase \in [Jobs -> Phases] /\ epoch \in [Jobs -> 0..MaxAttempts]
  BY DEF Types, JobTypes
<1>1. ASSUME NEW i \in Jobs, Claim(i) PROVE Follows(j)
  BY <1>0, <1>1 DEF Claim, Follows
<1>2. ASSUME NEW i \in Jobs, Lapse(i) \/ EndAttempt(i) \/ Cancel(i) PROVE Follows(j)
  BY <1>0, <1>2 DEF Lapse, EndAttempt, Cancel, Follows, Moved
<1>3. ASSUME NEW new \in SUBSET Jobs, Submitted(new), \A i \in new : phase[i] = "absent", epoch' = epoch
      PROVE  Follows(j)
  BY <1>0, <1>3 DEF Submitted, Follows, Moved
<1>4. CASE Request
  <2>1. ASSUME NEW first \in Jobs, NEW others \in SUBSET Jobs, Write(first, others) PROVE Follows(j)
    BY <1>3, <2>1 DEF Write
  <2>2. ASSUME NEW fresh \in Jobs, Queue(fresh), epoch' = epoch PROVE Follows(j)
    <3>1. CASE UNCHANGED phase
      BY <2>2, <3>1 DEF Follows
    <3>2. CASE Submitted({fresh}) /\ phase[fresh] = "absent"
      BY <1>3, <2>2, <3>2
    <3> QED BY <2>2, <3>1, <3>2 DEF Queue
  <2> QED BY <1>4, <2>1, <2>2 DEF Request, RequestRebuild, SaveIndex
<1>5. ASSUME NEW a \in Attempts, Publish(a) PROVE Follows(j)
  BY <1>0, <1>5 DEF Publish, Current, Follows, Moved
<1>6. CASE UNCHANGED <<phase, epoch>>
  BY <1>6 DEF Follows
<1> QED
  BY <1>1, <1>2, <1>4, <1>5, <1>6
     DEF Next, WorkerStep, ThreadStep, JobStep, ReaderStep, vars, jobVars, Begin, ReadSources, Prepare,
         StartBuild, FailAttempt, Abandon, Crash, ThreadStart, ThreadEnd, Cleanup, CleanupInterrupted,
         Reconcile, ReadStart, ReadCollection, Answer, Reject

(* The jobs that the projection relies on are those that JobQueue provides,   *)
(* and a publication is the success of a claim in force.                      *)
THEOREM JobsFollowLifecycleHolds == Spec => JobsFollowLifecycle
<1>1. Init => Lifecycle!Init
  BY DEF Init, Lifecycle!Init
<1>2. IInv /\ [Next]_vars => [Lifecycle!Next]_Lifecycle!lifecycleVars
  BY EveryJobFollows, FollowsIsAStep DEF IInv, Lifecycle!Next
<1> QED BY <1>1, <1>2, Invariant, PTL DEF Spec, JobsFollowLifecycle, Lifecycle!Spec
-----------------------------------------------------------------------------
(* Nothing waits for nobody.                                                *)

Unsettled(p) == p \notin {"absent", "succeeded"}

(* A job that nobody holds and that has not ended has an attempt left; the job *)
(* that the state names has been enqueued, and has not succeeded, because the  *)
(* publication that makes it succeed takes it out of the state.                *)
Enqueued ==
  /\ \A j \in Jobs : phase[j] \in {"absent", "idle"} => epoch[j] < MaxAttempts
  /\ state.job # None => Unsettled(phase[state.job])

LEMMA OnlyPublicationSucceeds ==
  ASSUME Types, [Next]_vars, NEW j \in Jobs, phase'[j] = "succeeded", phase[j] # "succeeded"
  PROVE  \E a \in Attempts : Publish(a)
<1>0. phase \in [Jobs -> Phases]
  BY DEF Types, JobTypes
<1>1. phase' # phase
  OBVIOUS
<1>2. ASSUME NEW new, Submitted(new) PROVE FALSE
  BY <1>0, <1>2 DEF Submitted
<1>3. ASSUME NEW i \in Jobs, JobStep(i) PROVE FALSE
  BY <1>0, <1>1, <1>3 DEF JobStep, Claim, Lapse, EndAttempt, Cancel
<1>4. ~Request
  BY <1>1, <1>2 DEF Request, Write, RequestRebuild, SaveIndex, Queue
<1> QED
  BY <1>1, <1>3, <1>4
     DEF Next, WorkerStep, ThreadStep, ReaderStep, vars, jobVars, Begin, ReadSources, Prepare, StartBuild,
         FailAttempt, Abandon, Crash, ThreadStart, ThreadEnd, Cleanup, CleanupInterrupted, Reconcile,
         ReadStart, ReadCollection, Answer, Reject

LEMMA EnqueuedKept == ASSUME Types, Enqueued, [Next]_vars PROVE Enqueued'
<1>0. /\ phase \in [Jobs -> Phases] /\ epoch \in [Jobs -> 0..MaxAttempts]
      /\ state \in UserStates /\ MaxAttempts \in Nat /\ None \notin Jobs
  BY Constants DEF Types, JobTypes, SqlTypes
<1>1. \A j \in Jobs : phase'[j] \in {"absent", "idle"} => epoch'[j] < MaxAttempts
  BY <1>0, EveryJobFollows DEF Follows, Moved, Enqueued
<1>2. ASSUME NEW a \in Attempts, Publish(a) PROVE state'.job = None
  BY <1>0, <1>2 DEF Publish, UserStates
<1>3. ASSUME NEW j \in Jobs, phase'[j] = "succeeded", phase[j] # "succeeded"
      PROVE  \E a \in Attempts : Publish(a)
  BY <1>0, <1>3, OnlyPublicationSucceeds
<1>4. ASSUME NEW j \in Jobs, Unsettled(phase[j]) PROVE state'.job = None \/ Unsettled(phase'[j])
  <2>1. phase'[j] # "absent"
    BY <1>4, EveryJobFollows DEF Follows, Moved, Unsettled
  <2> QED BY <1>2, <1>3, <1>4, <2>1 DEF Unsettled
<1> DEFINE Goal == state'.job # None => Unsettled(phase'[state'.job])
<1>5. ASSUME state'.job \in {state.job, None} PROVE Goal
  BY <1>0, <1>4, <1>5 DEF Enqueued, UserStates
<1>6. ASSUME NEW j \in Jobs, NEW new, Submitted(new), j \in new,
             state' = [state EXCEPT !.status = "building", !.job = j, !.revision = @ + 1]
      PROVE  Goal
  BY <1>0, <1>6, GateCloses DEF Submitted, Unsettled
<1>7. ASSUME NEW fresh \in Jobs, Queue(fresh) PROVE Goal
  <2>1. CASE state' = [state EXCEPT !.status = "building"]
    BY <1>0, <1>5, <2>1 DEF UserStates
  <2> QED BY <1>6, <1>7, <2>1 DEF Queue
<1>8. ASSUME NEW first \in Jobs, NEW others \in SUBSET Jobs, Write(first, others) PROVE Goal
  BY <1>6, <1>8 DEF Write
<1>9. ASSUME NEW a \in Attempts, Begin(a) PROVE Goal
  <2>1. a[1] \in Jobs /\ phase[a[1]] = "held"
    BY <1>9, AttemptParts DEF Begin, Current
  <2>2. state'.job = a[1]
    BY <1>0, <1>9, <2>1, GateCloses DEF Begin
  <2> QED BY <1>4, <2>1, <2>2 DEF Unsettled
<1>10. ASSUME NEW a \in Attempts, Prepare(a) \/ Publish(a) \/ FailAttempt(a) PROVE Goal
  <2>1. state'.job \in {state.job, None}
    BY <1>0, <1>10 DEF Prepare, Publish, FailAttempt, UserStates
  <2> QED BY <1>5, <2>1
<1>11. ASSUME Reconcile PROVE Goal
  <2>1. state'.job = state.job
    BY <1>0, <1>11 DEF Reconcile, UserStates
  <2> QED BY <1>5, <2>1
<1>12. ASSUME UNCHANGED state PROVE Goal
  BY <1>5, <1>12
<1> HIDE DEF Goal
<1>13. Goal
  BY <1>7, <1>8, <1>9, <1>10, <1>11, <1>12
     DEF Next, WorkerStep, ThreadStep, JobStep, ReaderStep, Request, RequestRebuild, SaveIndex, vars,
         buildVars, sqlVars, Claim, Lapse, EndAttempt, Cancel, ReadSources, StartBuild, Abandon, Crash,
         ThreadStart, ThreadEnd, Cleanup, CleanupInterrupted, ReadStart, ReadCollection, Answer, Reject
<1> QED BY <1>1, <1>13 DEF Enqueued, Goal

(* Whoever closes the gate of a user's sources leaves it a job that will open *)
(* it again, or whose end the reconciler sees (queue_locked, _after_flush,    *)
(* rebuild, reconcile_pending).                                               *)
THEOREM GateHasAnOwnerHolds == Spec => []GateHasAnOwner
<1>1. Init => Enqueued
  BY Constants, ProjectionAssumption DEF Init, Enqueued
<1>2. IInv /\ Enqueued /\ [Next]_vars => Enqueued'
  BY EnqueuedKept DEF IInv
<1>3. IInv /\ Enqueued => GateHasAnOwner
  BY DEF IInv, Types, SqlTypes, UserStates, Unsettled, Enqueued, GateHasAnOwner
<1> QED BY <1>1, <1>2, <1>3, Invariant, PTL DEF Spec

(* The fates of a generation and of its locator go together, and nothing is   *)
(* written to Chroma for a generation that has no locator.                    *)
Fates == {<<"none", "none">>, <<"building", "building">>, <<"ready", "retained">>,
          <<"failed", "pending">>, <<"retired", "pending">>,
          <<"failed", "deleted">>, <<"retired", "deleted">>}

Located(a, k) ==
  /\ <<gen[a][k].status, gen[a][k].cleanup>> \in Fates
  /\ <<a, k>> \in chroma \/ thread[a].pc # "none" \/ worker[a].pc \in {"building", "waiting"}
       => gen[a][k].cleanup # "none"

AllLocated == \A a \in Attempts, k \in Kinds : Located(a, k)

LEMMA AllLocatedKept ==
  ASSUME Types, ThreadsFit, AllLocated, [Next]_vars
  PROVE  AllLocated'
<1> SUFFICES ASSUME NEW b \in Attempts, NEW l \in Kinds
             PROVE  Located(b, l)'
  BY DEF AllLocated
<1>0. /\ gen \in [Attempts -> [Kinds -> Generations]] /\ gen[b][l] \in Generations
      /\ worker \in [Attempts -> Workers] /\ thread \in [Attempts -> Threads]
      /\ Located(b, l)
  BY DEF Types, SqlTypes, BuildTypes, AllLocated
<1> DEFINE Begun  == <<b, l>> \in chroma \/ thread[b].pc # "none" \/ worker[b].pc \in {"building", "waiting"}
           Persist == gen'[b][l].cleanup = "none" => gen[b][l].cleanup = "none"
           Course == <<gen'[b][l].status, gen'[b][l].cleanup>> \in Fates
<1>1. ASSUME NEW a \in Attempts, Prepare(a) PROVE Located(b, l)'
  <2>1. /\ UNCHANGED <<chroma, thread>>
        /\ b # a => gen'[b] = gen[b] /\ worker'[b] = worker[b]
    BY <1>0, <1>1 DEF Prepare
  <2>2. b = a => gen'[b][l] = [status |-> "building", cleanup |-> "building"]
    BY <1>0, <1>1 DEF Prepare
  <2> QED BY <1>0, <2>1, <2>2 DEF Located, Fates
<1>2. ASSUME NEW a \in Attempts, Publish(a) PROVE Located(b, l)'
  <2>1. /\ UNCHANGED <<chroma, thread>>
        /\ gen'[b][l] = IF b = a THEN [status |-> "ready", cleanup |-> "retained"]
                        ELSE IF b = head[l] THEN [status |-> "retired", cleanup |-> "pending"]
                        ELSE gen[b][l]
        /\ b # a => worker'[b] = worker[b]
    BY <1>0, <1>2 DEF Publish
  <2> QED BY <1>0, <2>1 DEF Located, Fates
<1>3. ASSUME NEW a \in Attempts, FailAttempt(a) PROVE Located(b, l)'
  <2>1. /\ UNCHANGED <<chroma, thread>>
        /\ b # a => gen'[b] = gen[b] /\ worker'[b] = worker[b]
        /\ b = a => worker'[b] = Gone
    BY <1>0, <1>3 DEF FailAttempt
  <2>2. b = a => gen'[b][l] = IF gen[b][l].status = "building"
                              THEN [status |-> "failed", cleanup |-> "pending"] ELSE gen[b][l]
    BY <1>0, <1>3 DEF FailAttempt
  <2> QED BY <1>0, <2>1, <2>2, Nulls DEF Located, Fates
<1>4. ASSUME NEW a \in Attempts, NEW k \in Kinds, Cleanup(a, k) PROVE Located(b, l)'
  <2>1. UNCHANGED <<worker, thread>> /\ chroma' \subseteq chroma
    BY <1>4 DEF Cleanup
  <2>2. CASE b = a /\ l = k
    <3>1. /\ gen'[b][l].cleanup = "deleted" /\ gen'[b][l].status \in {"failed", "retired"}
      BY <1>0, <1>4, <2>2 DEF Cleanup, Reclaimable, Generations
    <3> QED BY <3>1 DEF Located, Fates
  <2>3. CASE ~(b = a /\ l = k)
    <3>1. gen'[b][l] = gen[b][l]
      BY <1>0, <1>4, <2>3 DEF Cleanup
    <3> QED BY <1>0, <2>1, <3>1 DEF Located
  <2> QED BY <2>2, <2>3
<1>5. ASSUME NEW a \in Attempts, NEW k \in Kinds, CleanupInterrupted(a, k) PROVE Located(b, l)'
  BY <1>0, <1>5 DEF CleanupInterrupted, sqlVars, Located
<1>6. ASSUME NEW a \in Attempts, ThreadStart(a) PROVE Located(b, l)'
  <2>1. thread[a].pc = "queued" /\ UNCHANGED <<gen, worker>>
    BY <1>6 DEF ThreadStart, sqlVars
  <2>2. b # a => thread'[b] = thread[b] /\ (<<b, l>> \in chroma' => <<b, l>> \in chroma)
    BY <1>0, <1>6 DEF ThreadStart
  <2> QED BY <1>0, <2>1, <2>2 DEF Located
<1>7. ASSUME NEW a \in Attempts, StartBuild(a) \/ ThreadEnd(a) PROVE Located(b, l)'
  <2>1. UNCHANGED <<gen, chroma>> /\ (b # a => thread'[b] = thread[b] /\ worker'[b] = worker[b])
    BY <1>0, <1>7 DEF StartBuild, ThreadEnd, sqlVars
  <2>2. worker[a].pc \in {"building", "waiting"} \/ thread[a].pc = "writing"
    BY <1>7 DEF StartBuild, ThreadEnd
  <2> QED BY <1>0, <2>1, <2>2 DEF Located
<1>8. ASSUME UNCHANGED <<gen, chroma>>,
             thread'[b].pc # "none" => thread'[b] = thread[b],
             worker'[b].pc \in {"building", "waiting"} => worker'[b] = worker[b]
      PROVE  Located(b, l)'
  BY <1>0, <1>8 DEF Located
<1>9. ASSUME NEW j \in Jobs, Claim(j) PROVE Located(b, l)'
  <2>1. worker' = [worker EXCEPT ![<<j, epoch[j] + 1>>] = [NoWorker EXCEPT !.pc = "claimed"]]
    BY <1>9 DEF Claim
  <2>2. worker'[b].pc \in {"building", "waiting"} => worker'[b] = worker[b]
    BY <1>0, <2>1, NewWorker
  <2> QED BY <1>8, <1>9, <2>2 DEF Claim, sqlVars
<1>10. ASSUME NEW a \in Attempts, Begin(a) \/ ReadSources(a) \/ Abandon(a) \/ Crash(a)
       PROVE  Located(b, l)'
  <2>1. /\ UNCHANGED <<gen, chroma>> /\ (b # a => worker'[b] = worker[b] /\ thread'[b] = thread[b])
        /\ thread'[a] \in {thread[a], NoThread}
    BY <1>0, <1>10 DEF Begin, ReadSources, Abandon, Crash, sqlVars
  <2>2. worker'[a].pc \notin {"building", "waiting"}
    BY <1>0, <1>10, Stages, Nulls DEF Begin, ReadSources, Abandon, Crash
  <2> QED BY <1>8, <2>1, <2>2, Nulls
<1>11. CASE UNCHANGED <<gen, chroma, thread, worker>>
  BY <1>8, <1>11
<1> QED
  BY <1>1, <1>2, <1>3, <1>4, <1>5, <1>6, <1>7, <1>9, <1>10, <1>11
     DEF Next, WorkerStep, ThreadStep, Request, JobStep, ReaderStep, vars, sqlVars, buildVars, Lapse,
         EndAttempt, Cancel, Write, RequestRebuild, SaveIndex, Reconcile, ReadStart, ReadCollection,
         Answer, Reject

(* Whatever a worker, a thread or a cleanup that stopped half way left in     *)
(* Chroma, the cleanup can find: locators are durable before any write.       *)
THEOREM NoneIsLostEver == Spec => []NoneIsLost
<1>1. Init => AllLocated
  BY Nulls DEF Init, AllLocated, Located, Fates, NoGeneration
<1>2. IInv /\ AllLocated /\ [Next]_vars => AllLocated'
  BY AllLocatedKept DEF IInv
<1>3. IInv /\ AllLocated => NoneIsLost
  <2> SUFFICES ASSUME IInv, AllLocated, NEW a \in Attempts, NEW k \in Kinds,
                      <<a, k>> \in chroma, head[k] # a, ~Live(a),
                      thread[a] # [kind |-> k, pc |-> "writing"]
               PROVE  Reclaimable(a, k)
    BY DEF NoneIsLost
  <2>1. Recorded(a, k) /\ Located(a, k)
    BY DEF IInv, GenerationsRecorded, AllLocated
  <2>2. gen[a][k].cleanup \notin {"none", "retained", "deleted"}
    BY <2>1 DEF Recorded, Located
  <2>3. gen[a][k].status \in {"building", "failed", "retired"}
    BY <2>1, <2>2 DEF Located, Fates
  <2>4. ~(thread[a].pc = "writing" /\ thread[a].kind = k)
    BY DEF IInv, Types, BuildTypes, Threads
  <2> QED BY <2>2, <2>3, <2>4 DEF Reclaimable
<1> QED BY <1>1, <1>2, <1>3, Invariant, PTL DEF Spec
=============================================================================
