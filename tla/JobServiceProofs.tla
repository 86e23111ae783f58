-------------------------- MODULE JobServiceProofs --------------------------
(***************************************************************************)
(* The two users of the job table, for every set of jobs, processes and    *)
(* producers.  First JobRunner: it implements JobQueue, so that all of     *)
(* JobTableProofs is true of the running service, and the table, its       *)
(* handlers and its counters tell one story.  Then JobAdmission.           *)
(***************************************************************************)
EXTENDS JobRunner, JobAdmission, FiniteSetTheorems, TLAPS

T == INSTANCE JobTableProofs

LEMMA Config == T!ConfigAssumption /\ T!TableAssumption
BY RunnerAssumption DEF Table!ConfigAssumption, Table!TableAssumption, T!ConfigAssumption,
   T!TableAssumption

(* The transactions of JobQueue, named as JobRunner and as JobTableProofs    *)
(* name them.                                                                *)
LEMMA SameSets ==
  /\ Table!Lags = T!Lags /\ Table!Leased = T!Leased /\ Table!Terminal = T!Terminal
  /\ Table!AttemptNumbers = T!AttemptNumbers
  /\ T!Lags = 0..MaxLag /\ T!AttemptNumbers = 1..MaxAttempts
  /\ T!Leased = {"leased", "running", "cancel_requested"}
BY DEF Table!Lags, T!Lags, Table!Leased, T!Leased, Table!Terminal, T!Terminal,
   Table!AttemptNumbers, T!AttemptNumbers

LEMMA SameInit == Table!Init <=> T!Init
BY SameSets DEF Table!Init, T!Init, Table!NoRow, T!NoRow, Table!NoAttempt, T!NoAttempt,
   Table!NoLease, T!NoLease

LEMMA SameFence ==
  ASSUME NEW j, NEW o, NEW t, NEW lag, NEW statuses
  PROVE  Table!Fenced(j, o, t, lag, statuses) <=> T!Fenced(j, o, t, lag, statuses)
BY DEF Table!Fenced, T!Fenced

LEMMA SameFailure ==
  ASSUME NEW r, NEW permanent, NEW lag
  PROVE  Table!AfterFailure(r, permanent, lag) = T!AfterFailure(r, permanent, lag)
BY DEF Table!AfterFailure, T!AfterFailure, Table!Unleased, T!Unleased, Table!NoLease, T!NoLease,
   Table!RetryDelay, T!RetryDelay

LEMMA SameCalls ==
  ASSUME NEW j, NEW o, NEW t, NEW lag, NEW permanent
  PROVE  /\ Table!Start(j, o, t, lag) <=> T!Start(j, o, t, lag)
         /\ Table!Heartbeat(j, o, t, lag) <=> T!Heartbeat(j, o, t, lag)
         /\ Table!Succeed(j, o, t, lag) <=> T!Succeed(j, o, t, lag)
         /\ Table!Fail(j, o, t, permanent, lag) <=> T!Fail(j, o, t, permanent, lag)
<1>1. \A rows, out : Table!OutcomeByToken(rows, t, out) = T!OutcomeByToken(rows, t, out)
  BY SameSets DEF Table!OutcomeByToken, T!OutcomeByToken
<1>2. \A rows, m, out : Table!OutcomeByNumber(rows, m, out) = T!OutcomeByNumber(rows, m, out)
  BY SameSets DEF Table!OutcomeByNumber, T!OutcomeByNumber, Table!NoAttempt, T!NoAttempt
<1>3. \A r : Table!Unleased(r) = T!Unleased(r)
  BY DEF Table!Unleased, T!Unleased, Table!NoLease, T!NoLease
<1>4. Table!Start(j, o, t, lag) <=> T!Start(j, o, t, lag)
  BY <1>1, SameFence DEF Table!Start, T!Start
<1>5. Table!Heartbeat(j, o, t, lag) <=> T!Heartbeat(j, o, t, lag)
  BY SameSets, SameFence DEF Table!Heartbeat, T!Heartbeat
<1>6. Table!Succeed(j, o, t, lag) <=> T!Succeed(j, o, t, lag)
  BY <1>1, <1>3, SameFence DEF Table!Succeed, T!Succeed
<1>7. Table!Fail(j, o, t, permanent, lag) <=> T!Fail(j, o, t, permanent, lag)
  BY <1>2, SameFailure, SameFence DEF Table!Fail, T!Fail
<1> QED BY <1>4, <1>5, <1>6, <1>7

LEMMA SamePoll ==
  ASSUME NEW o, NEW locked, NEW lag
  PROVE  Table!ClaimOne(o, locked, lag) <=> T!ClaimOne(o, locked, lag)
BY SameSets DEF Table!ClaimOne, T!ClaimOne, Table!Lapsed, T!Lapsed, Table!AfterFailure,
   T!AfterFailure, Table!OutcomeByNumber, T!OutcomeByNumber, Table!Due, T!Due, Table!Waiting,
   T!Waiting, Table!Claimed, T!Claimed, Table!Unleased, T!Unleased, Table!NoLease, T!NoLease,
   Table!RetryDelay, T!RetryDelay, Table!NoAttempt, T!NoAttempt

LEMMA SameRest ==
  /\ \A j : Table!Enqueue(j) <=> T!Enqueue(j)
  /\ \A j : Table!Cancel(j) <=> T!Cancel(j)
  /\ Table!Tick <=> T!Tick
BY SameSets DEF Table!Enqueue, T!Enqueue, Table!Inserted, T!Inserted, Table!NoRow, T!NoRow,
   Table!NoLease, T!NoLease, Table!Cancel, T!Cancel, Table!Waiting, T!Waiting, Table!Tick, T!Tick,
   Table!Aged, T!Aged

-----------------------------------------------------------------------------
(* What the steps of JobRunner do to the tables.                             *)

(* No result is stored, or the holder of a claim stores one together with    *)
(* its business writes.                                                      *)
NoNews ==
  /\ effects' = effects
  /\ \/ UNCHANGED tables
     \/ T!Next /\ T!Quiet

News(j, t) ==
  /\ T!Next /\ T!Won(j, t)
  /\ effects' = [effects EXCEPT ![j] = @ \cup {t}]

LEMMA CallIsNoNews ==
  ASSUME T!IInv, NEW j \in Jobs, NEW o \in Owners, NEW t, NEW lag \in Table!Lags,
         \/ Table!Start(j, o, t, lag) \/ Table!Heartbeat(j, o, t, lag)
         \/ \E permanent \in BOOLEAN : Table!Fail(j, o, t, permanent, lag),
         effects' = effects
  PROVE  NoNews
<1>1. lag \in T!Lags
  BY SameSets
<1>2. CASE Table!Start(j, o, t, lag) \/ Table!Heartbeat(j, o, t, lag)
  <2>1. T!Start(j, o, t, lag) \/ T!Heartbeat(j, o, t, lag)
    BY <1>2, SameCalls
  <2>2. T!Next
    BY <1>1, <2>1, T!CallsAreSteps, Config
  <2>3. T!Quiet
    BY <1>1, <2>1, T!CallsAreQuiet, Config
  <2> QED BY <2>2, <2>3 DEF NoNews
<1>3. ASSUME NEW permanent \in BOOLEAN, Table!Fail(j, o, t, permanent, lag)
      PROVE  NoNews
  <2>1. T!Fail(j, o, t, permanent, lag)
    BY <1>3, SameCalls
  <2> QED BY <1>1, <2>1, T!FailIsQuiet, Config DEF NoNews
<1> QED BY <1>2, <1>3

LEMMA SucceedIsNews ==
  ASSUME T!IInv, NEW j \in Jobs, NEW o \in Owners, NEW t, NEW lag \in Table!Lags,
         Table!Succeed(j, o, t, lag), effects' = [effects EXCEPT ![j] = @ \cup {t}]
  PROVE  News(j, t)
<1>1. T!Succeed(j, o, t, lag) /\ lag \in T!Lags
  BY SameCalls, SameSets
<1>2. T!Next
  BY <1>1, T!CallsAreSteps, Config
<1>3. T!Won(j, t)
  BY <1>1, T!SucceedWins, Config
<1> QED BY <1>2, <1>3 DEF News

LEMMA PollIsNoNews ==
  ASSUME T!IInv, NEW o \in Owners, NEW locked \in SUBSET Jobs, NEW lag \in Table!Lags,
         Table!ClaimOne(o, locked, lag), effects' = effects
  PROVE  NoNews
<1>1. T!ClaimOne(o, locked, lag) /\ lag \in T!Lags
  BY SamePoll, SameSets
<1>2. T!Next
  BY <1>1 DEF T!Next
<1>3. T!Quiet
  BY <1>1, T!PollIsQuiet, Config
<1> QED BY <1>2, <1>3 DEF NoNews

LEMMA RestIsNoNews ==
  ASSUME T!IInv, TableStep
  PROVE  NoNews
<1>1. ASSUME NEW j \in Jobs, T!Enqueue(j) \/ T!Cancel(j)
      PROVE  T!Next /\ T!Quiet
  <2>1. T!Next
    BY <1>1 DEF T!Next
  <2>2. 0 \in T!Lags
    BY SameSets, Config DEF T!ConfigAssumption
  <2> QED BY <1>1, <2>1, <2>2, T!CallsAreQuiet, Config
<1>2. CASE T!Tick
  <2>1. T!Next
    BY <1>2 DEF T!Next
  <2>2. T!Quiet
    <3>1. job \in [Jobs -> T!Row]
      BY DEF T!IInv
    <3> QED BY <1>2, <3>1 DEF T!Tick, T!Quiet, T!Row
  <2> QED BY <2>1, <2>2 DEF NoNews, TableStep
<1> QED BY <1>1, <1>2, SameRest DEF TableStep, NoNews
-----------------------------------------------------------------------------
(* What they do to the processes.                                            *)

ProcState == [pc : Pcs, job : Jobs \cup {None}, token : 0..MaxAttempts,
              task : TaskStates, sql : BOOLEAN, permanent : BOOLEAN]

Sound(s) ==
  /\ s \in ProcState
  /\ s.task # "none" <=> s.pc = "executing"
  /\ s.pc \in {"off", "idle", "dead"} <=> s.job = None

Working(s) == s.pc \in {"claimed", "executing"}

ClaimOf(o) == [owner |-> o, job |-> proc[o].job, token |-> proc[o].token]

(* Who works on a claim, awaited or not, was handed its token, and a claim  *)
(* that was orphaned is not the one its process works on now.               *)
HoldersKnow ==
  /\ \A o \in Owners : proc[o].job # None => proc[o].token \in 1..job[proc[o].job].token
  /\ \A h \in orphans : h.token <= job[h.job].token
  /\ \A o \in Owners : Working(proc[o]) => ClaimOf(o) \notin orphans

(* A process goes on with its claim, and never back to work; or it takes a  *)
(* new one.                                                                  *)
Keeps(s, r) == r.job = s.job /\ r.token = s.token /\ (Working(r) => Working(s))

Takes(r) ==
  /\ r.job \in Jobs
  /\ job'[r.job].attempts # job[r.job].attempts
  /\ r.token = job'[r.job].token

Moves(o) ==
  Sound(proc'[o]) /\ (proc'[o].job = None \/ Keeps(proc[o], proc'[o]) \/ Takes(proc'[o]))

ProcsMove == proc' = [o \in Owners |-> proc'[o]] /\ \A o \in Owners : Moves(o)

(* Who gives a handler up is about to report a failure. *)
OrphansMove ==
  \A h \in orphans' :
    \/ h \in orphans
    \/ \E o \in Owners : proc[o].job # None /\ h = ClaimOf(o) /\ proc'[o].pc = "failing"

(* What is newly counted is in the table. *)
CountsResults ==
  \A c \in counted' :
    \/ c \in counted
    \/ c \in Claims /\ job'[c.job].status = "succeeded" /\ job'[c.job].result = c.token

Accounted == NoNews \/ \E j \in Jobs, t \in 1..MaxAttempts : News(j, t)

Step == Accounted /\ ProcsMove /\ OrphansMove /\ CountsResults /\ lock' \in Owners \cup {None}

RunnerInv == T!IInv /\ RunnerTypes /\ HoldersKnow /\ EffectsOnce /\ CountedIsStored

LEMMA Numbers == MaxAttempts \in Nat /\ MaxAttempts >= 1 /\ None \notin Jobs
BY Config DEF T!ConfigAssumption, T!TableAssumption

LEMMA ProcsAreSound ==
  ASSUME RunnerTypes
  PROVE  \A o \in Owners : Sound(proc[o])
BY DEF RunnerTypes, Sound, ProcState

LEMMA BlankStates ==
  /\ Sound(Idle) /\ Sound(Off) /\ Sound(Dead)
  /\ Idle.job = None /\ Off.job = None /\ Dead.job = None
<1>1. /\ Idle = [pc |-> "idle", job |-> None, token |-> 0, task |-> "none", sql |-> FALSE,
                  permanent |-> FALSE]
      /\ Off = [Idle EXCEPT !.pc = "off"] /\ Dead = [Idle EXCEPT !.pc = "dead"]
  BY DEF Idle, Off, Dead
<1>2. {"off", "idle", "dead"} \subseteq Pcs /\ "none" \in TaskStates /\ 0 \in 0..MaxAttempts
  BY Numbers DEF Pcs, TaskStates
<1>3. Idle \in ProcState /\ Off \in ProcState /\ Dead \in ProcState
  BY <1>1, <1>2 DEF ProcState
<1>4. /\ Idle.job = None /\ Idle.task = "none" /\ Idle.pc = "idle"
      /\ Off.job = None /\ Off.task = "none" /\ Off.pc = "off"
      /\ Dead.job = None /\ Dead.task = "none" /\ Dead.pc = "dead"
  BY <1>1
<1> QED BY <1>3, <1>4 DEF Sound

(* A step of one process. *)
LEMMA OneProcMoves ==
  ASSUME RunnerTypes, NEW o \in Owners, NEW r, proc' = [proc EXCEPT ![o] = r],
         Sound(r), r.job = None \/ Keeps(proc[o], r) \/ Takes(r)
  PROVE  ProcsMove /\ proc'[o] = r
<1>1. proc \in [Owners -> ProcState] /\ proc'[o] = r
      /\ \A p \in Owners \ {o} : proc'[p] = proc[p]
  BY DEF RunnerTypes, ProcState
<1>2. \A p \in Owners : Keeps(proc[p], proc[p]) /\ Sound(proc[p])
  BY ProcsAreSound DEF Keeps
<1>3. \A p \in Owners : Moves(p)
  BY <1>1, <1>2 DEF Moves
<1> QED BY <1>1, <1>3 DEF ProcsMove, RunnerTypes

LEMMA NobodyMoves ==
  ASSUME RunnerTypes, proc' = proc
  PROVE  ProcsMove
BY ProcsAreSound DEF ProcsMove, Moves, Keeps, RunnerTypes

LEMMA IdleMoves ==
  ASSUME RunnerTypes, NEW o \in Owners, GoesIdle(o)
  PROVE  ProcsMove
BY BlankStates, OneProcMoves DEF GoesIdle

LEMMA FailingMoves ==
  ASSUME RunnerTypes, NEW o \in Owners, proc[o].job # None, NEW permanent \in BOOLEAN,
         GoesFailing(o, permanent)
  PROVE  ProcsMove /\ proc'[o].pc = "failing"
<1> DEFINE r == [Idle EXCEPT !.pc = "failing", !.job = proc[o].job, !.token = proc[o].token,
                             !.permanent = permanent]
<1>1. Sound(proc[o])
  BY ProcsAreSound
<1>2. Sound(r) /\ Keeps(proc[o], r) /\ r.pc = "failing"
  BY <1>1 DEF Sound, ProcState, Keeps, Working, Idle, Pcs, TaskStates
<1>3. proc' = [proc EXCEPT ![o] = r]
  BY DEF GoesFailing
<1> HIDE DEF r
<1> QED BY <1>2, <1>3, OneProcMoves

(* The claim stays where it is while its handler, or what is awaited of it,  *)
(* changes.                                                                  *)
LEMMA WorkMoves ==
  ASSUME RunnerTypes, NEW o \in Owners, proc[o].pc \in {"claimed", "executing"},
         NEW pc \in Pcs \ {"off", "idle", "dead", "claimed"}, NEW task \in TaskStates,
         NEW sql \in BOOLEAN, task # "none" <=> pc = "executing",
         proc' = [proc EXCEPT ![o] = [proc[o] EXCEPT !.pc = pc, !.task = task, !.sql = sql]]
  PROVE  ProcsMove
<1> DEFINE r == [proc[o] EXCEPT !.pc = pc, !.task = task, !.sql = sql]
<1>1. Sound(proc[o])
  BY ProcsAreSound
<1>2. /\ r \in ProcState /\ r.pc = pc /\ r.task = task
      /\ r.job = proc[o].job /\ r.token = proc[o].token
  BY <1>1 DEF Sound, ProcState
<1>3. Sound(r) /\ Keeps(proc[o], r)
  BY <1>1, <1>2 DEF Sound, Keeps, Working
<1> HIDE DEF r
<1> QED BY <1>3, OneProcMoves DEF r

-----------------------------------------------------------------------------
(* The steps, one by one.                                                    *)

LEMMA BusyClaim ==
  ASSUME RunnerInv, NEW o \in Owners, proc[o].pc \notin {"off", "idle", "dead"}
  PROVE  /\ proc[o].job \in Jobs /\ proc[o].job # None
         /\ proc[o].token \in 1..MaxAttempts /\ TheClaim(o) \in Claims
<1>1. Sound(proc[o])
  BY ProcsAreSound DEF RunnerInv
<1>2. proc[o].job \in Jobs /\ proc[o].job # None /\ proc[o].token \in 0..MaxAttempts
  BY <1>1 DEF Sound, ProcState
<1>3. proc[o].token \in 1..job[proc[o].job].token
  BY <1>2 DEF RunnerInv, HoldersKnow
<1>4. proc[o].token \in 1..MaxAttempts
  BY <1>2, <1>3, Numbers
<1> QED BY <1>2, <1>4 DEF TheClaim, Claims

(* What most steps leave alone. *)
LEMMA Rest ==
  ASSUME RunnerInv
  PROVE  /\ orphans' \subseteq orphans => OrphansMove
         /\ counted' \subseteq counted => CountsResults
         /\ UNCHANGED lock => lock' \in Owners \cup {None}
         /\ UNCHANGED <<tables, effects>> => Accounted
BY DEF OrphansMove, CountsResults, RunnerInv, RunnerTypes, Accounted, NoNews

LEMMA BootStep ==
  ASSUME RunnerInv, NEW o \in Owners, Boot(o)
  PROVE  Step
BY IdleMoves, Rest DEF Boot, RunnerInv, Step

LEMMA CrashStep ==
  ASSUME RunnerInv, NEW o \in Owners, Crash(o)
  PROVE  Step
<1>1. ProcsMove
  BY BlankStates, OneProcMoves DEF Crash, RunnerInv
<1>2. orphans' \subseteq orphans /\ lock' \in Owners \cup {None}
  BY DEF Crash, RunnerInv, RunnerTypes
<1> QED BY <1>1, <1>2, Rest DEF Crash, Step

LEMMA PollStep ==
  ASSUME RunnerInv, NEW o \in Owners, NEW locked \in SUBSET Jobs, NEW lag \in Table!Lags,
         Poll(o, locked, lag)
  PROVE  Step
<1>1. NoNews
  <2>1. locked \cup Unasked(o) \in SUBSET Jobs
    BY DEF Unasked
  <2> QED BY <2>1, PollIsNoNews DEF Poll, RunnerInv
<1>2. ASSUME NEW j \in Jobs, job'[j].attempts # job[j].attempts,
             proc' = [proc EXCEPT ![o] = [Idle EXCEPT !.pc = "claimed", !.job = j,
                                                      !.token = job'[j].token]]
      PROVE  ProcsMove
  <2> DEFINE r == [Idle EXCEPT !.pc = "claimed", !.job = j, !.token = job'[j].token]
  <2>1. T!Next
    BY <1>1, <1>2 DEF NoNews, tables
  <2>2. job'[j].token \in 0..MaxAttempts
    BY <2>1, T!StepsKeepResults, Config DEF RunnerInv
  <2>3. r.pc = "claimed" /\ r.job = j /\ r.token = job'[j].token /\ r.task = "none"
    BY DEF Idle
  <2>4. r \in ProcState
    BY <2>2 DEF ProcState, Idle, Pcs, TaskStates
  <2>5. Sound(r) /\ Takes(r)
    BY <1>2, <2>3, <2>4, Numbers DEF Sound, Takes
  <2> HIDE DEF r
  <2> QED BY <1>2, <2>5, OneProcMoves DEF RunnerInv, r
<1>3. ProcsMove
  BY <1>2, NobodyMoves DEF Poll, RunnerInv
<1> QED BY <1>1, <1>3, Rest DEF Poll, Step, Accounted

LEMMA StartStep ==
  ASSUME RunnerInv, NEW o \in Owners, NEW lag \in Table!Lags, StartClaim(o, lag)
  PROVE  Step
<1>1. proc[o].pc = "claimed" /\ proc[o].job \in Jobs /\ proc[o].job # None
  BY BusyClaim DEF StartClaim
<1>2. Accounted
  BY <1>1, CallIsNoNews, Rest DEF StartClaim, RunnerInv, Accounted
<1>3. ASSUME proc' = [proc EXCEPT ![o].pc = "executing", ![o].task = "running"]
      PROVE  ProcsMove
  <2>1. proc[o] \in ProcState /\ proc \in [Owners -> ProcState]
    BY DEF RunnerInv, RunnerTypes, ProcState
  <2>2. proc' = [proc EXCEPT ![o] = [proc[o] EXCEPT !.pc = "executing", !.task = "running",
                                                    !.sql = proc[o].sql]]
    BY <1>3, <2>1 DEF ProcState
  <2> QED BY <1>1, <2>1, <2>2, WorkMoves DEF RunnerInv, ProcState, Pcs, TaskStates
<1>4. ASSUME GoesIdle(o) \/ GoesFailing(o, TRUE) \/ GoesFailing(o, FALSE)
      PROVE  ProcsMove
  BY <1>1, <1>4, IdleMoves, FailingMoves DEF RunnerInv
<1>5. ProcsMove
  BY <1>3, <1>4 DEF StartClaim
<1> QED BY <1>2, <1>5, Rest DEF StartClaim, Step

LEMMA ObserveStep ==
  ASSUME RunnerInv, NEW o \in Owners, Observe(o)
  PROVE  Step
<1>1. proc[o].pc = "executing" /\ proc[o].job # None
  BY BusyClaim DEF Observe
<1>2. proc[o] \in ProcState /\ proc \in [Owners -> ProcState]
  BY DEF RunnerInv, RunnerTypes, ProcState
<1>3. ASSUME NEW pc \in {"verifying", "succeeding"},
             proc' = [proc EXCEPT ![o].pc = pc, ![o].task = "none"]
      PROVE  ProcsMove
  <2>1. proc' = [proc EXCEPT ![o] = [proc[o] EXCEPT !.pc = pc, !.task = "none",
                                                    !.sql = proc[o].sql]]
    BY <1>2, <1>3 DEF ProcState
  <2> QED BY <1>1, <1>2, <2>1, WorkMoves DEF RunnerInv, ProcState, Pcs, TaskStates
<1>4. ASSUME NEW permanent \in BOOLEAN, GoesFailing(o, permanent)
      PROVE  ProcsMove
  BY <1>1, <1>4, FailingMoves DEF RunnerInv
<1>5. ProcsMove
  BY <1>3, <1>4 DEF Observe
<1> QED BY <1>5, Rest DEF Observe, Step

LEMMA BeatStep ==
  ASSUME RunnerInv, NEW o \in Owners, NEW lag \in Table!Lags, Beat(o, lag)
  PROVE  Step
<1>1. proc[o].job \in Jobs
  BY BusyClaim DEF Beat
<1>2. Accounted
  BY <1>1, CallIsNoNews, Rest DEF Beat, RunnerInv, Accounted
<1>3. ProcsMove
  BY IdleMoves, NobodyMoves DEF Beat, RunnerInv
<1> QED BY <1>2, <1>3, Rest DEF Beat, Step

LEMMA BeatRaisesStep ==
  ASSUME RunnerInv, NEW o \in Owners, NEW lag \in Table!Lags, BeatRaises(o, lag)
  PROVE  Step
<1>1. proc[o].job \in Jobs /\ proc[o].job # None
  BY BusyClaim DEF BeatRaises
<1>2. Accounted
  BY <1>1, CallIsNoNews, Rest DEF BeatRaises, RunnerInv, Accounted
<1>3. ProcsMove /\ proc'[o].pc = "failing"
  BY <1>1, FailingMoves DEF BeatRaises, RunnerInv
<1>4. OrphansMove
  BY <1>1, <1>3 DEF BeatRaises, OrphansMove, ClaimOf
<1> QED BY <1>2, <1>3, <1>4, Rest DEF BeatRaises, Step

LEMMA FinishSuccessStep ==
  ASSUME RunnerInv, NEW o \in Owners, NEW lag \in Table!Lags, FinishSuccess(o, lag)
  PROVE  Step
<1>1. /\ proc[o].job \in Jobs /\ proc[o].job # None
      /\ proc[o].token \in 1..MaxAttempts /\ TheClaim(o) \in Claims
  BY BusyClaim DEF FinishSuccess
<1>2. ProcsMove
  BY <1>1, IdleMoves, FailingMoves DEF FinishSuccess, RunnerInv
<1>3. CASE /\ Table!Succeed(proc[o].job, o, proc[o].token, lag)
           /\ effects' = [effects EXCEPT ![proc[o].job] = @ \cup {proc[o].token}]
           /\ counted' \subseteq counted \cup {TheClaim(o)}
  <2>1. News(proc[o].job, proc[o].token)
    BY <1>1, <1>3, SucceedIsNews DEF RunnerInv
  <2>2. /\ job'[TheClaim(o).job].status = "succeeded"
        /\ job'[TheClaim(o).job].result = TheClaim(o).token
    BY <2>1 DEF News, T!Won, TheClaim
  <2>3. CountsResults
    BY <1>1, <1>3, <2>2 DEF CountsResults
  <2> QED BY <1>1, <1>2, <2>1, <2>3, Rest DEF FinishSuccess, Step, Accounted
<1>4. CASE UNCHANGED <<tables, effects, counted>>
  BY <1>2, <1>4, Rest DEF FinishSuccess, Step
<1> QED BY <1>3, <1>4 DEF FinishSuccess

LEMMA VerifyStep ==
  ASSUME RunnerInv, NEW o \in Owners, Verify(o)
  PROVE  Step
<1>1. proc[o].job \in Jobs /\ proc[o].job # None /\ TheClaim(o) \in Claims
  BY BusyClaim DEF Verify
<1>2. ProcsMove
  BY <1>1, IdleMoves, FailingMoves DEF Verify, RunnerInv
<1>3. /\ job' = job
      /\ job[proc[o].job].status = "succeeded" => job[proc[o].job].result = job[proc[o].job].token
  BY <1>1 DEF Verify, tables, RunnerInv, T!IInv, T!RowInv
<1>4. counted' = counted => CountsResults
  BY Rest
<1>5. ASSUME job[proc[o].job].status = "succeeded", job[proc[o].job].token = proc[o].token,
             counted' = counted \cup {TheClaim(o)}
      PROVE  CountsResults
  <2>1. /\ job'[TheClaim(o).job].status = "succeeded"
        /\ job'[TheClaim(o).job].result = TheClaim(o).token
    BY <1>3, <1>5 DEF TheClaim
  <2> QED BY <1>1, <1>5, <2>1 DEF CountsResults
<1>6. CountsResults
  BY <1>4, <1>5 DEF Verify
<1> QED BY <1>2, <1>6, Rest DEF Verify, Step

LEMMA FinishFailureStep ==
  ASSUME RunnerInv, NEW o \in Owners, NEW lag \in Table!Lags, FinishFailure(o, lag)
  PROVE  Step
<1>1. proc[o].job \in Jobs /\ proc[o].job # None /\ proc[o].permanent \in BOOLEAN
  BY BusyClaim DEF FinishFailure, RunnerInv, RunnerTypes
<1>2. Accounted
  BY <1>1, CallIsNoNews, Rest DEF FinishFailure, RunnerInv, Accounted
<1>3. ProcsMove
  BY <1>1, IdleMoves, FailingMoves DEF FinishFailure, RunnerInv
<1> QED BY <1>2, <1>3, Rest DEF FinishFailure, Step

LEMMA HandlerMoves ==
  ASSUME RunnerInv, NEW o \in Owners, proc[o].pc = "executing",
         \/ proc' = [proc EXCEPT ![o].sql = TRUE] /\ proc[o].task = "running"
         \/ \E end \in {"value", "error", "fatal"} : proc' = [proc EXCEPT ![o].task = end]
  PROVE  ProcsMove
<1>1. proc[o] \in ProcState /\ proc \in [Owners -> ProcState]
  BY DEF RunnerInv, RunnerTypes, ProcState
<1>2. ASSUME proc' = [proc EXCEPT ![o].sql = TRUE], proc[o].task = "running"
      PROVE  ProcsMove
  <2>1. [proc[o] EXCEPT !.sql = TRUE] =
          [proc[o] EXCEPT !.pc = "executing", !.task = "running", !.sql = TRUE]
    BY <1>1, <1>2 DEF ProcState
  <2>2. proc' = [proc EXCEPT ![o] = [proc[o] EXCEPT !.sql = TRUE]]
    BY <1>1, <1>2
  <2> QED BY <2>1, <2>2, WorkMoves DEF RunnerInv, Pcs, TaskStates
<1>3. ASSUME NEW end \in {"value", "error", "fatal"}, proc' = [proc EXCEPT ![o].task = end]
      PROVE  ProcsMove
  <2>1. [proc[o] EXCEPT !.task = end] =
          [proc[o] EXCEPT !.pc = "executing", !.task = end, !.sql = proc[o].sql]
    BY <1>1, <1>3 DEF ProcState
  <2>2. proc' = [proc EXCEPT ![o] = [proc[o] EXCEPT !.task = end]]
    BY <1>1, <1>3
  <2>3. end \in TaskStates /\ end # "none" /\ proc[o].sql \in BOOLEAN
        /\ "executing" \in Pcs \ {"off", "idle", "dead", "claimed"}
    BY <1>1, <1>3 DEF ProcState, Pcs, TaskStates
  <2>4. proc' = [proc EXCEPT ![o] = [proc[o] EXCEPT !.pc = "executing", !.task = end,
                                                    !.sql = proc[o].sql]]
    BY <2>1, <2>2
  <2> QED BY <2>3, <2>4, WorkMoves DEF RunnerInv
<1> QED BY <1>2, <1>3

LEMMA HandlerCommitsStep ==
  ASSUME RunnerInv, NEW o \in Owners, NEW lag \in Table!Lags, HandlerCommits(o, lag)
  PROVE  Step
<1>1. /\ proc[o].job \in Jobs /\ proc[o].token \in 1..MaxAttempts
      /\ proc[o].pc = "executing"
  BY BusyClaim DEF HandlerCommits
<1>2. CASE /\ Table!Succeed(proc[o].job, o, proc[o].token, lag)
           /\ effects' = [effects EXCEPT ![proc[o].job] = @ \cup {proc[o].token}]
           /\ UNCHANGED proc
  <2>1. News(proc[o].job, proc[o].token)
    BY <1>1, <1>2, SucceedIsNews DEF RunnerInv
  <2>2. ProcsMove
    BY <1>2, NobodyMoves DEF RunnerInv
  <2> QED BY <1>1, <2>1, <2>2, Rest DEF HandlerCommits, Step, Accounted
<1>3. CASE proc' = [proc EXCEPT ![o].task = "error"] /\ UNCHANGED <<tables, effects>>
  <2>1. ProcsMove
    BY <1>1, <1>3, HandlerMoves
  <2> QED BY <1>3, <2>1, Rest DEF HandlerCommits, Step
<1> QED BY <1>2, <1>3 DEF HandlerCommits

LEMMA HandlerProgressStep ==
  ASSUME RunnerInv, NEW o \in Owners, HandlerProgress(o)
  PROVE  Step
<1>1. proc[o].pc = "executing"
  BY DEF HandlerProgress, HandlerEnds, HandlerHears
<1>2. \/ proc' = [proc EXCEPT ![o].sql = TRUE] /\ proc[o].task = "running"
      \/ \E end \in {"value", "error", "fatal"} : proc' = [proc EXCEPT ![o].task = end]
  BY DEF HandlerProgress, HandlerEnds, HandlerHears
<1>3. ProcsMove
  BY <1>1, <1>2, HandlerMoves
<1> QED BY <1>3, Rest DEF HandlerProgress, HandlerEnds, HandlerHears, Step

LEMMA OrphanStep ==
  ASSUME RunnerInv, NEW h \in orphans,
         OrphanEnds(h) \/ \E lag \in Table!Lags : OrphanCommits(h, lag)
  PROVE  Step
<1>1. h.job \in Jobs /\ h.owner \in Owners /\ h.token \in 1..MaxAttempts
  BY DEF RunnerInv, RunnerTypes, Tasks
<1>2. CASE OrphanEnds(h)
  BY <1>2, NobodyMoves, Rest DEF OrphanEnds, RunnerInv, Step
<1>3. ASSUME NEW lag \in Table!Lags, OrphanCommits(h, lag)
      PROVE  Step
  <2>1. News(h.job, h.token)
    BY <1>1, <1>3, SucceedIsNews DEF OrphanCommits, RunnerInv
  <2> QED BY <1>1, <1>3, <2>1, NobodyMoves, Rest DEF OrphanCommits, RunnerInv, Step, Accounted
<1> QED BY <1>2, <1>3

LEMMA EveryStep ==
  ASSUME RunnerInv, [Next]_vars
  PROVE  Step
<1>1. ASSUME NEW o \in Owners, Boot(o) \/ Crash(o)
      PROVE  Step
  BY <1>1, BootStep, CrashStep
<1>2. ASSUME NEW o \in Owners, RunnerStep(o)
      PROVE  Step
  BY <1>2, ObserveStep, VerifyStep, StartStep, FinishSuccessStep, FinishFailureStep DEF RunnerStep
<1>3. ASSUME NEW o \in Owners, HandlerStep(o)
      PROVE  Step
  BY <1>3, HandlerProgressStep, HandlerCommitsStep DEF HandlerStep
<1>4. ASSUME NEW o \in Owners, HeartbeatStep(o)
      PROVE  Step
  BY <1>4, BeatStep, BeatRaisesStep DEF HeartbeatStep
<1>5. ASSUME NEW o \in Owners, NEW locked \in SUBSET Jobs, NEW lag \in Table!Lags,
             Poll(o, locked, lag)
      PROVE  Step
  BY <1>5, PollStep
<1>6. CASE LoseLock
  BY <1>6, NobodyMoves, Rest DEF LoseLock, RunnerInv, Step
<1>7. ASSUME NEW h \in orphans, OrphanEnds(h) \/ \E lag \in Table!Lags : OrphanCommits(h, lag)
      PROVE  Step
  BY <1>7, OrphanStep
<1>8. CASE TableStep
  BY <1>8, RestIsNoNews, NobodyMoves, Rest DEF TableStep, RunnerInv, Step, Accounted
<1>9. CASE UNCHANGED vars
  BY <1>9, NobodyMoves, Rest DEF vars, tables, RunnerInv, Step
<1> QED BY <1>1, <1>2, <1>3, <1>4, <1>5, <1>6, <1>7, <1>8, <1>9 DEF Next

-----------------------------------------------------------------------------
(* The inductive invariant.                                                  *)

LEMMA RunnerInit == Init => RunnerInv
<1> SUFFICES ASSUME Init PROVE RunnerInv
  OBVIOUS
<1>1. T!IInv
  BY SameInit, T!InitIInv, Config DEF Init
<1>2. RunnerTypes
  <2>1. \A o \in Owners : Sound(proc[o])
    BY BlankStates DEF Init
  <2> QED BY <2>1 DEF Init, RunnerTypes, Sound, ProcState
<1>3. HoldersKnow
  BY BlankStates DEF Init, HoldersKnow, Working, Off
<1>4. EffectsOnce /\ CountedIsStored
  BY DEF Init, Table!Init, Table!NoRow, EffectsOnce, CountedIsStored
<1> QED BY <1>1, <1>2, <1>3, <1>4 DEF RunnerInv

(* A step moves the table as the repository does, or not at all. *)
LEMMA TableMoves ==
  ASSUME Accounted
  PROVE  [T!Next]_T!vars
BY DEF Accounted, NoNews, News, tables, T!vars

LEMMA RowsMove ==
  ASSUME RunnerInv, Accounted, NEW j \in Jobs
  PROVE  /\ T!IInv'
         /\ job[j].token \in 0..MaxAttempts /\ job'[j].token \in 0..MaxAttempts
         /\ job[j].token <= job'[j].token
         /\ job'[j].attempts # job[j].attempts => job[j].token < job'[j].token
         /\ job[j].status = "succeeded" => job'[j] = job[j]
BY TableMoves, T!StepsKeepResults, Config DEF RunnerInv

LEMMA TypesKept ==
  ASSUME RunnerInv, Step
  PROVE  RunnerTypes'
<1>1. /\ proc' \in [Owners -> ProcState]
      /\ \A o \in Owners :
           /\ proc'[o].task # "none" <=> proc'[o].pc = "executing"
           /\ proc'[o].pc \in {"off", "idle", "dead"} <=> proc'[o].job = None
  BY DEF Step, ProcsMove, Moves, Sound
<1>2. orphans' \subseteq Tasks
  <2>1. ASSUME NEW o \in Owners, proc[o].job # None
        PROVE  ClaimOf(o) \in Tasks
    BY <2>1, BusyClaim, ProcsAreSound DEF ClaimOf, Tasks, Sound, RunnerInv
  <2> QED BY <2>1 DEF Step, OrphansMove, RunnerInv, RunnerTypes
<1>3. effects' \in [Jobs -> SUBSET (1..MaxAttempts)]
  BY DEF Step, Accounted, NoNews, News, RunnerInv, RunnerTypes
<1>4. counted' \subseteq Claims
  BY DEF Step, CountsResults, RunnerInv, RunnerTypes
<1> QED BY <1>1, <1>2, <1>3, <1>4 DEF Step, RunnerTypes, ProcState

LEMMA KnowledgeKept ==
  ASSUME RunnerInv, Step
  PROVE  HoldersKnow'
<1>1. \A j \in Jobs :
         /\ job[j].token \in Nat /\ job'[j].token \in Nat /\ job[j].token <= job'[j].token
         /\ job'[j].attempts # job[j].attempts => job[j].token < job'[j].token
  BY RowsMove DEF Step
<1>2. \A o \in Owners : Sound(proc[o]) /\ Moves(o)
  BY ProcsAreSound DEF Step, ProcsMove, RunnerInv
<1>3. \A h \in orphans : h.job \in Jobs /\ h.token \in Nat /\ h.token <= job[h.job].token
  BY DEF RunnerInv, RunnerTypes, Tasks, HoldersKnow
<1>4. ASSUME NEW o \in Owners, proc[o].job # None
      PROVE  /\ proc[o].job \in Jobs /\ proc[o].token \in Nat
             /\ 1 <= proc[o].token /\ proc[o].token <= job[proc[o].job].token
  BY <1>1, <1>2, <1>4 DEF Sound, ProcState, RunnerInv, HoldersKnow
<1>5. ASSUME NEW o \in Owners, proc'[o].job # None
      PROVE  proc'[o].token \in 1..job'[proc'[o].job].token
  <2>1. CASE Keeps(proc[o], proc'[o])
    BY <1>1, <1>4, <1>5, <2>1 DEF Keeps
  <2>2. CASE Takes(proc'[o])
    BY <1>1, <2>2 DEF Takes
  <2> QED BY <1>2, <1>5, <2>1, <2>2 DEF Moves
<1>6. ASSUME NEW h \in orphans'
      PROVE  h.token <= job'[h.job].token
  <2>1. h.job \in Jobs /\ h.token \in Nat /\ h.token <= job[h.job].token
    BY <1>3, <1>4, <1>6 DEF Step, OrphansMove, ClaimOf
  <2> QED BY <1>1, <2>1
<1>7. ASSUME NEW o \in Owners, Working(proc'[o])
      PROVE  ClaimOf(o)' \notin orphans'
  <2>1. ClaimOf(o)' = [owner |-> o, job |-> proc'[o].job, token |-> proc'[o].token]
    BY DEF ClaimOf
  <2>2. ClaimOf(o)' \notin orphans
    <3>1. CASE Keeps(proc[o], proc'[o])
      BY <1>7, <3>1 DEF Keeps, ClaimOf, RunnerInv, HoldersKnow
    <3>2. CASE Takes(proc'[o])
      BY <1>1, <1>3, <2>1, <3>2 DEF Takes
    <3>3. proc'[o].job # None
      BY <1>2, <1>7 DEF Moves, Sound, Working
    <3> QED BY <1>2, <3>1, <3>2, <3>3 DEF Moves
  <2>3. \A p \in Owners : proc'[p].pc = "failing" => ClaimOf(p) # ClaimOf(o)'
    BY <1>7, <2>1 DEF ClaimOf, Working
  <2> QED BY <2>2, <2>3 DEF Step, OrphansMove
<1> QED BY <1>5, <1>6, <1>7 DEF HoldersKnow

LEMMA ResultsKept ==
  ASSUME RunnerInv, Step
  PROVE  (EffectsOnce /\ CountedIsStored)'
<1>1. \A j \in Jobs : job[j].status = "succeeded" => job'[j] = job[j]
  BY RowsMove DEF Step
<1>2. effects \in [Jobs -> SUBSET (1..MaxAttempts)]
  BY DEF RunnerInv, RunnerTypes
<1>3. \A j \in Jobs : effects[j] = IF job[j].status = "succeeded" THEN {job[j].result} ELSE {}
  BY DEF RunnerInv, EffectsOnce
<1>4. ASSUME NoNews
      PROVE  EffectsOnce'
  <2>1. \A j \in Jobs : job'[j].status = "succeeded" <=> job[j].status = "succeeded"
    BY <1>4 DEF NoNews, tables, T!Quiet
  <2> QED BY <1>1, <1>3, <1>4, <2>1 DEF NoNews, EffectsOnce
<1>5. ASSUME NEW j \in Jobs, NEW t \in 1..MaxAttempts, News(j, t)
      PROVE  EffectsOnce'
  <2>1. /\ job[j].status # "succeeded" /\ job'[j].status = "succeeded" /\ job'[j].result = t
        /\ \A i \in Jobs \ {j} : job'[i].status = "succeeded" <=> job[i].status = "succeeded"
    BY <1>5 DEF News, T!Won
  <2>2. effects'[j] = {t} /\ \A i \in Jobs \ {j} : effects'[i] = effects[i]
    BY <1>2, <1>3, <1>5, <2>1 DEF News
  <2> QED BY <1>1, <1>3, <2>1, <2>2 DEF EffectsOnce
<1>6. EffectsOnce'
  BY <1>4, <1>5 DEF Step, Accounted
<1>7. CountedIsStored'
  <2> SUFFICES ASSUME NEW c \in counted'
               PROVE  job'[c.job].status = "succeeded" /\ job'[c.job].result = c.token
    BY DEF CountedIsStored
  <2> QED BY <1>1 DEF Step, CountsResults, CountedIsStored, RunnerInv, RunnerTypes, Claims
<1> QED BY <1>6, <1>7

LEMMA RunnerNext == RunnerInv /\ [Next]_vars => RunnerInv'
<1> SUFFICES ASSUME RunnerInv, [Next]_vars PROVE RunnerInv'
  OBVIOUS
<1>1. Step
  BY EveryStep
<1>2. T!IInv'
  BY <1>1, TableMoves, T!NextMovesRows, T!TablesStepKeepsInv, Config DEF Step, RunnerInv
<1> QED BY <1>1, <1>2, TypesKept, KnowledgeKept, ResultsKept DEF RunnerInv

LEMMA RunnerInvariant == Spec => []RunnerInv
BY RunnerInit, RunnerNext, PTL DEF Spec

(* Every variable of the runner keeps to its type, and a process has a claim *)
(* exactly while it is at work on one (SqlJobRunner.run_once).               *)
THEOREM RunnerTyped == Spec => []TypeOK
<1>1. RunnerInv => TypeOK
  <2>1. T!TypeOK <=> Table!TypeOK
    BY SameSets DEF T!TypeOK, Table!TypeOK, T!Row, Table!Row, T!Statuses, Table!Statuses,
       T!Waiting, Table!Waiting, T!AttemptRow, Table!AttemptRow, T!Outcomes, Table!Outcomes,
       T!Open, Table!Open
  <2> QED BY <2>1 DEF RunnerInv, T!IInv, T!TypeOK, TypeOK
<1> QED BY <1>1, RunnerInvariant, PTL

(* The pollers, heartbeats, handlers and orphans of all processes together   *)
(* use the tables only as JobQueue says: whoever gets a row written, however *)
(* late, is the holder of a claim that job_attempts records.                 *)
THEOREM RunnerImplementsTable == Spec => Table!Spec
<1>1. RunnerInv /\ [Next]_vars => [Table!Next]_Table!vars
  <2>1. T!Next => Table!Next
    <3>1. T!NoAttempt = Table!NoAttempt
      BY DEF T!NoAttempt, Table!NoAttempt
    <3>2. \A source, j : T!ReplayDeadLetter(source, j) => Table!ReplayDeadLetter(source, j)
      BY DEF T!ReplayDeadLetter, Table!ReplayDeadLetter, T!Inserted, Table!Inserted, T!NoRow,
         Table!NoRow, T!NoLease, Table!NoLease
    <3>3. \A j, n, lag : T!HolderCall(j, n, lag) => Table!HolderCall(j, n, lag)
      BY <3>1, SameCalls DEF T!HolderCall, Table!HolderCall
    <3> QED BY <3>2, <3>3, SameSets, SamePoll, SameRest DEF T!Next, Table!Next
  <2>2. RunnerInv /\ [Next]_vars => [T!Next]_T!vars
    BY EveryStep, TableMoves DEF Step
  <2> QED BY <2>1, <2>2 DEF T!vars, Table!vars
<1>2. Init => Table!Init
  BY DEF Init
<1> QED BY <1>1, <1>2, RunnerInvariant, PTL DEF Spec, Table!Spec

(* So all that JobTableProofs says of the table is true of the service.       *)
LEMMA RunnerDrivesTable == Spec => T!Spec
<1>1. RunnerInv /\ [Next]_vars => [T!Next]_T!vars
  BY EveryStep, TableMoves DEF Step, T!vars
<1>2. Init => T!Init
  BY SameInit DEF Init
<1> QED BY <1>1, <1>2, RunnerInvariant, PTL DEF Spec, T!Spec

LEMMA SameLifecycle == Table!ImplementsLifecycle <=> T!ImplementsLifecycle
<1>1. \A s : Table!Phase(s) = T!Phase(s)
  BY DEF T!Phase, Table!Phase, T!Waiting, Table!Waiting, T!Open, Table!Open
<1>2. Table!Lifecycle!Init <=> T!Lifecycle!Init
  BY <1>1 DEF Table!Lifecycle!Init, T!Lifecycle!Init
<1>3. [Table!Lifecycle!Next]_(Table!Lifecycle!lifecycleVars) <=> [T!Lifecycle!Next]_(T!Lifecycle!lifecycleVars)
  BY <1>1
     DEF Table!Lifecycle!Next, T!Lifecycle!Next, Table!Lifecycle!JobStep, T!Lifecycle!JobStep,
         Table!Lifecycle!Rests, T!Lifecycle!Rests, Table!Lifecycle!SameEpoch, T!Lifecycle!SameEpoch,
         Table!Lifecycle!Moves, T!Lifecycle!Moves, Table!Lifecycle!Submit, T!Lifecycle!Submit,
         Table!Lifecycle!Grant, T!Lifecycle!Grant, Table!Lifecycle!Release, T!Lifecycle!Release,
         Table!Lifecycle!Commit, T!Lifecycle!Commit, Table!Lifecycle!Bury, T!Lifecycle!Bury,
         Table!Lifecycle!Revoke, T!Lifecycle!Revoke, Table!Lifecycle!Stop, T!Lifecycle!Stop,
         Table!Lifecycle!lifecycleVars, T!Lifecycle!lifecycleVars
<1> QED BY <1>2, <1>3, PTL DEF T!ImplementsLifecycle, Table!ImplementsLifecycle,
                               Table!Lifecycle!Spec, T!Lifecycle!Spec

(* Two refinements in a row: whatever the pollers, the handlers and their     *)
(* orphans do, a job is granted to one holder at a time and to MaxAttempts of *)
(* them at most, and one that was not revoked commits one result.             *)
THEOREM RunnerImplementsLifecycle == Spec => Table!ImplementsLifecycle
BY RunnerDrivesTable, SameLifecycle, Config, T!Refinement, PTL

(* In the running service, too, no step of a poller, a heartbeat, an orphan   *)
(* or a late handler changes the verdict on a job, or overtakes its           *)
(* cancellation (SqlJobRunner, JobRepository.cancel).                         *)
THEOREM VerdictsStandInService == Spec => Table!TerminalIsFinal /\ Table!CancelIsNeverOvertaken
<1>1. T!Terminal = Table!Terminal
  BY SameSets
<1>2. Spec => T!TerminalIsFinal /\ T!CancelIsNeverOvertaken
  BY RunnerDrivesTable, Config, T!TerminalStays, T!CancelStands, PTL
<1>3. [\A j \in Jobs : job[j].status \in T!Terminal =>
         job'[j] = job[j] /\ attempt'[j] = attempt[j]]_T!vars
      => [\A j \in Jobs : job[j].status \in Table!Terminal =>
            job'[j] = job[j] /\ attempt'[j] = attempt[j]]_Table!vars
  BY <1>1 DEF T!vars, Table!vars
<1>4. [\A j \in Jobs : job[j].status = "cancel_requested" =>
         job'[j].status \in {"cancel_requested", "cancelled"}]_T!vars
      => [\A j \in Jobs : job[j].status = "cancel_requested" =>
            job'[j].status \in {"cancel_requested", "cancelled"}]_Table!vars
  BY DEF T!vars, Table!vars
<1> QED BY <1>2, <1>3, <1>4, PTL
           DEF T!TerminalIsFinal, Table!TerminalIsFinal, T!CancelIsNeverOvertaken,
               Table!CancelIsNeverOvertaken

(* Handlers of one job may be at work in several places; the fence lets one  *)
(* of them through.                                                          *)
LEMMA OneIsFenced == RunnerInv => OneHandlerHoldsTheFence
<1> SUFFICES ASSUME RunnerInv, NEW j \in Jobs
             PROVE  Cardinality({h \in HandlersOf(j) :
                       Table!Fenced(j, h.owner, h.token, 0, Table!Leased)}) <= 1
  BY DEF OneHandlerHoldsTheFence
<1> DEFINE Awaited(o) == [owner |-> o, job |-> j, token |-> proc[o].token, awaited |-> TRUE]
           S == {h \in HandlersOf(j) : Table!Fenced(j, h.owner, h.token, 0, Table!Leased)}
<1>1. \A h \in S : h.owner = job[j].owner /\ h.token = job[j].token
  BY DEF Table!Fenced
<1>2. \A h \in S :
         \/ h \in orphans /\ h.job = j
         \/ \E o \in Owners : proc[o].job = j /\ proc[o].task = "running" /\ h = Awaited(o)
  BY DEF HandlersOf
<1>3. \A h \in orphans : h = [owner |-> h.owner, job |-> h.job, token |-> h.token]
  BY DEF RunnerInv, RunnerTypes, Tasks
<1>4. ASSUME NEW o \in Owners, proc[o].job = j, proc[o].task = "running"
      PROVE  ClaimOf(o) \notin orphans
  BY <1>4, ProcsAreSound DEF RunnerInv, HoldersKnow, Working, Sound
<1>5. ASSUME NEW g \in S, NEW h \in S
      PROVE  g = h
  <2>1. g.owner = h.owner /\ g.token = h.token
    BY <1>1, <1>5
  <2>2. ASSUME NEW x \in S, NEW o \in Owners, x \in orphans, x.job = j, proc[o].job = j,
               proc[o].task = "running", x.owner = o, x.token = proc[o].token
        PROVE  FALSE
    BY <1>3, <1>4, <2>2 DEF ClaimOf
  <2>3. CASE g \in orphans /\ h \in orphans /\ g.job = j /\ h.job = j
    BY <1>3, <2>1, <2>3
  <2>4. CASE g \notin orphans /\ h \notin orphans
    <3>1. PICK p \in Owners : g = Awaited(p)
      BY <1>2, <2>4
    <3>2. PICK q \in Owners : h = Awaited(q)
      BY <1>2, <2>4
    <3>3. p = q
      BY <2>1, <3>1, <3>2
    <3> QED BY <3>1, <3>2, <3>3
  <2>5. CASE g \in orphans /\ g.job = j /\ h \notin orphans
    BY <1>2, <2>1, <2>2, <2>5
  <2>6. CASE h \in orphans /\ h.job = j /\ g \notin orphans
    BY <1>2, <2>1, <2>2, <2>6
  <2> QED BY <1>2, <2>3, <2>4, <2>5, <2>6
<1>6. S = {} \/ \E h \in S : S = {h}
  BY <1>5
<1> HIDE DEF S
<1>7. Cardinality(S) <= 1
  BY <1>6, FS_EmptySet, FS_Singleton
<1> QED BY <1>7 DEF S

(* The business writes of a job are committed exactly when its result is     *)
(* stored, what is counted is in the table, and of all the handlers at work  *)
(* on a job the table would listen to one (SqlJobRunner, JobRepository).     *)
THEOREM ResultsAgreeAlways == Spec => []ResultsAgree
<1>1. RunnerInv => ResultsAgree
  BY OneIsFenced DEF RunnerInv, ResultsAgree
<1> QED BY <1>1, RunnerInvariant, PTL

-----------------------------------------------------------------------------
(* Admission                                                                 *)

(* The records of a transaction, without what relates their fields. *)
Shapes ==
  /\ table \in [Keys -> Rows]
  /\ tx \in [Producers -> Txs]

Settled == \A p \in Producers :
          /\ tx[p].pc # "open" => tx[p].mine \cup tx[p].pending = {}
          /\ Cardinality(tx[p].pending) <= 1

LEMMA TypeOKParts == AdmissionTypeOK <=> Shapes /\ Settled
BY DEF AdmissionTypeOK, Shapes, Settled

LEMMA NoTxTyped ==
  /\ Blank \in [Keys -> Rows] /\ \A k \in Keys : Blank[k].status = "absent"
  /\ NoTx \in Txs
  /\ NoTx.mine = {} /\ NoTx.pending = {} /\ NoTx.answers = {} /\ NoTx.pc = "committed"
<1>1. NoJob \in Rows /\ NoJob.status = "absent"  BY AdmissionAssumption DEF NoJob, Rows
<1>2. Blank \in [Keys -> Rows] /\ \A k \in Keys : Blank[k].status = "absent"  BY <1>1 DEF Blank
<1> QED BY <1>2 DEF NoTx, Txs

(* Every own row has an answer to look its digest up in. *)
Told(p) == \A k \in tx[p].mine : \E a \in tx[p].answers : a.key = k

LEMMA DigestTold ==
  ASSUME NEW p \in Producers, Told(p), NEW k \in tx[p].mine
  PROVE  \E a \in tx[p].answers : a.key = k /\ DigestSeen(p, k) = a.digest
BY DEF Told, DigestSeen

-----------------------------------------------------------------------------
(* What a transaction believes: it has been told one thing about a key; while *)
(* it is open, it created the rows that are its own, found all others in its  *)
(* snapshot, and is about to insert what it does not have.                    *)
Consistent(p) ==
  /\ \A a, b \in tx[p].answers : a.key = b.key => a.digest = b.digest
  /\ tx[p].pc = "open" =>
       /\ Told(p)
       /\ \A a \in tx[p].answers : a.key \notin tx[p].mine =>
            /\ a.kind = "existing"
            /\ tx[p].snapshot[a.key].status # "absent"
            /\ tx[p].snapshot[a.key].digest = a.digest
       /\ \A request \in tx[p].pending : request.key \notin tx[p].mine

(* What it has seen is still there, what it inserted nobody has committed.   *)
UpToDate(p) ==
  tx[p].pc = "open" =>
    \A k \in Keys :
      /\ tx[p].snapshot[k].status # "absent" =>
           table[k].status # "absent" /\ table[k].digest = tx[p].snapshot[k].digest
      /\ k \in tx[p].mine => table[k].status = "absent"

Exclusive ==
  \A p, q \in Producers : p # q => tx[p].mine \cap tx[q].mine = {}

AdmissionInv ==
  /\ Shapes /\ Settled /\ Exclusive /\ AnswersHold
  /\ \A p \in Producers : Consistent(p) /\ UpToDate(p)

LEMMA AdmissionStarts == AdmissionInit => AdmissionInv
<1> SUFFICES ASSUME AdmissionInit PROVE AdmissionInv  OBVIOUS
<1>1. \A p \in Producers : tx[p] = NoTx  BY DEF AdmissionInit
<1>2. Shapes  BY NoTxTyped DEF AdmissionInit, Shapes
<1>3. Settled
  <2>1. Cardinality({}) = 0  BY FS_EmptySet
  <2>2. \A p \in Producers : tx[p].mine = {} /\ tx[p].pending = {}  BY <1>1, NoTxTyped
  <2> QED BY <2>1, <2>2 DEF Settled
<1>4. Exclusive /\ AnswersHold /\ \A p \in Producers : Consistent(p) /\ UpToDate(p)
  BY <1>1, NoTxTyped DEF Exclusive, AnswersHold, Consistent, UpToDate
<1> QED BY <1>2, <1>3, <1>4 DEF AdmissionInv

(* A step of one transaction that leaves the table alone keeps the invariant  *)
(* if its own part of it holds again and it is not committed.                 *)
LEMMA OwnStep ==
  ASSUME AdmissionInv, NEW p \in Producers, NEW t \in Txs,
         UNCHANGED table, tx' = [tx EXCEPT ![p] = t], t.pc # "committed",
         t.pc # "open" => t.mine \cup t.pending = {}, Cardinality(t.pending) <= 1,
         \A q \in Producers \ {p} : t.mine \cap tx[q].mine = {},
         Consistent(p)', UpToDate(p)'
  PROVE  AdmissionInv'
<1>1. /\ tx'[p] = t /\ \A q \in Producers \ {p} : tx'[q] = tx[q]
      /\ table' = table
  BY DEF AdmissionInv, Shapes
<1>2. Shapes'  BY DEF AdmissionInv, Shapes
<1>3. Settled'  BY <1>1 DEF AdmissionInv, Settled
<1>4. Exclusive'  BY <1>1 DEF AdmissionInv, Exclusive
<1>5. AnswersHold'
  <2>1. ASSUME NEW q \in Producers, tx'[q].pc = "committed" PROVE tx'[q] = tx[q]
    BY <1>1, <2>1
  <2> QED BY <1>1, <2>1 DEF AdmissionInv, AnswersHold
<1>6. ASSUME NEW q \in Producers PROVE Consistent(q)' /\ UpToDate(q)'
  <2>1. CASE q # p
    BY <1>1, <2>1 DEF AdmissionInv, Consistent, UpToDate, Told
  <2> QED BY <2>1
<1> QED BY <1>2, <1>3, <1>4, <1>5, <1>6 DEF AdmissionInv

LEMMA NewStep ==
  ASSUME AdmissionInv, NEW p \in Producers, NEW t \in Txs, UNCHANGED table,
         tx' = [tx EXCEPT ![p] = t],
         t.pc \in {"open", "rolled_back"}, t.snapshot \in {Blank, table},
         t.mine = {}, t.pending = {}, t.answers = {}
  PROVE  AdmissionInv'
<1>1. tx'[p] = t  BY DEF AdmissionInv, Shapes
<1>2. Consistent(p)'  BY <1>1 DEF Consistent, Told
<1>3. UpToDate(p)'  BY <1>1, NoTxTyped DEF UpToDate
<1>4. Cardinality(t.pending) <= 1
  <2>1. Cardinality({}) = 0  BY FS_EmptySet
  <2> QED BY <2>1
<1> QED BY <1>2, <1>3, <1>4, OwnStep

LEMMA BeginStep ==
  ASSUME AdmissionInv, NEW p \in Producers, Begin(p) PROVE AdmissionInv'
<1> DEFINE t == [NoTx EXCEPT !.pc = "open", !.snapshot = table]
<1>1. /\ t \in Txs /\ t.pc = "open" /\ t.snapshot = table
      /\ t.mine = {} /\ t.pending = {} /\ t.answers = {}
  BY NoTxTyped DEF NoTx, Txs, AdmissionInv, Shapes
<1>2. tx' = [tx EXCEPT ![p] = t] /\ UNCHANGED table  BY DEF Begin
<1> HIDE DEF t
<1> QED BY <1>1, <1>2, NewStep

LEMMA RefuseStep ==
  ASSUME AdmissionInv, NEW p \in Producers, Refuse(p), UNCHANGED table PROVE AdmissionInv'
<1> DEFINE t == [NoTx EXCEPT !.pc = "rolled_back"]
<1>1. /\ t \in Txs /\ t.pc = "rolled_back" /\ t.snapshot = Blank
      /\ t.mine = {} /\ t.pending = {} /\ t.answers = {}
  BY NoTxTyped DEF NoTx, Txs
<1>2. tx' = [tx EXCEPT ![p] = t]  BY DEF Refuse
<1> HIDE DEF t
<1> QED BY <1>1, <1>2, NewStep

LEMMA AskStep ==
  ASSUME AdmissionInv, NEW p \in Producers, NEW request \in Requests, Ask(p, request) PROVE AdmissionInv'
<1> DEFINE k == request.key
           d == request.digest
           a == [key |-> k, digest |-> d, kind |-> "existing"]
<1>1. k \in Keys /\ d \in Digests  BY AdmissionAssumption
<1>2. /\ tx[p].pc = "open" /\ tx[p].pending = {} /\ UNCHANGED table
      /\ tx[p] \in Txs /\ Consistent(p) /\ UpToDate(p)
      /\ \A q \in Producers \ {p} : tx[p].mine \cap tx[q].mine = {}
  BY DEF Ask, AdmissionInv, Shapes, Exclusive
<1>3. ASSUME Sees(p, k), DigestSeen(p, k) = d,
             tx' = [tx EXCEPT ![p] = [tx[p] EXCEPT !.answers = @ \cup {a}]]
      PROVE  AdmissionInv'
  <2> DEFINE t == [tx[p] EXCEPT !.answers = @ \cup {a}]
  <2>1. /\ t \in Txs /\ t.pc = "open" /\ t.pending = {}
        /\ t.mine = tx[p].mine /\ t.snapshot = tx[p].snapshot
        /\ t.answers = tx[p].answers \cup {a}
    <3>1. a \in Answers  BY <1>1 DEF Answers
    <3> QED BY <1>2, <3>1 DEF Txs
  <2>2. tx' = [tx EXCEPT ![p] = t]  BY <1>3
  <2>3. a.key = k /\ a.digest = d /\ a.kind = "existing"  OBVIOUS
  <2> HIDE DEF t, a, k, d
  <2>4. tx'[p] = t  BY <2>2 DEF AdmissionInv, Shapes
  <2>5. ASSUME NEW b \in tx[p].answers, b.key = k PROVE b.digest = d
    <3>1. CASE k \in tx[p].mine
      <4>1. \E c \in tx[p].answers : c.key = k /\ DigestSeen(p, k) = c.digest
        BY <1>2, <3>1, DigestTold DEF Consistent
      <4> QED BY <1>2, <1>3, <2>5, <4>1 DEF Consistent
    <3>2. CASE k \notin tx[p].mine
      BY <1>2, <1>3, <2>5, <3>2 DEF Consistent, DigestSeen
    <3> QED BY <3>1, <3>2
  <2>6. k \notin tx[p].mine => tx[p].snapshot[k].status # "absent" /\ tx[p].snapshot[k].digest = d
    BY <1>3 DEF Sees, DigestSeen
  <2>7. Consistent(p)'
    BY <1>2, <2>1, <2>3, <2>4, <2>5, <2>6 DEF Consistent, Told
  <2>8. UpToDate(p)'  BY <1>2, <2>1, <2>4 DEF UpToDate
  <2>9. Cardinality(t.pending) <= 1
    <3>1. Cardinality({}) = 0  BY FS_EmptySet
    <3> QED BY <2>1, <3>1
  <2> QED BY <1>2, <2>1, <2>2, <2>7, <2>8, <2>9, OwnStep
<1>4. ASSUME ~Sees(p, k), tx' = [tx EXCEPT ![p] = [tx[p] EXCEPT !.pending = {request}]]
      PROVE  AdmissionInv'
  <2> DEFINE t == [tx[p] EXCEPT !.pending = {request}]
  <2>1. /\ t \in Txs /\ t.pc = "open" /\ t.pending = {request}
        /\ t.mine = tx[p].mine /\ t.snapshot = tx[p].snapshot /\ t.answers = tx[p].answers
    BY <1>2 DEF Txs
  <2>2. tx' = [tx EXCEPT ![p] = t]  BY <1>4
  <2> HIDE DEF t
  <2>3. tx'[p] = t  BY <2>2 DEF AdmissionInv, Shapes
  <2>4. request.key \notin tx[p].mine  BY <1>4 DEF Sees
  <2>5. Consistent(p)'
    BY <1>2, <2>1, <2>3, <2>4 DEF Consistent, Told
  <2>6. UpToDate(p)'  BY <1>2, <2>1, <2>3 DEF UpToDate
  <2>7. Cardinality(t.pending) <= 1
    <3>1. Cardinality({request}) = 1  BY FS_Singleton
    <3> QED BY <2>1, <3>1
  <2> QED BY <1>2, <2>1, <2>2, <2>5, <2>6, <2>7, OwnStep
<1>5. CASE Refuse(p)  BY <1>2, <1>5, RefuseStep
<1> QED BY <1>3, <1>4, <1>5 DEF Ask

LEMMA InsertStep ==
  ASSUME AdmissionInv, NEW p \in Producers, Insert(p) PROVE AdmissionInv'
<1>1. PICK request \in tx[p].pending :
        /\ \A q \in Producers \ {p} : request.key \notin tx[q].mine
        /\ IF table[request.key].status = "absent"
           THEN tx' = [tx EXCEPT ![p] = [tx[p] EXCEPT !.mine = @ \cup {request.key}, !.pending = {},
                                 !.answers = @ \cup {[key |-> request.key, digest |-> request.digest,
                                                         kind |-> "created"]}]]
           ELSE Refuse(p)
        /\ UNCHANGED table
  BY DEF Insert
<1> DEFINE k == request.key
           d == request.digest
           a == [key |-> k, digest |-> d, kind |-> "created"]
<1>2. /\ tx[p] \in Txs /\ Consistent(p) /\ UpToDate(p) /\ tx[p].pc = "open"
      /\ \A q \in Producers \ {p} : tx[p].mine \cap tx[q].mine = {}
  BY DEF AdmissionInv, Shapes, Exclusive, Settled
<1>3. k \in Keys /\ d \in Digests /\ k \notin tx[p].mine
  <2>1. request \in Requests  BY <1>2 DEF Txs
  <2> QED BY <1>2, <2>1, AdmissionAssumption DEF Consistent
<1>4. CASE table[k].status = "absent"
  <2> DEFINE t == [tx[p] EXCEPT !.mine = @ \cup {k}, !.pending = {}, !.answers = @ \cup {a}]
  <2>1. /\ t \in Txs /\ t.pc = "open" /\ t.pending = {}
        /\ t.mine = tx[p].mine \cup {k} /\ t.snapshot = tx[p].snapshot
        /\ t.answers = tx[p].answers \cup {a}
    <3>1. a \in Answers  BY <1>3 DEF Answers
    <3> QED BY <1>2, <1>3, <3>1 DEF Txs
  <2>2. tx' = [tx EXCEPT ![p] = t]  BY <1>1, <1>4
  <2>3. a.key = k /\ a.digest = d  OBVIOUS
  <2>4. \A q \in Producers \ {p} : t.mine \cap tx[q].mine = {}  BY <1>1, <1>2, <2>1
  <2> HIDE DEF t, a, k, d
  <2>5. tx'[p] = t /\ UNCHANGED table  BY <1>1, <2>2 DEF AdmissionInv, Shapes
  <2>6. ASSUME NEW b \in tx[p].answers PROVE b.key # k
    BY <1>2, <1>3, <1>4 DEF Consistent, UpToDate
  <2>7. Consistent(p)'
    BY <1>2, <2>1, <2>3, <2>5, <2>6 DEF Consistent, Told
  <2>8. UpToDate(p)'  BY <1>2, <1>4, <2>1, <2>5 DEF UpToDate
  <2>9. Cardinality(t.pending) <= 1
    <3>1. Cardinality({}) = 0  BY FS_EmptySet
    <3> QED BY <2>1, <3>1
  <2> QED BY <2>1, <2>2, <2>4, <2>5, <2>7, <2>8, <2>9, OwnStep
<1>5. CASE table[k].status # "absent"
  BY <1>1, <1>5, RefuseStep
<1> QED BY <1>4, <1>5

LEMMA CommitStep ==
  ASSUME AdmissionInv, NEW p \in Producers, Commit(p) PROVE AdmissionInv'
<1> DEFINE t == [NoTx EXCEPT !.answers = tx[p].answers]
<1>1. /\ tx[p] \in Txs /\ Consistent(p) /\ UpToDate(p) /\ tx[p].pc = "open"
      /\ \A q \in Producers \ {p} : tx[p].mine \cap tx[q].mine = {}
  BY DEF AdmissionInv, Shapes, Exclusive, Commit
<1>2. /\ t \in Txs /\ t.pc = "committed" /\ t.mine = {} /\ t.pending = {}
      /\ t.answers = tx[p].answers
  BY <1>1, NoTxTyped DEF NoTx, Txs
<1>3. tx' = [tx EXCEPT ![p] = t]  BY DEF Commit
<1> HIDE DEF t
<1>4. tx'[p] = t /\ \A q \in Producers \ {p} : tx'[q] = tx[q]
  BY <1>3 DEF AdmissionInv, Shapes
<1>5. /\ \A k \in Keys \ tx[p].mine : table'[k] = table[k]
      /\ \A k \in tx[p].mine : /\ table[k].status = "absent"
                               /\ table'[k].status = "active" /\ table'[k].digest = DigestSeen(p, k)
      /\ tx[p].mine \subseteq Keys
  BY <1>1 DEF Commit, UpToDate, Txs
(* Its answers are true now: what it made is there with what it asked for.   *)
<1>6. ASSUME NEW a \in tx[p].answers
      PROVE  /\ a.key \in Keys /\ a.digest \in Digests
             /\ table'[a.key].status # "absent" /\ table'[a.key].digest = a.digest
             /\ a.key \notin tx[p].mine => a.kind = "existing" /\ table[a.key].status # "absent"
  <2>1. a \in Answers  BY <1>1 DEF Txs
  <2>2. a.key \in Keys /\ a.digest \in Digests  BY <2>1 DEF Answers
  <2>3. CASE a.key \in tx[p].mine
    <3>1. PICK b \in tx[p].answers : b.key = a.key /\ DigestSeen(p, a.key) = b.digest
      BY <1>1, <2>3, DigestTold DEF Consistent
    <3>2. b.digest = a.digest  BY <1>1, <3>1 DEF Consistent
    <3> QED BY <1>5, <2>2, <2>3, <3>1, <3>2
  <2>4. CASE a.key \notin tx[p].mine
    BY <1>1, <1>5, <2>2, <2>4 DEF Consistent, UpToDate
  <2> QED BY <2>3, <2>4
<1>7. Shapes'
  <2>1. ASSUME NEW k \in tx[p].mine PROVE [status |-> "active", digest |-> DigestSeen(p, k)] \in Rows
    <3>1. PICK b \in tx[p].answers : b.key = k /\ DigestSeen(p, k) = b.digest
      BY <1>1, DigestTold DEF Consistent
    <3> QED BY <1>6, <3>1 DEF Rows
  <2>2. \A k \in Keys : table[k] \in Rows  BY DEF AdmissionInv, Shapes
  <2>3. table' \in [Keys -> Rows]  BY <2>1, <2>2 DEF Commit
  <2> QED BY <1>2, <1>3, <2>3 DEF AdmissionInv, Shapes
<1>8. Settled'
  <2>1. Cardinality({}) = 0  BY FS_EmptySet
  <2>2. t.mine \cup t.pending = {} /\ Cardinality(t.pending) <= 1  BY <1>2, <2>1
  <2> QED BY <1>4, <2>2 DEF AdmissionInv, Settled
<1>9. Exclusive'  BY <1>2, <1>4 DEF AdmissionInv, Exclusive
<1>10. ASSUME NEW q \in Producers, q # p, tx[q].pc = "committed", NEW b \in tx[q].answers
       PROVE  /\ table[b.key].status # "absent" /\ table'[b.key] = table[b.key]
              /\ table[b.key].digest = b.digest /\ b.key \notin tx[p].mine
  <2>1. b.key \in Keys  BY DEF AdmissionInv, Shapes, Txs, Answers
  <2>2. table[b.key].status # "absent" /\ table[b.key].digest = b.digest
    BY <1>10 DEF AdmissionInv, AnswersHold
  <2> QED BY <1>5, <2>1, <2>2
<1>11. AnswersHold'
  <2>1. ASSUME NEW q \in Producers, tx'[q].pc = "committed", NEW a \in tx'[q].answers
        PROVE  table'[a.key].status # "absent" /\ table'[a.key].digest = a.digest
    BY <1>2, <1>4, <1>6, <1>10, <2>1
  <2>2. ASSUME NEW q \in Producers, q # p, tx[q].pc = "committed",
               NEW a \in tx[p].answers, NEW b \in tx[q].answers, a.key = b.key
        PROVE  a.kind = "existing"
    BY <1>6, <1>10, <2>2
  <2>3. ASSUME NEW q \in Producers, NEW r \in Producers, q # r,
               tx'[q].pc = "committed", tx'[r].pc = "committed",
               NEW a \in tx'[q].answers, NEW b \in tx'[r].answers, a.key = b.key
        PROVE  "existing" \in {a.kind, b.kind}
    <3>1. CASE q = p  BY <1>2, <1>4, <2>2, <2>3, <3>1
    <3>2. CASE r = p  BY <1>2, <1>4, <2>2, <2>3, <3>2
    <3>3. CASE q # p /\ r # p
      BY <1>4, <2>3, <3>3 DEF AdmissionInv, AnswersHold
    <3> QED BY <3>1, <3>2, <3>3
  <2> QED BY <2>1, <2>3 DEF AnswersHold
<1>12. ASSUME NEW q \in Producers PROVE Consistent(q)' /\ UpToDate(q)'
  <2>1. CASE q = p
    BY <1>1, <1>2, <1>4, <2>1 DEF Consistent, UpToDate
  <2>2. CASE q # p
    <3>1. Consistent(q)'  BY <1>4, <2>2 DEF AdmissionInv, Consistent, Told
    <3>2. UpToDate(q)'
      <4> SUFFICES ASSUME tx[q].pc = "open", NEW k \in Keys
                   PROVE  /\ tx[q].snapshot[k].status # "absent" =>
                               table'[k].status # "absent" /\ table'[k].digest = tx[q].snapshot[k].digest
                          /\ k \in tx[q].mine => table'[k].status = "absent"
        BY <1>4, <2>2 DEF UpToDate
      <4>1. UpToDate(q)  BY DEF AdmissionInv
      <4>2. CASE k \in tx[p].mine
        BY <1>1, <1>5, <2>2, <4>1, <4>2 DEF UpToDate
      <4>3. CASE k \notin tx[p].mine
        BY <1>5, <4>1, <4>3 DEF UpToDate
      <4> QED BY <4>2, <4>3
    <3> QED BY <3>1, <3>2
  <2> QED BY <2>1, <2>2
<1> QED BY <1>7, <1>8, <1>9, <1>11, <1>12 DEF AdmissionInv

LEMMA FinishStep ==
  ASSUME AdmissionInv, NEW k \in Keys, Finish(k) PROVE AdmissionInv'
<1>1. /\ table' \in [Keys -> Rows] /\ tx' = tx
      /\ \A i \in Keys : /\ table'[i].digest = table[i].digest
                         /\ table'[i].status = "absent" <=> table[i].status = "absent"
  BY DEF Finish, AdmissionInv, Shapes, Rows
<1>2. Shapes' /\ Settled' /\ Exclusive'  BY <1>1 DEF AdmissionInv, Shapes, Settled, Exclusive
<1>3. AnswersHold'
  <2>1. \A p \in Producers : \A a \in tx[p].answers : a.key \in Keys
    BY DEF AdmissionInv, Shapes, Txs, Answers
  <2> QED BY <1>1, <2>1 DEF AdmissionInv, AnswersHold
<1>4. \A p \in Producers : Consistent(p)' /\ UpToDate(p)'
  BY <1>1 DEF AdmissionInv, Consistent, Told, UpToDate
<1> QED BY <1>2, <1>3, <1>4 DEF AdmissionInv

LEMMA AdmissionInvariant == AdmissionSpec => []AdmissionInv
<1>1. AdmissionInv /\ [AdmissionNext]_admissionVars => AdmissionInv'
  <2> SUFFICES ASSUME AdmissionInv, [AdmissionNext]_admissionVars PROVE AdmissionInv'  OBVIOUS
  <2>1. ASSUME NEW p \in Producers, Begin(p) \/ Insert(p) \/ Commit(p) PROVE AdmissionInv'
    BY <2>1, BeginStep, InsertStep, CommitStep
  <2>2. ASSUME NEW p \in Producers, Rollback(p) PROVE AdmissionInv'
    BY <2>2, RefuseStep DEF Rollback, Refuse
  <2>3. ASSUME NEW p \in Producers, NEW request \in Requests, Ask(p, request) PROVE AdmissionInv'
    BY <2>3, AskStep
  <2>4. ASSUME NEW k \in Keys, Finish(k) PROVE AdmissionInv'  BY <2>4, FinishStep
  <2>5. CASE UNCHANGED admissionVars
    BY <2>5 DEF admissionVars, AdmissionInv, Shapes, Settled, Exclusive, AnswersHold, Consistent, Told, UpToDate
  <2> QED BY <2>1, <2>2, <2>3, <2>4, <2>5 DEF AdmissionNext
<1> QED BY <1>1, AdmissionStarts, PTL DEF AdmissionSpec

(* Rows and transactions of enqueue keep their shape; between its tests and   *)
(* its INSERT a transaction is about one request.                             *)
THEOREM AdmissionTyped == AdmissionSpec => []AdmissionTypeOK
<1>1. AdmissionInv => AdmissionTypeOK  BY TypeOKParts DEF AdmissionInv
<1> QED BY <1>1, AdmissionInvariant, PTL

(* What enqueue told a transaction that committed is in the table, with its    *)
(* payload, and of all that were told of a key one created it.                 *)
THEOREM AnswersHoldAlways == AdmissionSpec => []AnswersHold
<1>1. AdmissionInv => AnswersHold  BY DEF AdmissionInv
<1> QED BY <1>1, AdmissionInvariant, PTL

(* A committed row is nobody else's to write: not a commit of another          *)
(* transaction, however old its snapshot, and what ends a job keeps its payload *)
(* (the unique key of jobs, enqueue).                                          *)
RowsStand ==
  [][\A k \in Keys : table[k].status # "absent" =>
       \/ table'[k] = table[k]
       \/ /\ table[k].status = "active" /\ table'[k].status = "terminal"
          /\ table'[k].digest = table[k].digest]_admissionVars

THEOREM RowsStandAlways == AdmissionSpec => RowsStand
<1> DEFINE Stands(k) ==
             \/ table'[k] = table[k]
             \/ /\ table[k].status = "active" /\ table'[k].status = "terminal"
                /\ table'[k].digest = table[k].digest
<1>1. ASSUME AdmissionInv, [AdmissionNext]_admissionVars, NEW k \in Keys, table[k].status # "absent"
      PROVE  Stands(k)
  <2>1. ASSUME NEW p \in Producers, Commit(p) PROVE Stands(k)
    <3>1. UpToDate(p) /\ tx[p].pc = "open"
      BY <1>1, <2>1 DEF AdmissionInv, Commit
    <3>2. k \notin tx[p].mine
      BY <1>1, <3>1 DEF UpToDate
    <3> QED BY <2>1, <3>2 DEF Commit
  <2>2. ASSUME NEW i \in Keys, Finish(i) PROVE Stands(k)
    BY <2>2, <1>1 DEF Finish, AdmissionInv, Shapes, Rows
  <2>3. CASE UNCHANGED table
    BY <2>3
  <2> HIDE DEF Stands
  <2> QED
    BY <1>1, <2>1, <2>2, <2>3
       DEF AdmissionNext, admissionVars, Begin, Insert, Rollback, Ask
<1>2. AdmissionInv /\ [AdmissionNext]_admissionVars =>
        [\A k \in Keys : table[k].status # "absent" => Stands(k)]_admissionVars
  BY <1>1
<1> QED BY <1>2, AdmissionInvariant, PTL DEF AdmissionSpec, RowsStand

-----------------------------------------------------------------------------
(* The backlog.  Each active row is charged to the transaction that committed *)
(* it, and what a producer is charged for never exceeds a limit: a commit     *)
(* adds to what the transaction counted, and rows its producer had committed  *)
(* before and that are still active were active in its snapshot, so that they *)
(* were counted.  The rows of others it did not see are charged to others.    *)
Budgets == {[scopes |-> Scopes, limit |-> GlobalLimit]}
             \cup {[scopes |-> {s}, limit |-> ScopeLimit] : s \in Scopes}

SeenIn(p, b) == {k \in ActiveSeen(p) : ScopeOf[k] \in b.scopes}

(* What the transaction counted leaves room for all it inserts.               *)
WithinLimits(p) ==
  tx[p].pc = "open" => \A b \in Budgets :
    /\ (\E k \in tx[p].mine : ScopeOf[k] \in b.scopes) => Cardinality(SeenIn(p, b)) <= b.limit
    /\ \A request \in tx[p].pending :
         ScopeOf[request.key] \in b.scopes => Cardinality(SeenIn(p, b)) < b.limit

ChargedTo(by, p, b) == {k \in Active(b.scopes) : by[k] = p}

Accounts(by) ==
  /\ \A k \in Keys : table[k].status = "active" => by[k] \in Producers
  /\ \A p \in Producers, b \in Budgets : Cardinality(ChargedTo(by, p, b)) <= b.limit
  /\ \A p \in Producers : tx[p].pc = "open" =>
       \A k \in Keys : table[k].status = "active" /\ by[k] = p => tx[p].snapshot[k].status = "active"

BacklogInv == (\A p \in Producers : WithinLimits(p)) /\ \E by : Accounts(by)

LEMMA BudgetsAreSound ==
  ASSUME NEW b \in Budgets
  PROVE  b.limit \in Nat /\ b.limit >= 1
BY AdmissionAssumption DEF Budgets

LEMMA KeysCount ==
  ASSUME NEW S, NEW U, U \subseteq Keys, S \subseteq U
  PROVE  /\ Cardinality(S) \in Nat /\ Cardinality(U) \in Nat
         /\ Cardinality(S) <= Cardinality(U)
<1>1. IsFiniteSet(U)  BY FS_Subset, AdmissionAssumption
<1>2. IsFiniteSet(S) /\ Cardinality(S) <= Cardinality(U)  BY <1>1, FS_Subset
<1> QED BY <1>1, <1>2, FS_CardinalityType

LEMMA BacklogStarts == AdmissionInit => BacklogInv
<1> SUFFICES ASSUME AdmissionInit PROVE BacklogInv  OBVIOUS
<1>1. \A p \in Producers : tx[p].pc = "committed"  BY NoTxTyped DEF AdmissionInit
<1>2. \A k \in Keys : table[k].status # "active"  BY NoTxTyped DEF AdmissionInit
<1>3. ASSUME NEW p \in Producers, NEW b \in Budgets PROVE Cardinality(ChargedTo(table, p, b)) <= b.limit
  <2>1. ChargedTo(table, p, b) = {}  BY <1>2 DEF ChargedTo, Active
  <2> QED BY <2>1, FS_EmptySet, BudgetsAreSound
<1>4. Accounts(table)  BY <1>1, <1>2, <1>3 DEF Accounts
<1> QED BY <1>1, <1>4 DEF BacklogInv, WithinLimits

(* The table only loses active rows, and every transaction other than p is    *)
(* what it was: the accounts stand if p's transaction is over or still has    *)
(* its snapshot or one of now.                                                *)
LEMMA AccountsStand ==
  ASSUME AdmissionInv, NEW by, Accounts(by),
         \A k \in Keys : table'[k].status = "active" => table[k].status = "active",
         \A q \in Producers : \/ tx'[q].pc = tx[q].pc /\ tx'[q].snapshot = tx[q].snapshot
                              \/ tx'[q].pc # "open"
                              \/ tx'[q].snapshot = table'
  PROVE  Accounts(by)'
<1>1. ASSUME NEW q \in Producers, NEW b \in Budgets PROVE Cardinality(ChargedTo(by, q, b)') <= b.limit
  <2>1. ChargedTo(by, q, b)' \subseteq ChargedTo(by, q, b) /\ ChargedTo(by, q, b) \subseteq Keys
    BY DEF ChargedTo, Active
  <2>2. Cardinality(ChargedTo(by, q, b)) <= b.limit  BY DEF Accounts
  <2> QED BY <2>1, <2>2, KeysCount, BudgetsAreSound
<1>2. ASSUME NEW q \in Producers, tx'[q].pc = "open", NEW k \in Keys, table'[k].status = "active", by[k] = q
      PROVE  tx'[q].snapshot[k].status = "active"
  BY <1>2 DEF Accounts
<1> QED BY <1>1, <1>2 DEF Accounts, ChargedTo, Active, Budgets

(* A transaction that counts, with the tests passed, may insert one more.      *)
LEMMA TestsPassed ==
  ASSUME NEW p \in Producers, NEW b \in Budgets, NEW k \in Keys,
         ~Backlogged(p, ScopeOf[k]), ScopeOf[k] \in b.scopes
  PROVE  Cardinality(SeenIn(p, b)) < b.limit
<1> DEFINE S == {i \in ActiveSeen(p) : ScopeOf[i] = ScopeOf[k]}
<1>1. Cardinality(ActiveSeen(p)) \in Nat /\ Cardinality(S) \in Nat
  BY KeysCount DEF ActiveSeen
<1>2. Cardinality(ActiveSeen(p)) < GlobalLimit /\ Cardinality(S) < ScopeLimit
  BY <1>1, AdmissionAssumption DEF Backlogged
<1>3. CASE b = [scopes |-> Scopes, limit |-> GlobalLimit]
  <2>1. SeenIn(p, b) = ActiveSeen(p)  BY <1>3, AdmissionAssumption DEF SeenIn, ActiveSeen
  <2> QED BY <1>2, <1>3, <2>1
<1>4. ASSUME NEW s \in Scopes, b = [scopes |-> {s}, limit |-> ScopeLimit]
      PROVE  Cardinality(SeenIn(p, b)) < b.limit
  <2>1. SeenIn(p, b) = S  BY <1>4 DEF SeenIn
  <2> QED BY <1>2, <1>4, <2>1
<1> QED BY <1>3, <1>4 DEF Budgets

LEMMA WithinStands ==
  ASSUME NEW p \in Producers, WithinLimits(p),
         tx'[p].pc = tx[p].pc, tx'[p].mine = tx[p].mine,
         tx'[p].pending = tx[p].pending, tx'[p].snapshot = tx[p].snapshot
  PROVE  WithinLimits(p)'
<1>1. ASSUME NEW b \in Budgets PROVE SeenIn(p, b)' = SeenIn(p, b)
  BY DEF SeenIn, ActiveSeen
<1> QED BY <1>1 DEF WithinLimits, Budgets

(* Steps that leave the committed rows alone.                                  *)
LEMMA BacklogOwnStep ==
  ASSUME AdmissionInv, BacklogInv, NEW p \in Producers, NEW t, UNCHANGED table,
         tx' = [tx EXCEPT ![p] = t], WithinLimits(p)',
         t.pc = "open" => t.snapshot = table \/ (tx[p].pc = "open" /\ t.snapshot = tx[p].snapshot)
  PROVE  BacklogInv'
<1>1. tx'[p] = t /\ \A q \in Producers \ {p} : tx'[q] = tx[q]  BY DEF AdmissionInv, Shapes
<1>2. \A q \in Producers : WithinLimits(q)'  BY <1>1, WithinStands DEF BacklogInv
<1>3. PICK by : Accounts(by)  BY DEF BacklogInv
<1>4. Accounts(by)'  BY <1>1, <1>3, AccountsStand
<1> QED BY <1>2, <1>4 DEF BacklogInv

LEMMA BacklogBegin ==
  ASSUME AdmissionInv, BacklogInv, NEW p \in Producers, Begin(p) PROVE BacklogInv'
<1> DEFINE t == [NoTx EXCEPT !.pc = "open", !.snapshot = table]
<1>1. t.snapshot = table /\ t.mine = {} /\ t.pending = {}  BY NoTxTyped DEF NoTx
<1>2. tx' = [tx EXCEPT ![p] = t] /\ UNCHANGED table  BY DEF Begin
<1> HIDE DEF t
<1>3. tx'[p] = t  BY <1>2 DEF AdmissionInv, Shapes
<1>4. WithinLimits(p)'  BY <1>1, <1>3 DEF WithinLimits
<1> QED BY <1>1, <1>2, <1>4, BacklogOwnStep

LEMMA BacklogRefuse ==
  ASSUME AdmissionInv, BacklogInv, NEW p \in Producers, Refuse(p), UNCHANGED table PROVE BacklogInv'
<1> DEFINE t == [NoTx EXCEPT !.pc = "rolled_back"]
<1>1. t.pc = "rolled_back"  BY DEF NoTx
<1>2. tx' = [tx EXCEPT ![p] = t]  BY DEF Refuse
<1> HIDE DEF t
<1>3. tx'[p] = t  BY <1>2 DEF AdmissionInv, Shapes
<1>4. WithinLimits(p)'  BY <1>1, <1>3 DEF WithinLimits
<1> QED BY <1>1, <1>2, <1>4, BacklogOwnStep

LEMMA BacklogAsk ==
  ASSUME AdmissionInv, BacklogInv, NEW p \in Producers, NEW request \in Requests, Ask(p, request)
  PROVE  BacklogInv'
<1> DEFINE k == request.key
<1>1. k \in Keys  BY AdmissionAssumption
<1>2. tx[p].pc = "open" /\ UNCHANGED table /\ tx[p] \in Txs /\ WithinLimits(p)
  BY DEF Ask, AdmissionInv, Shapes, BacklogInv
<1>3. ASSUME NEW a, tx' = [tx EXCEPT ![p] = [tx[p] EXCEPT !.answers = @ \cup {a}]]
      PROVE  BacklogInv'
  <2> DEFINE t == [tx[p] EXCEPT !.answers = @ \cup {a}]
  <2>1. t.pc = tx[p].pc /\ t.mine = tx[p].mine /\ t.pending = tx[p].pending /\ t.snapshot = tx[p].snapshot
    BY <1>2 DEF Txs
  <2>2. tx' = [tx EXCEPT ![p] = t]  BY <1>3
  <2> HIDE DEF t
  <2>3. tx'[p] = t  BY <2>2 DEF AdmissionInv, Shapes
  <2>4. WithinLimits(p)'  BY <1>2, <2>1, <2>3, WithinStands
  <2> QED BY <1>2, <2>1, <2>2, <2>4, BacklogOwnStep
<1>4. ASSUME ~Backlogged(p, ScopeOf[k]),
             tx' = [tx EXCEPT ![p] = [tx[p] EXCEPT !.pending = {request}]]
      PROVE  BacklogInv'
  <2> DEFINE t == [tx[p] EXCEPT !.pending = {request}]
  <2>1. t.pc = "open" /\ t.mine = tx[p].mine /\ t.pending = {request} /\ t.snapshot = tx[p].snapshot
    BY <1>2 DEF Txs
  <2>2. tx' = [tx EXCEPT ![p] = t]  BY <1>4
  <2> HIDE DEF t
  <2>3. tx'[p] = t  BY <2>2 DEF AdmissionInv, Shapes
  <2>4. \A b \in Budgets : SeenIn(p, b)' = SeenIn(p, b)
    BY <2>1, <2>3 DEF SeenIn, ActiveSeen
  <2>5. \A b \in Budgets : ScopeOf[k] \in b.scopes => Cardinality(SeenIn(p, b)) < b.limit
    BY <1>1, <1>4, TestsPassed
  <2>6. WithinLimits(p)'
    BY <1>2, <2>1, <2>3, <2>4, <2>5 DEF WithinLimits, Budgets
  <2> QED BY <1>2, <2>1, <2>2, <2>6, BacklogOwnStep
<1>5. CASE Refuse(p)  BY <1>2, <1>5, BacklogRefuse
<1> QED BY <1>3, <1>4, <1>5 DEF Ask

LEMMA BacklogInsert ==
  ASSUME AdmissionInv, BacklogInv, NEW p \in Producers, Insert(p) PROVE BacklogInv'
<1>1. PICK request \in tx[p].pending :
        /\ IF table[request.key].status = "absent"
           THEN tx' = [tx EXCEPT ![p] = [tx[p] EXCEPT !.mine = @ \cup {request.key}, !.pending = {},
                                 !.answers = @ \cup {[key |-> request.key, digest |-> request.digest,
                                                         kind |-> "created"]}]]
           ELSE Refuse(p)
        /\ UNCHANGED table
  BY DEF Insert
<1> DEFINE k == request.key
           a == [key |-> k, digest |-> request.digest, kind |-> "created"]
<1>2. tx[p] \in Txs /\ tx[p].pc = "open" /\ WithinLimits(p)
  BY DEF AdmissionInv, Shapes, Settled, BacklogInv
<1>3. k \in Keys
  <2>1. request \in Requests  BY <1>2 DEF Txs
  <2> QED BY <2>1, AdmissionAssumption
<1>4. CASE table[k].status = "absent"
  <2> DEFINE t == [tx[p] EXCEPT !.mine = @ \cup {k}, !.pending = {}, !.answers = @ \cup {a}]
  <2>1. /\ t.pc = "open" /\ t.pending = {}
        /\ t.mine = tx[p].mine \cup {k} /\ t.snapshot = tx[p].snapshot
    BY <1>2 DEF Txs
  <2>2. tx' = [tx EXCEPT ![p] = t]  BY <1>1, <1>4
  <2> HIDE DEF t, a, k
  <2>3. tx'[p] = t  BY <2>2 DEF AdmissionInv, Shapes
  <2>4. ASSUME NEW b \in Budgets, NEW i \in tx[p].mine \cup {k}, ScopeOf[i] \in b.scopes
        PROVE  Cardinality(SeenIn(p, b)') <= b.limit
    <3>1. b.limit \in Nat /\ SeenIn(p, b) \subseteq Keys /\ IsFiniteSet(SeenIn(p, b))
      BY BudgetsAreSound, FS_Subset, AdmissionAssumption DEF SeenIn, ActiveSeen
    <3>2. Cardinality(SeenIn(p, b)) \in Nat  BY <3>1, FS_CardinalityType
    <3>3. CASE ScopeOf[k] \in b.scopes
      <4>1. SeenIn(p, b)' = SeenIn(p, b) \cup {k}
        BY <1>3, <2>1, <2>3, <3>3 DEF SeenIn, ActiveSeen
      <4>2. Cardinality(SeenIn(p, b)) < b.limit  BY <1>2, <3>3 DEF WithinLimits, k
      <4>3. Cardinality(SeenIn(p, b) \cup {k}) =
              IF k \in SeenIn(p, b) THEN Cardinality(SeenIn(p, b)) ELSE Cardinality(SeenIn(p, b)) + 1
        BY <3>1, FS_AddElement
      <4> QED BY <3>1, <3>2, <4>1, <4>2, <4>3
    <3>4. CASE ScopeOf[k] \notin b.scopes
      <4>1. SeenIn(p, b)' = SeenIn(p, b)
        BY <2>1, <2>3, <3>4 DEF SeenIn, ActiveSeen
      <4>2. i \in tx[p].mine  BY <2>4, <3>4
      <4> QED BY <1>2, <2>4, <4>1, <4>2 DEF WithinLimits
    <3> QED BY <3>3, <3>4
  <2>5. WithinLimits(p)'  BY <2>1, <2>3, <2>4 DEF WithinLimits, Budgets
  <2> QED BY <1>1, <1>2, <2>1, <2>2, <2>5, BacklogOwnStep
<1>5. CASE table[k].status # "absent"
  BY <1>1, <1>5, BacklogRefuse
<1> QED BY <1>4, <1>5

(* What p is charged for after its commit is what it saw, if it inserted in    *)
(* the budget, and what it was charged for before, if it did not.               *)
LEMMA BacklogCommit ==
  ASSUME AdmissionInv, BacklogInv, NEW p \in Producers, Commit(p) PROVE BacklogInv'
<1>1. /\ tx[p].pc = "open" /\ UpToDate(p) /\ WithinLimits(p) /\ tx[p].mine \subseteq Keys
  BY DEF Commit, AdmissionInv, BacklogInv, Shapes, Txs
<1>2. tx'[p].pc = "committed" /\ \A q \in Producers \ {p} : tx'[q] = tx[q]
  BY NoTxTyped DEF Commit, AdmissionInv, Shapes, NoTx
<1>3. /\ \A k \in Keys \ tx[p].mine : table'[k] = table[k]
      /\ \A k \in tx[p].mine : table[k].status = "absent"
  BY <1>1 DEF Commit, UpToDate
<1>4. PICK by : Accounts(by)  BY DEF BacklogInv
<1>5. PICK now : \A k \in Keys : now[k] = IF k \in tx[p].mine THEN p ELSE by[k]
  <2> DEFINE account == [k \in Keys |-> IF k \in tx[p].mine THEN p ELSE by[k]]
  <2>1. \A k \in Keys : account[k] = IF k \in tx[p].mine THEN p ELSE by[k]  OBVIOUS
  <2> QED BY <2>1
<1>6. ASSUME NEW k \in Keys, table'[k].status = "active" PROVE now[k] \in Producers
  BY <1>3, <1>4, <1>5, <1>6 DEF Accounts
<1>7. ASSUME NEW q \in Producers, NEW b \in Budgets PROVE Cardinality(ChargedTo(now, q, b)') <= b.limit
  <2>1. Cardinality(ChargedTo(by, q, b)) <= b.limit /\ ChargedTo(by, q, b) \subseteq Keys
    BY <1>4 DEF Accounts, ChargedTo, Active
  <2>2. CASE q # p \/ \A k \in tx[p].mine : ScopeOf[k] \notin b.scopes
    <3>1. ChargedTo(now, q, b)' \subseteq ChargedTo(by, q, b)
      BY <1>3, <1>5, <2>2 DEF ChargedTo, Active
    <3> QED BY <2>1, <3>1, KeysCount, BudgetsAreSound
  <2>3. CASE q = p /\ \E k \in tx[p].mine : ScopeOf[k] \in b.scopes
    <3>1. ASSUME NEW k \in ChargedTo(now, q, b)' PROVE k \in SeenIn(p, b)
      <4>1. k \in Keys /\ table'[k].status = "active" /\ ScopeOf[k] \in b.scopes /\ now[k] = p
        BY <2>3, <3>1 DEF ChargedTo, Active
      <4>2. CASE k \in tx[p].mine  BY <4>1, <4>2 DEF SeenIn, ActiveSeen
      <4>3. CASE k \notin tx[p].mine
        <5>1. table[k].status = "active" /\ by[k] = p  BY <1>3, <1>5, <4>1, <4>3
        <5>2. tx[p].snapshot[k].status = "active"  BY <1>1, <1>4, <4>1, <5>1 DEF Accounts
        <5> QED BY <4>1, <5>2 DEF SeenIn, ActiveSeen
      <4> QED BY <4>2, <4>3
    <3>2. Cardinality(SeenIn(p, b)) <= b.limit  BY <1>1, <2>3 DEF WithinLimits
    <3>3. SeenIn(p, b) \subseteq Keys  BY DEF SeenIn, ActiveSeen
    <3>4. ChargedTo(now, q, b)' \subseteq SeenIn(p, b)  BY <3>1
    <3> QED BY <3>2, <3>3, <3>4, KeysCount, BudgetsAreSound
  <2> QED BY <2>2, <2>3
<1>8. ASSUME NEW q \in Producers, tx'[q].pc = "open", NEW k \in Keys,
             table'[k].status = "active", now[k] = q
      PROVE  tx'[q].snapshot[k].status = "active"
  <2>1. q # p /\ tx'[q] = tx[q] /\ k \notin tx[p].mine  BY <1>2, <1>5, <1>8
  <2> QED BY <1>3, <1>4, <1>5, <1>8, <2>1 DEF Accounts
<1>9. Accounts(now)'  BY <1>6, <1>7, <1>8 DEF Accounts, ChargedTo, Active, Budgets
<1>10. \A q \in Producers : WithinLimits(q)'
  <2>1. WithinLimits(p)'  BY <1>2 DEF WithinLimits
  <2>2. ASSUME NEW q \in Producers, q # p PROVE WithinLimits(q)'
    BY <1>2, <2>2, WithinStands DEF BacklogInv
  <2> QED BY <2>1, <2>2
<1> QED BY <1>9, <1>10 DEF BacklogInv

LEMMA BacklogFinish ==
  ASSUME AdmissionInv, BacklogInv, NEW k \in Keys, Finish(k) PROVE BacklogInv'
<1>1. tx' = tx /\ \A i \in Keys : table'[i].status = "active" => table[i].status = "active"
  BY DEF Finish, AdmissionInv, Shapes, Rows
<1>2. PICK by : Accounts(by)  BY DEF BacklogInv
<1>3. Accounts(by)'  BY <1>1, <1>2, AccountsStand
<1>4. \A q \in Producers : WithinLimits(q)'  BY <1>1, WithinStands DEF BacklogInv
<1> QED BY <1>3, <1>4 DEF BacklogInv

LEMMA BacklogNext == AdmissionInv /\ BacklogInv /\ [AdmissionNext]_admissionVars => BacklogInv'
<1> SUFFICES ASSUME AdmissionInv, BacklogInv, [AdmissionNext]_admissionVars PROVE BacklogInv'  OBVIOUS
<1>1. ASSUME NEW p \in Producers, Begin(p) \/ Insert(p) \/ Commit(p) PROVE BacklogInv'
  BY <1>1, BacklogBegin, BacklogInsert, BacklogCommit
<1>2. ASSUME NEW p \in Producers, Rollback(p) PROVE BacklogInv'
  BY <1>2, BacklogRefuse DEF Rollback, Refuse
<1>3. ASSUME NEW p \in Producers, NEW request \in Requests, Ask(p, request) PROVE BacklogInv'
  BY <1>3, BacklogAsk
<1>4. ASSUME NEW k \in Keys, Finish(k) PROVE BacklogInv'  BY <1>4, BacklogFinish
<1>5. ASSUME UNCHANGED admissionVars PROVE BacklogInv'
  <2>1. table' = table /\ tx' = tx  BY <1>5 DEF admissionVars
  <2>2. PICK by : Accounts(by)  BY DEF BacklogInv
  <2>3. Accounts(by)'  BY <2>1, <2>2, AccountsStand
  <2>4. \A q \in Producers : WithinLimits(q)'  BY <2>1, WithinStands DEF BacklogInv
  <2> QED BY <2>3, <2>4 DEF BacklogInv
<1> QED BY <1>1, <1>2, <1>3, <1>4, <1>5 DEF AdmissionNext

(* Of a set split among finitely many owners, with at most n each.              *)
LEMMA SharesBoundTheWhole ==
  ASSUME NEW P, IsFiniteSet(P), NEW S, IsFiniteSet(S), NEW n \in Nat, NEW by,
         \A k \in S : by[k] \in P,
         \A p \in P : Cardinality({k \in S : by[k] = p}) <= n
  PROVE  Cardinality(S) <= Cardinality(P) * n
<1> DEFINE Share(p) == {k \in S : by[k] = p}
           Slots == 1..n
<1>1. ASSUME NEW p \in P PROVE \E f \in [Share(p) -> Slots] : \A i, j \in Share(p) : f[i] = f[j] => i = j
  <2> DEFINE c == Cardinality(Share(p))
  <2>1. IsFiniteSet(Share(p))  BY FS_Subset
  <2>2. c \in Nat /\ c <= n  BY <2>1, FS_CardinalityType
  <2>3. IsFiniteSet(1..c) /\ Cardinality(1..c) = c  BY <2>2, FS_Interval
  <2>4. ExistsBijection(Share(p), 1..c)  BY <2>1, <2>3, FS_SameCardinalityBij
  <2>5. PICK f : f \in Bijection(Share(p), 1..c)  BY <2>4 DEF ExistsBijection
  <2>6. f \in [Share(p) -> 1..c] /\ \A i, j \in Share(p) : f[i] = f[j] => i = j
    BY <2>5 DEF Bijection, Injection, IsInjective
  <2>7. 1..c \subseteq Slots  BY <2>2
  <2> QED BY <2>6, <2>7
<1> DEFINE F(p) == CHOOSE f \in [Share(p) -> Slots] : \A i, j \in Share(p) : f[i] = f[j] => i = j
           g == [k \in S |-> <<by[k], F(by[k])[k]>>]
<1>2. ASSUME NEW p \in P
      PROVE  F(p) \in [Share(p) -> Slots] /\ \A i, j \in Share(p) : F(p)[i] = F(p)[j] => i = j
  BY <1>1
<1> HIDE DEF F, Slots
<1>3. ASSUME NEW k \in S PROVE g[k] \in P \X Slots
  <2>1. by[k] \in P /\ k \in Share(by[k])  OBVIOUS
  <2> QED BY <1>2, <2>1
<1>4. ASSUME NEW i \in S, NEW j \in S, g[i] = g[j] PROVE i = j
  <2>1. by[i] = by[j] /\ F(by[i])[i] = F(by[j])[j]  BY <1>4
  <2>2. by[i] \in P /\ i \in Share(by[i]) /\ j \in Share(by[i])  BY <2>1
  <2> QED BY <1>2, <2>1, <2>2
<1>5. g \in Injection(S, P \X Slots)  BY <1>3, <1>4 DEF Injection, IsInjective
<1>6. IsFiniteSet(Slots) /\ Cardinality(Slots) = n  BY FS_Interval DEF Slots
<1>7. IsFiniteSet(P \X Slots) /\ Cardinality(P \X Slots) = Cardinality(P) * n  BY <1>6, FS_Product
<1> HIDE DEF g
<1> QED BY <1>5, <1>7, FS_Injection

LEMMA BacklogBounds == AdmissionInv /\ BacklogInv => OvershootBounded
<1> SUFFICES ASSUME AdmissionInv, BacklogInv PROVE OvershootBounded  OBVIOUS
<1>1. PICK by : Accounts(by)  BY DEF BacklogInv
<1>2. ASSUME NEW b \in Budgets PROVE Cardinality(Active(b.scopes)) <= Cardinality(Producers) * b.limit
  <2>1. IsFiniteSet(Active(b.scopes)) /\ Active(b.scopes) \subseteq Keys
    BY FS_Subset, AdmissionAssumption DEF Active
  <2>2. \A k \in Active(b.scopes) : by[k] \in Producers  BY <1>1 DEF Accounts, Active
  <2>3. \A p \in Producers : Cardinality({k \in Active(b.scopes) : by[k] = p}) <= b.limit
    BY <1>1 DEF Accounts, ChargedTo
  <2> QED BY <2>1, <2>2, <2>3, BudgetsAreSound, SharesBoundTheWhole, AdmissionAssumption
<1>3. [scopes |-> Scopes, limit |-> GlobalLimit] \in Budgets
      /\ \A s \in Scopes : [scopes |-> {s}, limit |-> ScopeLimit] \in Budgets  BY DEF Budgets
<1>4. Cardinality(Active(Scopes)) <= Cardinality(Producers) * GlobalLimit  BY <1>2, <1>3
<1>5. ASSUME NEW s \in Scopes PROVE Cardinality(Active({s})) <= Cardinality(Producers) * ScopeLimit
  BY <1>2, <1>3
<1> QED BY <1>4, <1>5 DEF OvershootBounded

(* Transactions that overlap may overshoot the limits of the backlog, but by   *)
(* no more than a limit for each producer: what one of them has active, in one *)
(* transaction or in many, was within the limit when it last added to it.      *)
THEOREM OvershootBoundedAlways == AdmissionSpec => []OvershootBounded
<1>1. AdmissionSpec => []BacklogInv
  BY AdmissionInvariant, BacklogStarts, BacklogNext, PTL DEF AdmissionSpec
<1> QED BY <1>1, AdmissionInvariant, BacklogBounds, PTL

==============================================================================
