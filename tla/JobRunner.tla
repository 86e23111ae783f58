------------------------------ MODULE JobRunner ------------------------------
(***************************************************************************)
(* SqlJobRunner of backend/app/jobs/runner.py on top of the job table: the *)
(* poll loop of each process, the handler task it waits for, heartbeats,   *)
(* process crashes and restarts.  Every database call may fail without     *)
(* effect, or commit and lose its reply; the code sees an exception either *)
(* way.                                                                    *)
(*                                                                         *)
(* A process is one lease owner: lease_owner is a fresh UUID, so a restart *)
(* is another member of Owners and the number of restarts is bounded by    *)
(* the set.                                                                *)
(***************************************************************************)
EXTENDS Integers, FiniteSets

CONSTANTS
  Jobs, Owners, None, Claimable, Priority, MaxAttempts, LeaseTime, RetryDelays, MaxLag,
  Resolves     \* the jobs whose type is registered in each process, by its release and settings

VARIABLES
  job, attempt,  \* the job table
  proc,          \* run_once of each process: where it is and for which claim
  orphans,       \* handler tasks that nothing waits for any more
  lock,          \* the process that GET_LOCK gave the runner lock
  effects,       \* for each job, the attempts whose SQL work was committed
  counted        \* claims that were counted in succeeded_count

Table == INSTANCE JobQueue

tables == <<job, attempt>>
vars == <<job, attempt, proc, orphans, lock, effects, counted>>

ASSUME RunnerAssumption ==
  /\ Table!ConfigAssumption /\ Table!TableAssumption
  /\ Resolves \in [Owners -> SUBSET Jobs]

Idle == [pc |-> "idle", job |-> None, token |-> 0, task |-> "none", sql |-> FALSE,
         permanent |-> FALSE]
Off  == [Idle EXCEPT !.pc = "off"]
Dead == [Idle EXCEPT !.pc = "dead"]

(* pc: where run_once is; task: the handler task of the claim; sql: the      *)
(* sql_completed event of its context; permanent: of the error to be stored. *)
Pcs == {"off", "idle", "claimed", "executing", "succeeding", "verifying", "failing", "dead"}
TaskStates == {"none", "running", "value", "error", "fatal"}

Claims == [job : Jobs, token : 1..MaxAttempts]
Tasks  == [owner : Owners, job : Jobs, token : 1..MaxAttempts]

(* Only a claim at work has a handler task, and only a process that is at    *)
(* work on a claim has one.                                                  *)
RunnerTypes ==
  /\ proc \in [Owners -> [pc : Pcs, job : Jobs \cup {None}, token : 0..MaxAttempts,
                          task : TaskStates, sql : BOOLEAN, permanent : BOOLEAN]]
  /\ \A o \in Owners :
       /\ proc[o].task # "none" <=> proc[o].pc = "executing"
       /\ proc[o].pc \in {"off", "idle", "dead"} <=> proc[o].job = None
  /\ orphans \subseteq Tasks
  /\ lock \in Owners \cup {None}
  /\ effects \in [Jobs -> SUBSET (1..MaxAttempts)]
  /\ counted \subseteq Claims

(* Types: the tables' and the runner's own. *)
TypeOK == Table!TypeOK /\ RunnerTypes

Init ==
  /\ Table!Init
  /\ proc = [o \in Owners |-> Off]
  /\ orphans = {}
  /\ lock = None
  /\ effects = [j \in Jobs |-> {}]
  /\ counted = {}

-----------------------------------------------------------------------------
Goes(o, where) == proc' = [proc EXCEPT ![o].pc = where]
GoesIdle(o)    == proc' = [proc EXCEPT ![o] = Idle]

(* run_once's `except Exception`: the error is on its way to _finish_failure. *)
GoesFailing(o, permanent) ==
  proc' = [proc EXCEPT ![o] = [Idle EXCEPT !.pc = "failing", !.job = proc[o].job,
                                           !.token = proc[o].token, !.permanent = permanent]]

TheClaim(o) == [job |-> proc[o].job, token |-> proc[o].token]
Refused(o, lag, statuses) == ~Table!Fenced(proc[o].job, o, proc[o].token, lag, statuses)

-----------------------------------------------------------------------------
(* Processes.                                                               *)

(* run_forever: a process that does not get the lock gives up. *)
Boot(o) ==
  /\ proc[o].pc = "off" /\ lock = None
  /\ lock' = o
  /\ GoesIdle(o)
  /\ UNCHANGED <<tables, orphans, effects, counted>>

(* The lock belongs to a connection: if the server drops it, another process *)
(* can get the lock while this one keeps polling.                            *)
LoseLock ==
  /\ lock # None
  /\ lock' = None
  /\ UNCHANGED <<tables, proc, orphans, effects, counted>>

(* The process ends, by a crash or by stop() after its drain time.  As long  *)
(* as Owners has another incarnation the service is started again.           *)
Crash(o) ==
  /\ proc[o].pc \notin {"off", "dead"}
  /\ \E p \in Owners : proc[p].pc = "off"
  /\ proc' = [proc EXCEPT ![o] = Dead]
  /\ orphans' = {h \in orphans : h.owner # o}
  /\ lock' = IF lock = o THEN None ELSE lock
  /\ UNCHANGED <<tables, effects, counted>>

-----------------------------------------------------------------------------
(* One iteration of the poll loop.                                          *)

(* _claim with claim_registered_only, as e4_runtime builds the application's *)
(* runner: both queries of claim_one ask for the registered types alone, so  *)
(* a row whose handler this process lacks is neither claimed nor recovered   *)
(* by it, and what it claims it resolves.                                    *)
Unasked(o) == Jobs \ Resolves[o]

Poll(o, locked, lag) ==
  /\ proc[o].pc = "idle"
  /\ Table!ClaimOne(o, locked \cup Unasked(o), lag)
  /\ \/ \E j \in Jobs :
          /\ job'[j].attempts # job[j].attempts
          /\ proc' = [proc EXCEPT ![o] = [Idle EXCEPT !.pc = "claimed", !.job = j,
                                                      !.token = job'[j].token]]
     \/ UNCHANGED proc   \* nothing to claim, or the reply of the commit is lost
  /\ UNCHANGED <<orphans, lock, effects, counted>>

StartClaim(o, lag) ==
  /\ proc[o].pc = "claimed"
  /\ \/ /\ Table!Start(proc[o].job, o, proc[o].token, lag)
        /\ \/ proc' = [proc EXCEPT ![o].pc = "executing", ![o].task = "running"]
           \/ GoesFailing(o, FALSE)   \* reply lost
     \/ /\ Refused(o, lag, {"leased"})
        /\ GoesIdle(o)
        /\ UNCHANGED tables
     \/ GoesFailing(o, FALSE) /\ UNCHANGED tables
  /\ UNCHANGED <<orphans, lock, effects, counted>>

(* _execute_handler, the task done: its exception is raised here; a value is *)
(* kept only if the cancellation probe does not find the claim cancelled or  *)
(* gone.  The probe may fail as well.                                        *)
CancelSeen(o) ==
  LET row == job[proc[o].job]
  IN  row.owner # o \/ row.token # proc[o].token \/ row.status = "cancel_requested"

Observe(o) ==
  /\ proc[o].pc = "executing"
  /\ \/ proc[o].task \in {"error", "fatal"} /\ GoesFailing(o, proc[o].task = "fatal")
     \/ /\ proc[o].task = "value" /\ proc[o].sql
        /\ proc' = [proc EXCEPT ![o].pc = "verifying", ![o].task = "none"]
     \/ /\ proc[o].task = "value" /\ ~proc[o].sql
        /\ \/ CancelSeen(o) /\ GoesFailing(o, TRUE)
           \/ ~CancelSeen(o) /\ proc' = [proc EXCEPT ![o].pc = "succeeding", ![o].task = "none"]
           \/ GoesFailing(o, FALSE)
  /\ UNCHANGED <<tables, orphans, lock, effects, counted>>

(* The heartbeat interval passes with the handler at work.  A refused         *)
(* heartbeat cancels the handler and awaits its end; the claim is left to    *)
(* whoever recovers it.                                                      *)
Beat(o, lag) ==
  /\ proc[o].pc = "executing" /\ proc[o].task = "running" /\ ~proc[o].sql
  /\ \/ Table!Heartbeat(proc[o].job, o, proc[o].token, lag) /\ UNCHANGED proc
     \/ /\ Refused(o, lag, Table!Leased)
        /\ GoesIdle(o)
        /\ UNCHANGED tables
  /\ UNCHANGED <<orphans, lock, effects, counted>>

(* The heartbeat raises instead (no connection, deadlock, lost reply): the   *)
(* exception leaves _execute_handler, whose only handler is for              *)
(* CancelledError, and the handler task goes on with nobody waiting for it.  *)
BeatRaises(o, lag) ==
  /\ proc[o].pc = "executing" /\ proc[o].task = "running" /\ ~proc[o].sql
  /\ \/ Table!Heartbeat(proc[o].job, o, proc[o].token, lag)
     \/ UNCHANGED tables
  /\ orphans' = orphans \cup {[owner |-> o, job |-> proc[o].job, token |-> proc[o].token]}
  /\ GoesFailing(o, FALSE)
  /\ UNCHANGED <<lock, effects, counted>>

(* _finish_success: only an accepted transition counts; a refused one is a   *)
(* lost lease, anything raised is a failed attempt.                          *)
FinishSuccess(o, lag) ==
  /\ proc[o].pc = "succeeding"
  /\ \/ /\ Table!Succeed(proc[o].job, o, proc[o].token, lag)
        /\ effects' = [effects EXCEPT ![proc[o].job] = @ \cup {proc[o].token}]
        /\ \/ GoesIdle(o) /\ counted' = counted \cup {TheClaim(o)}
           \/ GoesFailing(o, FALSE) /\ UNCHANGED counted
     \/ /\ Refused(o, lag, {"running"})
        /\ GoesIdle(o)
        /\ UNCHANGED <<tables, effects, counted>>
     \/ GoesFailing(o, FALSE) /\ UNCHANGED <<tables, effects, counted>>
  /\ UNCHANGED <<orphans, lock>>

(* _verify_sql_completion: the handler says it committed the result itself. *)
Verify(o) ==
  /\ proc[o].pc = "verifying"
  /\ LET row == job[proc[o].job]
     IN  \/ /\ row.status = "succeeded" /\ row.token = proc[o].token
            /\ counted' = counted \cup {TheClaim(o)}
            /\ GoesIdle(o)
         \/ /\ ~(row.status = "succeeded" /\ row.token = proc[o].token)
            /\ GoesIdle(o) /\ UNCHANGED counted
         \/ GoesFailing(o, FALSE) /\ UNCHANGED counted
  /\ UNCHANGED <<tables, orphans, lock, effects>>

(* Fault: the failure is reported until the table accepts it. *)
FinishFailureInsists(o, lag) ==
  /\ proc[o].pc = "failing"
  /\ Table!Fail(proc[o].job, o, proc[o].token, proc[o].permanent, lag)
  /\ GoesIdle(o)
  /\ UNCHANGED <<orphans, lock, effects, counted>>

(* _finish_failure: refused or raised, run_forever goes on polling and the   *)
(* claim waits for its lease to run out.                                     *)
FinishFailure(o, lag) ==
  /\ proc[o].pc = "failing"
  /\ \/ Table!Fail(proc[o].job, o, proc[o].token, proc[o].permanent, lag)
     \/ UNCHANGED tables
  /\ GoesIdle(o)
  /\ UNCHANGED <<orphans, lock, effects, counted>>

-----------------------------------------------------------------------------
(* Handlers, awaited or not.                                                *)

(* A handler may commit its business writes and succeed() in one transaction   *)
(* (E5ProjectionService.rebuild, enrich).  The commit is durable before the   *)
(* handler hears of it, marks sql_completed or, the reply lost, raises; a      *)
(* heartbeat can come in between.  A refused succeed() makes it raise.         *)
Committed(o) == proc[o].token \in effects[proc[o].job]

(* Fault: the business writes are kept although succeed() was refused. *)
HandlerCommitsUnfenced(o, lag) ==
  /\ proc[o].pc = "executing" /\ proc[o].task = "running" /\ ~Committed(o)
  /\ \/ Table!Succeed(proc[o].job, o, proc[o].token, lag)
     \/ Refused(o, lag, {"running"}) /\ UNCHANGED tables
  /\ effects' = [effects EXCEPT ![proc[o].job] = @ \cup {proc[o].token}]
  /\ UNCHANGED <<proc, orphans, lock, counted>>

HandlerCommits(o, lag) ==
  /\ proc[o].pc = "executing" /\ proc[o].task = "running" /\ ~Committed(o)
  /\ \/ /\ Table!Succeed(proc[o].job, o, proc[o].token, lag)
        /\ effects' = [effects EXCEPT ![proc[o].job] = @ \cup {proc[o].token}]
        /\ UNCHANGED proc
     \/ /\ Refused(o, lag, {"running"})
        /\ proc' = [proc EXCEPT ![o].task = "error"]
        /\ UNCHANGED <<tables, effects>>
  /\ UNCHANGED <<orphans, lock, counted>>

HandlerHears(o) ==
  /\ proc[o].pc = "executing" /\ proc[o].task = "running"
  /\ Committed(o) /\ ~proc[o].sql
  /\ \/ proc' = [proc EXCEPT ![o].sql = TRUE]
     \/ proc' = [proc EXCEPT ![o].task = "error"]
  /\ UNCHANGED <<tables, orphans, lock, effects, counted>>

(* The handler returns a value or raises; after its own SQL completion it    *)
(* cannot ask for a permanent failure any more.                              *)
HandlerEnds(o) ==
  /\ proc[o].pc = "executing" /\ proc[o].task = "running"
  /\ Committed(o) => proc[o].sql
  /\ \E end \in {"value", "error", "fatal"} :
       /\ proc[o].sql => end # "fatal"
       /\ proc' = [proc EXCEPT ![o].task = end]
  /\ UNCHANGED <<tables, orphans, lock, effects, counted>>

OrphanCommits(h, lag) ==
  /\ h \in orphans
  /\ Table!Succeed(h.job, h.owner, h.token, lag)
  /\ effects' = [effects EXCEPT ![h.job] = @ \cup {h.token}]
  /\ orphans' = orphans \ {h}
  /\ UNCHANGED <<proc, lock, counted>>

OrphanEnds(h) ==
  /\ h \in orphans
  /\ orphans' = orphans \ {h}
  /\ UNCHANGED <<tables, proc, lock, effects, counted>>

-----------------------------------------------------------------------------
RunnerStep(o) ==
  \/ Observe(o) \/ Verify(o)
  \/ \E lag \in Table!Lags : StartClaim(o, lag) \/ FinishSuccess(o, lag) \/ FinishFailure(o, lag)

HandlerProgress(o) == HandlerEnds(o) \/ HandlerHears(o)

HandlerStep(o) == HandlerProgress(o) \/ \E lag \in Table!Lags : HandlerCommits(o, lag)

HeartbeatStep(o) == \E lag \in Table!Lags : Beat(o, lag) \/ BeatRaises(o, lag)

(* A dead letter that is replayed is a new job to the runner.                *)
TableStep ==
  /\ \/ \E j \in Jobs : Table!Enqueue(j) \/ Table!Cancel(j)
     \/ Table!Tick
  /\ UNCHANGED <<proc, orphans, lock, effects, counted>>

Next ==
  \/ \E o \in Owners : \/ Boot(o) \/ Crash(o)
                       \/ RunnerStep(o) \/ HandlerStep(o) \/ HeartbeatStep(o)
                       \/ \E locked \in SUBSET Jobs, lag \in Table!Lags : Poll(o, locked, lag)
  \/ LoseLock
  \/ \E h \in orphans : OrphanEnds(h) \/ \E lag \in Table!Lags : OrphanCommits(h, lag)
  \/ TableStep

Spec == Init /\ [][Next]_vars

(* Time passes; a service that is down is started; a poll that meets no      *)
(* locked row and no database error happens eventually, and so does the next *)
(* statement of run_once; handlers terminate.  Nothing forces a heartbeat, a *)
(* cancel request, a lost reply or a crash.                                  *)
Clock == Table!Tick /\ UNCHANGED <<proc, orphans, lock, effects, counted>>

Fairness ==
  /\ WF_vars(Clock)
  /\ \A o \in Owners :
       WF_vars(Boot(o)) /\ WF_vars(Poll(o, {}, 0)) /\ WF_vars(RunnerStep(o)) /\ WF_vars(HandlerProgress(o))

FairSpec == Spec /\ Fairness

-----------------------------------------------------------------------------
(* The business writes of a job are committed at most once, and exactly when *)
(* the job succeeded, by the attempt whose result is stored: whatever is     *)
(* retried, orphaned, crashed or answered too late.                          *)
EffectsOnce ==
  \A j \in Jobs :
    effects[j] = IF job[j].status = "succeeded" THEN {job[j].result} ELSE {}

(* succeeded_count counts results that are in the table. *)
CountedIsStored ==
  \A c \in counted : job[c.job].status = "succeeded" /\ job[c.job].result = c.token

(* Orphans and lost leases may leave several handlers at work on one job, in *)
(* one process or in two: the database would take the result of one at most. *)
HandlersOf(j) ==
  {h \in orphans : h.job = j}
  \cup {[owner |-> o, job |-> j, token |-> proc[o].token, awaited |-> TRUE] :
          o \in {p \in Owners : proc[p].job = j /\ proc[p].task = "running"}}

OneHandlerHoldsTheFence ==
  \A j \in Jobs :
    Cardinality({h \in HandlersOf(j) : Table!Fenced(j, h.owner, h.token, 0, Table!Leased)}) <= 1

(* However often a job is retried, whoever believes to hold it and whichever *)
(* replies are lost, the database, the handlers and the counters tell one    *)
(* story.                                                                    *)
ResultsAgree == EffectsOnce /\ CountedIsStored /\ OneHandlerHoldsTheFence

(* Every accepted job is settled, it succeeds, is cancelled or is buried,     *)
(* whatever fails on the way, if in the end some process that has its handler *)
(* stays up; it need not be the one that claimed it, nor the only one up.     *)
(* Without that a job stays as it is: the projections while E5 is off.        *)
Served(j) == \E o \in Owners : proc[o].pc \notin {"off", "dead"} /\ j \in Resolves[o]

EveryJobSettles ==
  \A j \in Jobs :
    <>[]Served(j) =>
      (job[j].status \notin Table!Terminal \cup {"absent"} ~> job[j].status \in Table!Terminal)

(* No claim wedges the poller: every iteration ends. *)
PollerReturns ==
  \A o \in Owners : proc[o].pc \notin {"off", "idle", "dead"} ~> proc[o].pc \in {"idle", "dead"}
=============================================================================
