------------------------------ MODULE JobQueue ------------------------------
(***************************************************************************)
(* The SQL job table of backend/app/jobs/repository.py: `jobs` and          *)
(* `job_attempts`, and every transaction JobRepository runs on them.       *)
(*                                                                         *)
(* A caller of start / heartbeat / succeed / fail is whoever once was      *)
(* handed a claim, that is, any row of job_attempts: a live runner, one    *)
(* whose lease ran out, a handler left over from an earlier attempt, two   *)
(* processes at once.  Any of them may call at any time and in any order,  *)
(* so nothing here relies on there being one runner.  A rejected call      *)
(* leaves both tables as they are and is a stuttering step.                *)
(*                                                                         *)
(* Timestamps are kept relative to the database clock: `lease` is          *)
(* lease_expires_at - now and `wait` is available_at - now.  A transaction *)
(* reads the clock (_database_now) before the statement that takes the row *)
(* lock, so what it compares with may be up to MaxLag ticks old.           *)
(***************************************************************************)
EXTENDS Integers, FiniteSets

CONSTANTS
  Jobs,         \* identities of job rows
  Owners,       \* lease_owner values, one for each runner incarnation
  None,         \* SQL NULL
  Claimable,    \* jobs whose type passes the runners' job_types filter
  Priority,     \* the priority column
  MaxAttempts,  \* JobRuntimeConfig.max_attempts
  LeaseTime,    \* JobRuntimeConfig.lease_seconds, in ticks
  RetryDelays,  \* JobRuntimeConfig.retry_delays_seconds, in ticks
  MaxLag        \* bound on the age of a transaction's clock reading

(* JobRuntimeConfig.__post_init__ rejects any other configuration. The last *)
(* conjunct is the database's: a lock wait (50 s) is shorter than a lease   *)
(* (60 s).                                                                  *)
ASSUME ConfigAssumption ==
  /\ MaxAttempts \in Nat \ {0}
  /\ LeaseTime \in Nat \ {0}
  /\ RetryDelays \in [1..(MaxAttempts - 1) -> Nat \ {0}]
  /\ MaxLag \in Nat
  /\ MaxLag < LeaseTime

ASSUME TableAssumption ==
  /\ Claimable \subseteq Jobs
  /\ Priority \in [Jobs -> Int]
  /\ None \notin Owners
  /\ None \notin Jobs

VARIABLES
  job,      \* jobs: one row for each identity, status "absent" before its insert
  attempt   \* job_attempts, by job and attempt_number

vars == <<job, attempt>>

Terminal == {"succeeded", "cancelled", "dead_letter"}
Waiting  == {"queued", "retry_wait"}
Leased   == {"leased", "running", "cancel_requested"}
Statuses == {"absent"} \cup Waiting \cup Leased \cup Terminal

Open     == {"leased", "running"}
Outcomes == Open \cup {"succeeded", "retry_wait", "cancelled", "dead_letter", "abandoned"}

AttemptNumbers == 1..MaxAttempts
Lags == 0..MaxLag

(* A cleared lease: NULL compares as neither in force nor lapsed, which the *)
(* floor of the relative clock gives as well.                               *)
NoLease == -MaxLag

NoRow == [status |-> "absent", attempts |-> 0, token |-> 0, owner |-> None,
          lease |-> NoLease, wait |-> NoLease, cancelAsked |-> FALSE,
          result |-> 0, replayOf |-> None]

NoAttempt == [token |-> 0, owner |-> None, outcome |-> "none"]

Row == [status : Statuses, attempts : 0..MaxAttempts, token : Nat,
        owner : Owners \cup {None}, lease : Int, wait : Int,
        cancelAsked : BOOLEAN, result : Nat, replayOf : Jobs \cup {None}]

AttemptRow == [token : Nat, owner : Owners \cup {None},
               outcome : Outcomes \cup {"none"}]

TypeOK ==
  /\ job \in [Jobs -> Row]
  /\ attempt \in [Jobs -> [AttemptNumbers -> AttemptRow]]

Init ==
  /\ job = [j \in Jobs |-> NoRow]
  /\ attempt = [j \in Jobs |-> [n \in AttemptNumbers |-> NoAttempt]]

-----------------------------------------------------------------------------
(* The rows the transitions write.                                          *)

(* JobRepository._retry_delay clamps the index into the delay table.        *)
RetryDelay(n) ==
  RetryDelays[IF n < 1 THEN 1 ELSE IF n > MaxAttempts - 1 THEN MaxAttempts - 1 ELSE n]

Unleased(row) == [row EXCEPT !.owner = None, !.lease = NoLease]

(* Faults that the properties must notice; each stands before the definition *)
(* it replaces.  Here: a cancel request is forgotten.                         *)
AfterFailureForgetsCancel(row, permanent, lag) ==
  IF permanent \/ row.attempts >= MaxAttempts
  THEN [Unleased(row) EXCEPT !.status = "dead_letter"]
  ELSE [Unleased(row) EXCEPT !.status = "retry_wait", !.wait = RetryDelay(row.attempts) - lag]

(* Where a job goes when its attempt did not succeed. *)
AfterFailure(row, permanent, lag) ==
  IF row.status = "cancel_requested"
  THEN [Unleased(row) EXCEPT !.status = "cancelled"]
  ELSE IF permanent \/ row.attempts >= MaxAttempts
       THEN [Unleased(row) EXCEPT !.status = "dead_letter"]
       ELSE [Unleased(row) EXCEPT !.status = "retry_wait",
                                  !.wait = RetryDelay(row.attempts) - lag]

(* Fault: the fencing token stays with the job. *)
ClaimedWithOldToken(row, o, lag) ==
  [row EXCEPT !.status = "leased", !.attempts = @ + 1, !.owner = o, !.lease = LeaseTime - lag]

Claimed(row, o, lag) ==
  [row EXCEPT !.status = "leased", !.attempts = @ + 1, !.token = @ + 1,
              !.owner = o, !.lease = LeaseTime - lag]

(* An UPDATE of the job_attempts rows with this fencing token, and one of   *)
(* the row with this attempt number.                                        *)
OutcomeByToken(rows, t, out) ==
  [n \in AttemptNumbers |-> IF rows[n].token = t THEN [rows[n] EXCEPT !.outcome = out]
                                                 ELSE rows[n]]

OutcomeByNumber(rows, m, out) ==
  [n \in AttemptNumbers |-> IF n = m /\ rows[n] # NoAttempt
                            THEN [rows[n] EXCEPT !.outcome = out]
                            ELSE rows[n]]

-----------------------------------------------------------------------------
(* WHERE clauses.                                                           *)

(* The compare-and-set condition of start, heartbeat, succeed and fail. *)
Fenced(j, o, t, lag, statuses) ==
  /\ job[j].status \in statuses
  /\ job[j].owner = o
  /\ job[j].token = t
  /\ job[j].lease + lag > 0

(* Fault: recover_expired leaves cancelled attempts to their holders. *)
LapsedIgnoresCancel(row, lag) == row.status \in Open /\ row.lease + lag <= 0

Lapsed(row, lag) == row.status \in Leased /\ row.lease + lag <= 0

Due(row, lag) ==
  /\ row.status \in Waiting
  /\ row.wait + lag <= 0
  /\ ~row.cancelAsked

-----------------------------------------------------------------------------
(* Transactions.                                                            *)

Inserted(j, origin) ==
  /\ job[j].status = "absent"
  /\ job' = [job EXCEPT ![j] = [NoRow EXCEPT !.status = "queued", !.wait = 0,
                                             !.replayOf = origin]]
  /\ UNCHANGED attempt

(* JobRepository.enqueue, past the duplicate and backlog tests (see JobAdmission). *)
Enqueue(j) == Inserted(j, None)

(* Fault: the dead job itself is made claimable again. *)
ReplayInPlace(source, j) ==
  /\ job[source].status = "dead_letter"
  /\ job[j].status = "absent"
  /\ job' = [job EXCEPT ![source] = [@ EXCEPT !.status = "queued", !.wait = 0]]
  /\ UNCHANGED attempt

(* JobRepository.replay_dead_letter: a distinct job that names its source. *)
ReplayDeadLetter(source, j) ==
  /\ job[source].status = "dead_letter"
  /\ Inserted(j, source)

(* JobRepository.claim_one: recover_expired and the claim are one transaction. *)
(* `locked` are the rows some other open transaction has locked, which both    *)
(* SKIP LOCKED queries pass over.                                              *)
ClaimOne(o, locked, lag) ==
  LET seen      == Claimable \ locked
      lapsed    == {j \in seen : Lapsed(job[j], lag)}
      recovered == [j \in Jobs |-> IF j \in lapsed THEN AfterFailure(job[j], FALSE, lag)
                                                   ELSE job[j]]
      closed    == [j \in Jobs |->
                     IF j \in lapsed
                     THEN OutcomeByNumber(attempt[j], job[j].attempts, "abandoned")
                     ELSE attempt[j]]
      due       == {j \in seen : Due(recovered[j], lag)}
      first     == {j \in due : \A k \in due : Priority[k] <= Priority[j]}
  IN  \/ /\ due = {}
         /\ job' = recovered
         /\ attempt' = closed
      \/ \E j \in first :
           LET row == Claimed(recovered[j], o, lag)
           IN  /\ job' = [recovered EXCEPT ![j] = row]
               /\ attempt' = [closed EXCEPT ![j][row.attempts] =
                                [token |-> row.token, owner |-> o, outcome |-> "leased"]]

Start(j, o, t, lag) ==
  /\ Fenced(j, o, t, lag, {"leased"})
  /\ job' = [job EXCEPT ![j].status = "running"]
  /\ attempt' = [attempt EXCEPT ![j] = OutcomeByToken(@, t, "running")]

Heartbeat(j, o, t, lag) ==
  /\ Fenced(j, o, t, lag, Leased)
  /\ job' = [job EXCEPT ![j].lease = LeaseTime - lag]
  /\ UNCHANGED attempt

(* Fault: a success is accepted after a cancel request. *)
SucceedWhenCancelled(j, o, t, lag) ==
  /\ Fenced(j, o, t, lag, {"running", "cancel_requested"})
  /\ job' = [job EXCEPT ![j] = [Unleased(@) EXCEPT !.status = "succeeded", !.result = t]]
  /\ attempt' = [attempt EXCEPT ![j] = OutcomeByToken(@, t, "succeeded")]

Succeed(j, o, t, lag) ==
  /\ Fenced(j, o, t, lag, {"running"})
  /\ job' = [job EXCEPT ![j] = [Unleased(@) EXCEPT !.status = "succeeded", !.result = t]]
  /\ attempt' = [attempt EXCEPT ![j] = OutcomeByToken(@, t, "succeeded")]

Fail(j, o, t, permanent, lag) ==
  /\ Fenced(j, o, t, lag, {"running", "cancel_requested"})
  /\ LET row == AfterFailure(job[j], permanent, lag)
     IN  /\ job' = [job EXCEPT ![j] = row]
         /\ attempt' = [attempt EXCEPT ![j] = OutcomeByNumber(@, row.attempts, row.status)]

(* JobRepository.cancel; on a terminal or a missing job it changes nothing. *)
Cancel(j) ==
  /\ job[j].status \notin Terminal \cup {"absent"}
  /\ job' = [job EXCEPT ![j].cancelAsked = TRUE,
                        ![j].status = IF @ \in Waiting THEN "cancelled" ELSE "cancel_requested"]
  /\ UNCHANGED attempt

(* One tick of the database clock. A timestamp further in the past than any *)
(* clock reading tells no two transactions apart; one nobody compares with  *)
(* stays put.                                                               *)
Aged(left) == IF left > -MaxLag THEN left - 1 ELSE left

Tick ==
  /\ job' = [j \in Jobs |->
       [job[j] EXCEPT !.lease = IF job[j].status \in Leased THEN Aged(@) ELSE @,
                      !.wait  = IF job[j].status \in Waiting THEN Aged(@) ELSE @]]
  /\ UNCHANGED attempt

-----------------------------------------------------------------------------
(* A call by the holder of the claim that job_attempts row n of j records. *)
HolderCall(j, n, lag) ==
  LET o == attempt[j][n].owner
      t == attempt[j][n].token
  IN  /\ attempt[j][n] # NoAttempt
      /\ \/ Start(j, o, t, lag)
         \/ Heartbeat(j, o, t, lag)
         \/ Succeed(j, o, t, lag)
         \/ \E permanent \in BOOLEAN : Fail(j, o, t, permanent, lag)

Next ==
  \/ \E j \in Jobs : Enqueue(j)
  \/ \E source, j \in Jobs : ReplayDeadLetter(source, j)
  \/ \E o \in Owners, locked \in SUBSET Jobs, lag \in Lags : ClaimOne(o, locked, lag)
  \/ \E j \in Jobs, n \in AttemptNumbers, lag \in Lags : HolderCall(j, n, lag)
  \/ \E j \in Jobs : Cancel(j)
  \/ Tick

Spec == Init /\ [][Next]_vars

-----------------------------------------------------------------------------
(* Safety.                                                                  *)

(* ck_jobs_attempts: claim_one adds one to attempt_count without looking at *)
(* max_attempts, so a job it may pick always has an attempt left; were it   *)
(* not so, the CHECK constraint would abort every poll on that row.         *)
RetriableHasBudget ==
  \A j \in Jobs : job[j].status \in Waiting => job[j].attempts < MaxAttempts

(* lease_owner, the lease expiry and the status are written by nine         *)
(* different statements; a lease stands exactly while an attempt does.      *)
LeaseStandsWithAttempt ==
  \A j \in Jobs :
    /\ job[j].owner # None <=> job[j].status \in Leased
    /\ job[j].status \notin Leased => job[j].lease = NoLease

(* start, heartbeat and succeed find the attempt by fencing token, fail and *)
(* recover_expired by attempt number: both are the same row, and every      *)
(* claim left exactly one.                                                  *)
AttemptsFollowFence ==
  \A j \in Jobs :
    /\ job[j].token = job[j].attempts
    /\ \A n \in AttemptNumbers :
         IF n <= job[j].attempts THEN attempt[j][n].token = n
                                 ELSE attempt[j][n] = NoAttempt

(* Only the last attempt is ever open, it is open exactly while the job is  *)
(* leased, and it belongs to the lease owner.                               *)
OneOpenAttempt ==
  \A j \in Jobs, n \in AttemptNumbers :
    /\ attempt[j][n].outcome \in Open
         <=> (n = job[j].attempts /\ job[j].status \in Leased)
    /\ attempt[j][n].outcome \in Open => attempt[j][n].owner = job[j].owner
    /\ job[j].status \in Open /\ n = job[j].attempts
         => attempt[j][n].outcome = job[j].status

(* A stored result is the result of the attempt that last held the lease,   *)
(* that attempt is the only one recorded as successful, and only a job      *)
(* nobody had cancelled has one.                                            *)
OneResultPerJob ==
  \A j \in Jobs :
    /\ job[j].status = "succeeded" <=> job[j].result # 0
    /\ job[j].result # 0 => job[j].result = job[j].token /\ ~job[j].cancelAsked
    /\ \A n \in AttemptNumbers :
         attempt[j][n].outcome = "succeeded"
           <=> (job[j].status = "succeeded" /\ n = job[j].attempts)

(* The cancel request and the status are separate columns: a job that was   *)
(* asked to stop is on its way to `cancelled`, never waiting for another    *)
(* attempt, and no other job is.                                            *)
CancelIsSticky ==
  \A j \in Jobs :
    job[j].cancelAsked <=> job[j].status \in {"cancel_requested", "cancelled"}

(* A terminal job and its attempts are never written again: not by a late   *)
(* holder, a recovery, a replay or a cancel.                                *)
TerminalIsFinal ==
  [][\A j \in Jobs : job[j].status \in Terminal =>
       job'[j] = job[j] /\ attempt'[j] = attempt[j]]_vars

(* A closed attempt (succeeded, failed or abandoned) stays as recorded,     *)
(* whatever its former holder still tries.                                  *)
ClosedAttemptIsFinal ==
  [][\A j \in Jobs, n \in AttemptNumbers :
       attempt[j][n].outcome \notin Open \cup {"none"} => attempt'[j][n] = attempt[j][n]]_vars

(* The fence only grows, by one, and only when the lease changes hands; a   *)
(* job never passes from one lease to the next without it.                  *)
FenceGrowsWithEachLease ==
  [][\A j \in Jobs :
       /\ job'[j].token \in {job[j].token, job[j].token + 1}
       /\ job'[j].token # job[j].token
            <=> (job[j].status \notin Leased /\ job'[j].status \in Leased)]_vars

(* Once cancel() has been accepted, the next verdict on the job can only be *)
(* `cancelled`: no success, no retry and no dead letter overtakes it.       *)
CancelIsNeverOvertaken ==
  [][\A j \in Jobs : job[j].status = "cancel_requested" =>
       job'[j].status \in {"cancel_requested", "cancelled"}]_vars

(* The job table implements the promise of JobLifecycle: leases, clock and  *)
(* attempt rows are hidden, the fencing token is the epoch.                 *)
Phase(status) ==
  CASE status \in Waiting          -> "idle"
    [] status \in Open             -> "held"
    [] status = "cancel_requested" -> "revoked"
    [] OTHER                       -> status

Lifecycle == INSTANCE JobLifecycle WITH
  phase  <- [j \in Jobs |-> Phase(job[j].status)],
  epoch  <- [j \in Jobs |-> job[j].token],
  winner <- [j \in Jobs |-> job[j].result]

ImplementsLifecycle == Lifecycle!Spec
=============================================================================
