---------------------------- MODULE JobAdmission ----------------------------
(***************************************************************************)
(* How a job gets into the table: JobRepository.enqueue and its copy for   *)
(* business writes, enqueue_business_job, inside the transactions of their *)
(* callers.  JobQueue starts where this module ends, with a committed row. *)
(*                                                                         *)
(* The database guards refuse to start under any isolation level but       *)
(* REPEATABLE READ, so all plain SELECTs of a transaction (the duplicate   *)
(* lookup, the backlog counts, the second lookup after a failed insert)    *)
(* read the snapshot its first SELECT took, plus its own inserts.  Only    *)
(* the INSERT meets the current rows: it waits for an uncommitted row with *)
(* the same key and fails on a committed one.                              *)
(***************************************************************************)
EXTENDS Integers, FiniteSets

CONSTANTS
  Producers,    \* sessions that enqueue: requests, runners, replays
  Keys,         \* (job_type, owner scope, idempotency_key), unique in the table
  Digests,      \* payload digests
  Requests,     \* the [key, digest] pairs that producers ask for
  MaxRequests,  \* bound on the requests one transaction makes
  Scopes,       \* (job_type, owner scope) pairs
  ScopeOf,      \* the scope of each key
  GlobalLimit,  \* JobRuntimeConfig.global_backpressure
  ScopeLimit    \* JobRuntimeConfig.owner_type_backpressure

ASSUME AdmissionAssumption ==
  /\ IsFiniteSet(Producers) /\ IsFiniteSet(Keys) /\ Digests # {}
  /\ Requests \subseteq [key : Keys, digest : Digests]
  /\ MaxRequests \in Nat \ {0}
  /\ ScopeOf \in [Keys -> Scopes]
  /\ GlobalLimit \in Nat \ {0}
  /\ ScopeLimit \in Nat \ {0}

VARIABLES
  table,   \* committed rows, by key
  tx       \* the current or last transaction of each producer

admissionVars == <<table, tx>>

NoJob == [status |-> "absent", digest |-> CHOOSE d \in Digests : TRUE]
Rows  == [status : {"absent", "active", "terminal"}, digest : Digests]

(* A request the transaction made and what enqueue returned for it. *)
Answers == [key : Keys, digest : Digests, kind : {"created", "existing"}]

Blank == [k \in Keys |-> NoJob]

NoTx == [pc |-> "committed", snapshot |-> Blank, mine |-> {},
         pending |-> {}, answers |-> {}]

(* mine: rows inserted and not yet committed; pending: the request between its *)
(* tests and its INSERT.                                                       *)
Txs == [pc : {"open", "committed", "rolled_back"}, snapshot : [Keys -> Rows],
        mine : SUBSET Keys, pending : SUBSET Requests,
        answers : SUBSET Answers]

(* Only an open transaction holds uncommitted rows, and it is between the    *)
(* tests and the INSERT of one request at most.                             *)
AdmissionTypeOK ==
  /\ table \in [Keys -> Rows]
  /\ tx \in [Producers -> Txs]
  /\ \A p \in Producers :
       /\ tx[p].pc # "open" => tx[p].mine \cup tx[p].pending = {}
       /\ Cardinality(tx[p].pending) <= 1

AdmissionInit ==
  /\ table = Blank
  /\ tx = [p \in Producers |-> NoTx]

-----------------------------------------------------------------------------
(* What a plain SELECT of p returns: its snapshot and its own inserts. *)
Sees(p, k) == k \in tx[p].mine \/ tx[p].snapshot[k].status # "absent"

DigestSeen(p, k) ==
  IF k \in tx[p].mine
  THEN (CHOOSE a \in tx[p].answers : a.key = k).digest
  ELSE tx[p].snapshot[k].digest

ActiveSeen(p) == {k \in Keys : k \in tx[p].mine \/ tx[p].snapshot[k].status = "active"}

(* Fault: the rows of the own transaction are not counted. *)
ActiveInSnapshot(p) == {k \in Keys : tx[p].snapshot[k].status = "active"}

(* Fault: the counts ignore what this transaction has inserted. *)
BackloggedBySnapshot(p, scope) ==
  \/ Cardinality(ActiveInSnapshot(p)) >= GlobalLimit
  \/ Cardinality({k \in ActiveInSnapshot(p) : ScopeOf[k] = scope}) >= ScopeLimit

(* JobRepository._check_backpressure. *)
Backlogged(p, scope) ==
  \/ Cardinality(ActiveSeen(p)) >= GlobalLimit
  \/ Cardinality({k \in ActiveSeen(p) : ScopeOf[k] = scope}) >= ScopeLimit

-----------------------------------------------------------------------------
(* A transaction takes its snapshot with its first SELECT. *)
Begin(p) ==
  /\ tx[p].pc # "open"
  /\ tx' = [tx EXCEPT ![p] = [NoTx EXCEPT !.pc = "open", !.snapshot = table]]
  /\ UNCHANGED table

(* An exception out of enqueue ends the caller's transaction. *)
Refuse(p) == tx' = [tx EXCEPT ![p] = [NoTx EXCEPT !.pc = "rolled_back"]]

(* Fault: a duplicate is returned whatever its payload. *)
AskWithoutDigest(p, request) ==
  LET k == request.key
      d == request.digest
  IN  /\ tx[p].pc = "open" /\ tx[p].pending = {}
      /\ Cardinality(tx[p].answers) < MaxRequests
      /\ \/ /\ Sees(p, k)
            /\ tx' = [tx EXCEPT ![p].answers =
                        @ \cup {[key |-> k, digest |-> d, kind |-> "existing"]}]
         \/ ~Sees(p, k) /\ Backlogged(p, ScopeOf[k]) /\ Refuse(p)
         \/ /\ ~Sees(p, k) /\ ~Backlogged(p, ScopeOf[k])
            /\ tx' = [tx EXCEPT ![p].pending = {request}]
      /\ UNCHANGED table

(* enqueue up to its INSERT: the duplicate lookup, then the backlog test. *)
Ask(p, request) ==
  LET k == request.key
      d == request.digest
  IN  /\ tx[p].pc = "open" /\ tx[p].pending = {}
      /\ Cardinality(tx[p].answers) < MaxRequests
      /\ \/ /\ Sees(p, k) /\ DigestSeen(p, k) = d
            /\ tx' = [tx EXCEPT ![p].answers =
                        @ \cup {[key |-> k, digest |-> d, kind |-> "existing"]}]
         \/ Sees(p, k) /\ DigestSeen(p, k) # d /\ Refuse(p)
         \/ ~Sees(p, k) /\ Backlogged(p, ScopeOf[k]) /\ Refuse(p)
         \/ /\ ~Sees(p, k) /\ ~Backlogged(p, ScopeOf[k])
            /\ tx' = [tx EXCEPT ![p].pending = {request}]
      /\ UNCHANGED table

(* The INSERT, in a savepoint.  On a duplicate key the lookup runs again,   *)
(* against the same snapshot, which Ask found without the key: the error is *)
(* raised again, whether or not the payload is the same.                    *)
Insert(p) ==
  \E request \in tx[p].pending :
    LET k == request.key
    IN  /\ \A q \in Producers \ {p} : k \notin tx[q].mine
        /\ IF table[k].status = "absent"
           THEN tx' = [tx EXCEPT ![p].mine = @ \cup {k}, ![p].pending = {},
                                 ![p].answers = @ \cup {[key |-> k, digest |-> request.digest,
                                                         kind |-> "created"]}]
           ELSE Refuse(p)
        /\ UNCHANGED table

Commit(p) ==
  /\ tx[p].pc = "open" /\ tx[p].pending = {}
  /\ table' = [k \in Keys |-> IF k \in tx[p].mine
                              THEN [status |-> "active", digest |-> DigestSeen(p, k)]
                              ELSE table[k]]
  /\ tx' = [tx EXCEPT ![p] = [NoTx EXCEPT !.answers = tx[p].answers]]

(* The caller fails for another reason, or the database rolls it back. *)
Rollback(p) ==
  /\ tx[p].pc = "open"
  /\ tx' = [tx EXCEPT ![p] = [NoTx EXCEPT !.pc = "rolled_back"]]
  /\ UNCHANGED table

(* A job reaches a terminal status (see JobQueue) and leaves the backlog. *)
Finish(k) ==
  /\ table[k].status = "active"
  /\ table' = [table EXCEPT ![k].status = "terminal"]
  /\ UNCHANGED tx

AdmissionNext ==
  \/ \E p \in Producers : Begin(p) \/ Insert(p) \/ Commit(p) \/ Rollback(p)
  \/ \E p \in Producers, request \in Requests : Ask(p, request)
  \/ \E k \in Keys : Finish(k)

AdmissionSpec == AdmissionInit /\ [][AdmissionNext]_admissionVars

-----------------------------------------------------------------------------
Active(scope) == {k \in Keys : table[k].status = "active" /\ ScopeOf[k] \in scope}

(* What a committed transaction was told stands in the table, with the      *)
(* payload it asked for, however many producers raced for the key, and only *)
(* one of them was told that it created the job.                            *)
AnswersHold ==
  /\ \A p \in Producers : tx[p].pc = "committed" =>
       \A a \in tx[p].answers :
         table[a.key].status # "absent" /\ table[a.key].digest = a.digest
  /\ \A p, q \in Producers :
       /\ p # q /\ tx[p].pc = "committed" /\ tx[q].pc = "committed"
       => \A a \in tx[p].answers, b \in tx[q].answers :
            a.key = b.key => "existing" \in {a.kind, b.kind}

(* The counts are taken in a snapshot, so transactions that overlap may     *)
(* each fill the backlog beyond the limit (plan.md:90 promises the limit);  *)
(* nothing lets one of them add more than a limit.                          *)
OvershootBounded ==
  /\ Cardinality(Active(Scopes)) <= Cardinality(Producers) * GlobalLimit
  /\ \A s \in Scopes : Cardinality(Active({s})) <= Cardinality(Producers) * ScopeLimit
=============================================================================
