--------------------------- MODULE JobTableProofs ---------------------------
(***************************************************************************)
(* The invariants and action properties of JobQueue, and the refinement of *)
(* JobLifecycle, for every set of jobs, owners, delays and lags.           *)
(*                                                                         *)
(* Every statement of the repository touches job rows one by one, even the *)
(* polls that recover several: the inductive invariant is therefore a      *)
(* predicate RowInv of one job row and its attempt rows, each statement is *)
(* a lemma about RowInv, and the tables follow.                            *)
(***************************************************************************)
EXTENDS JobQueue, TLAPS

(* The checked invariants, read off one job, plus what they rest on: an     *)
(* absent row is blank, so an insert finds no attempts, and a lease is never *)
(* held without an attempt.                                                 *)
RowInv(r, a) ==
  /\ r \in Row
  /\ a \in [AttemptNumbers -> AttemptRow]
  /\ r.status = "absent" => r = NoRow
  /\ r.status \in Waiting => r.attempts < MaxAttempts
  /\ r.status \in Leased => r.attempts >= 1
  /\ r.owner # None <=> r.status \in Leased
  /\ r.status \notin Leased => r.lease = NoLease
  /\ r.token = r.attempts
  /\ \A n \in AttemptNumbers :
       IF n <= r.attempts THEN a[n].token = n ELSE a[n] = NoAttempt
  /\ \A n \in AttemptNumbers :
       a[n].outcome \in Open <=> (n = r.attempts /\ r.status \in Leased)
  /\ r.status \in Leased => a[r.attempts].owner = r.owner
  /\ r.status \in Open => a[r.attempts].outcome = r.status
  /\ r.status = "succeeded" <=> r.result # 0
  /\ r.result # 0 => r.result = r.token /\ ~r.cancelAsked
  /\ \A n \in AttemptNumbers :
       a[n].outcome = "succeeded" <=> (r.status = "succeeded" /\ n = r.attempts)
  /\ r.cancelAsked <=> r.status \in {"cancel_requested", "cancelled"}

IInv == /\ job \in [Jobs -> Row]
        /\ attempt \in [Jobs -> [AttemptNumbers -> AttemptRow]]
        /\ \A j \in Jobs : RowInv(job[j], attempt[j])

-----------------------------------------------------------------------------
(* Rows: the numbers and delays a transition writes are of the right type.  *)
LEMMA DelayType ==
  ASSUME NEW n \in 1..MaxAttempts, n < MaxAttempts
  PROVE  RetryDelay(n) \in Nat \ {0}
  BY ConfigAssumption DEF RetryDelay

LEMMA NoLeaseType == NoLease \in Int
  BY ConfigAssumption DEF NoLease

LEMMA AttemptNumbersType ==
  /\ MaxAttempts \in Nat /\ 0 \in 0..MaxAttempts /\ 1 \in AttemptNumbers
  /\ \A n \in AttemptNumbers : n \in Nat /\ n >= 1
  /\ \A r \in Row : r.attempts \in Nat /\ r.attempts <= MaxAttempts /\ r.token \in Nat
  BY ConfigAssumption DEF AttemptNumbers, Row

LEMMA UnleasedRow ==
  ASSUME NEW r \in Row
  PROVE  /\ Unleased(r) \in Row
         /\ Unleased(r).owner = None /\ Unleased(r).lease = NoLease
         /\ Unleased(r).status = r.status
         /\ Unleased(r).attempts = r.attempts /\ Unleased(r).token = r.token
         /\ Unleased(r).result = r.result
         /\ Unleased(r).cancelAsked = r.cancelAsked
  BY NoLeaseType DEF Unleased, Row

(* recover_expired and fail keep the row invariant: the attempt is closed in  *)
(* the statement that takes the lease away.                                   *)
LEMMA FailureRow ==
  ASSUME NEW r \in Row, r.attempts >= 1, NEW permanent \in BOOLEAN, NEW lag \in Lags
  PROVE  LET f == AfterFailure(r, permanent, lag)
         IN  /\ f \in Row
             /\ f.status \in {"cancelled", "dead_letter", "retry_wait"}
             /\ f.status = "cancelled" <=> r.status = "cancel_requested"
             /\ f.status = "retry_wait" => f.attempts < MaxAttempts /\ f.wait + lag > 0
             /\ f.owner = None /\ f.lease = NoLease
             /\ f.attempts = r.attempts /\ f.token = r.token
             /\ f.result = r.result /\ f.cancelAsked = r.cancelAsked
<1> DEFINE u == Unleased(r)
           f == AfterFailure(r, permanent, lag)
<1>1. /\ u \in Row /\ u.owner = None /\ u.lease = NoLease
      /\ u.attempts = r.attempts /\ u.token = r.token
      /\ u.result = r.result /\ u.cancelAsked = r.cancelAsked
  BY UnleasedRow
<1>2. CASE r.status = "cancel_requested"
  <2>1. f = [u EXCEPT !.status = "cancelled"]
    BY <1>2 DEF AfterFailure
  <2> HIDE DEF u
  <2> QED BY <1>1, <1>2, <2>1 DEF Row, Statuses, Terminal
<1>3. CASE r.status # "cancel_requested" /\ (permanent \/ r.attempts >= MaxAttempts)
  <2>1. f = [u EXCEPT !.status = "dead_letter"]
    BY <1>3 DEF AfterFailure
  <2> HIDE DEF u
  <2> QED BY <1>1, <1>3, <2>1 DEF Row, Statuses, Terminal
<1>4. CASE r.status # "cancel_requested" /\ ~(permanent \/ r.attempts >= MaxAttempts)
  <2> DEFINE w == RetryDelay(r.attempts) - lag
  <2>1. f = [u EXCEPT !.status = "retry_wait", !.wait = w]
    BY <1>4 DEF AfterFailure
  <2>2. r.attempts < MaxAttempts
    BY <1>4, ConfigAssumption DEF Row
  <2>3. w \in Int /\ w + lag > 0
    <3>1. r.attempts \in 1..MaxAttempts /\ lag \in Int
      BY AttemptNumbersType, ConfigAssumption DEF Lags
    <3>2. RetryDelay(r.attempts) \in Nat \ {0}
      BY <2>2, <3>1, DelayType
    <3> QED BY <3>1, <3>2
  <2> HIDE DEF u, w
  <2> QED BY <1>1, <1>4, <2>1, <2>2, <2>3 DEF Row, Statuses, Waiting
<1> QED BY <1>2, <1>3, <1>4

(* A retry waits at least one tick, so the poll that recovers a job cannot  *)
(* claim it at once.                                                        *)
LEMMA FailedIsNotDue ==
  ASSUME NEW r \in Row, r.attempts >= 1, NEW lag \in Lags
  PROVE  ~Due(AfterFailure(r, FALSE, lag), lag)
<1> DEFINE f == AfterFailure(r, FALSE, lag)
<1>1. /\ f \in Row /\ f.status \in {"cancelled", "dead_letter", "retry_wait"}
      /\ f.status = "retry_wait" => f.wait + lag > 0
  BY FailureRow
<1> HIDE DEF f
<1>2. lag \in Int /\ f.wait \in Int
  BY <1>1, ConfigAssumption DEF Lags, Row
<1>3. ~Due(f, lag)
  BY <1>1, <1>2 DEF Due, Waiting
<1> QED BY <1>3 DEF f

LEMMA AfterFailureKeepsRow ==
  ASSUME NEW r, NEW a, RowInv(r, a), r.status \in Leased,
         NEW permanent \in BOOLEAN, NEW lag \in Lags,
         NEW out \in Outcomes, out \notin Open, out # "succeeded"
  PROVE  RowInv(AfterFailure(r, permanent, lag), OutcomeByNumber(a, r.attempts, out))
<1> DEFINE f == AfterFailure(r, permanent, lag)
           b == OutcomeByNumber(a, r.attempts, out)
<1>1. /\ f \in Row
      /\ f.status \in {"cancelled", "dead_letter", "retry_wait"}
      /\ f.status = "cancelled" <=> r.status = "cancel_requested"
      /\ f.status = "retry_wait" => f.attempts < MaxAttempts
      /\ f.owner = None /\ f.lease = NoLease
      /\ f.attempts = r.attempts /\ f.token = r.token
      /\ f.result = r.result /\ f.cancelAsked = r.cancelAsked
  BY FailureRow DEF RowInv
<1>2. /\ b \in [AttemptNumbers -> AttemptRow]
      /\ \A n \in AttemptNumbers : n # r.attempts => b[n] = a[n]
      /\ r.attempts \in AttemptNumbers
      /\ b[r.attempts].token = a[r.attempts].token
      /\ b[r.attempts].outcome = out
  BY ConfigAssumption DEF RowInv, OutcomeByNumber, AttemptNumbers, AttemptRow, Row, NoAttempt, Leased, Outcomes, Open
<1> SUFFICES RowInv(f, b) OBVIOUS
<1> HIDE DEF f, b
<1>3. /\ f.status \notin Waiting \cup {"absent"} \/ f.status = "retry_wait"
      /\ f.status \notin Leased /\ f.status # "absent" /\ f.status # "succeeded"
      /\ f.token = f.attempts
  BY <1>1 DEF RowInv, Leased, Waiting
<1>4. \A n \in AttemptNumbers :
        IF n <= f.attempts THEN b[n].token = n ELSE b[n] = NoAttempt
  <2> TAKE n \in AttemptNumbers
  <2>1. CASE n = r.attempts
    BY <2>1, <1>1, <1>2 DEF RowInv, AttemptNumbers, Row
  <2>2. CASE n # r.attempts
    BY <2>2, <1>1, <1>2 DEF RowInv, AttemptNumbers, Row
  <2> QED BY <2>1, <2>2
<1>5. \A n \in AttemptNumbers : b[n].outcome \notin Open /\ b[n].outcome # "succeeded"
  <2> TAKE n \in AttemptNumbers
  <2>1. CASE n = r.attempts
    BY <2>1, <1>2
  <2>2. CASE n # r.attempts
    BY <2>2, <1>2 DEF RowInv, Leased
  <2> QED BY <2>1, <2>2
<1>6. f.result = 0
  BY <1>1 DEF RowInv, Leased
<1>7. f.cancelAsked <=> f.status \in {"cancel_requested", "cancelled"}
  BY <1>1, <1>3 DEF RowInv, Leased
<1> QED
  BY <1>1, <1>2, <1>3, <1>4, <1>5, <1>6, <1>7 DEF RowInv, Waiting, Leased, Open

LEMMA InsertedKeepsRow ==
  ASSUME NEW r, NEW a, RowInv(r, a), r.status = "absent", NEW origin \in Jobs \cup {None}
  PROVE  RowInv([NoRow EXCEPT !.status = "queued", !.wait = 0, !.replayOf = origin], a)
<1> DEFINE q == [NoRow EXCEPT !.status = "queued", !.wait = 0, !.replayOf = origin]
<1>1. /\ q \in Row /\ q.status = "queued" /\ q.owner = None /\ q.lease = NoLease
      /\ q.attempts = 0 /\ q.token = 0 /\ q.result = 0 /\ q.cancelAsked = FALSE
  <2>2. NoRow \in Row
    BY AttemptNumbersType, NoLeaseType DEF NoRow, Row, Statuses
  <2>3. "queued" \in Statuses /\ 0 \in Int
    BY DEF Statuses, Waiting
  <2> QED BY <2>2, <2>3 DEF Row, NoRow
<1>2. r.attempts = 0 /\ r.status \notin Leased \cup {"succeeded"}
  BY DEF RowInv, NoRow, Leased
<1> SUFFICES RowInv(q, a) OBVIOUS
<1> HIDE DEF q
<1> QED BY <1>1, <1>2, ConfigAssumption DEF RowInv, Waiting, Leased, Open

LEMMA ClaimedKeepsRow ==
  ASSUME NEW r, NEW a, RowInv(r, a), r.status \in Waiting, NEW o \in Owners, NEW lag \in Lags
  PROVE  LET c == Claimed(r, o, lag)
         IN  RowInv(c, [a EXCEPT ![c.attempts] =
                          [token |-> c.token, owner |-> o, outcome |-> "leased"]])
<1> DEFINE c == Claimed(r, o, lag)
           b == [a EXCEPT ![c.attempts] = [token |-> c.token, owner |-> o, outcome |-> "leased"]]
<1>1. LeaseTime - lag \in Int
  BY ConfigAssumption DEF Lags
<1>2. /\ c \in Row /\ c.status = "leased" /\ c.owner = o
      /\ c.attempts = r.attempts + 1 /\ c.token = r.token + 1
      /\ c.result = r.result /\ c.cancelAsked = r.cancelAsked
      /\ c.attempts \in AttemptNumbers
  <2> DEFINE m == r.attempts + 1
             t == r.token + 1
             l == LeaseTime - lag
  <2>1. /\ m \in 0..MaxAttempts /\ m \in AttemptNumbers /\ t \in Nat
    BY ConfigAssumption DEF RowInv, Row, AttemptNumbers
  <2>2. c = [r EXCEPT !.status = "leased", !.attempts = m, !.token = t, !.owner = o, !.lease = l]
    BY DEF Claimed, RowInv, Row
  <2>3. r \in Row
    BY DEF RowInv
  <2> HIDE DEF m, t, l, c
  <2>4. /\ c \in Row /\ c.status = "leased" /\ c.owner = o /\ c.attempts = m /\ c.token = t
        /\ c.result = r.result /\ c.cancelAsked = r.cancelAsked
    BY <1>1, <2>1, <2>2, <2>3 DEF Row, Statuses, Leased, l
  <2> QED BY <2>1, <2>4 DEF m, t
<1>3. /\ b \in [AttemptNumbers -> AttemptRow]
      /\ b[c.attempts] = [token |-> c.token, owner |-> o, outcome |-> "leased"]
      /\ \A n \in AttemptNumbers : n # c.attempts => b[n] = a[n]
  <2>1. [token |-> c.token, owner |-> o, outcome |-> "leased"] \in AttemptRow
    BY <1>2 DEF Row, AttemptRow, Outcomes, Open
  <2>2. a \in [AttemptNumbers -> AttemptRow]
    BY DEF RowInv
  <2> HIDE DEF c
  <2> QED BY <1>2, <2>1, <2>2
<1>4. o # None /\ r.result = 0 /\ ~r.cancelAsked
  BY TableAssumption DEF RowInv, Waiting
<1> SUFFICES RowInv(c, b) OBVIOUS
<1> HIDE DEF c, b
<1>5. \A n \in AttemptNumbers :
        IF n <= c.attempts THEN b[n].token = n ELSE b[n] = NoAttempt
  <2> TAKE n \in AttemptNumbers
  <2>1. CASE n = c.attempts
    BY <2>1, <1>2, <1>3, AttemptNumbersType DEF RowInv
  <2>2. CASE n # c.attempts
    <3>1. b[n] = a[n] /\ (n <= c.attempts <=> n <= r.attempts)
      BY <2>2, <1>2, <1>3, AttemptNumbersType DEF RowInv
    <3> QED BY <3>1 DEF RowInv
  <2> QED BY <2>1, <2>2
<1>6. \A n \in AttemptNumbers : n # c.attempts => b[n].outcome \notin Open \cup {"succeeded"}
  BY <1>3 DEF RowInv, Waiting, Leased
<1> QED
  BY <1>2, <1>3, <1>4, <1>5, <1>6, ConfigAssumption DEF RowInv, Waiting, Leased, Open, Row

(* The row that carries the current fencing token is the last attempt. *)
LEMMA TokenNamesLastAttempt ==
  ASSUME NEW r, NEW a, RowInv(r, a), r.status \in Leased,
         NEW out \in Outcomes, NEW n \in AttemptNumbers
  PROVE  LET b == OutcomeByToken(a, r.token, out)
         IN  /\ r.attempts \in AttemptNumbers
             /\ b \in [AttemptNumbers -> AttemptRow]
             /\ n # r.attempts => b[n] = a[n]
             /\ n = r.attempts => /\ b[n].outcome = out
                                  /\ b[n].token = a[n].token
                                  /\ b[n].owner = a[n].owner
<1>1. r.attempts \in AttemptNumbers
  BY DEF RowInv, Row, AttemptNumbers
<1>2. a[n].token = r.token <=> n = r.attempts
  BY <1>1 DEF RowInv, Row, AttemptNumbers, NoAttempt
<1>3. a \in [AttemptNumbers -> AttemptRow]
  BY DEF RowInv
<1>4. OutcomeByToken(a, r.token, out) \in [AttemptNumbers -> AttemptRow]
  BY <1>3 DEF OutcomeByToken, AttemptRow
<1>5. OutcomeByToken(a, r.token, out)[n] =
        IF n = r.attempts THEN [a[n] EXCEPT !.outcome = out] ELSE a[n]
  BY <1>2 DEF OutcomeByToken
<1>6. a[n] \in AttemptRow
  BY <1>3
<1> QED
  BY <1>1, <1>4, <1>5, <1>6 DEF AttemptRow

LEMMA StartKeepsRow ==
  ASSUME NEW r, NEW a, RowInv(r, a), r.status = "leased"
  PROVE  RowInv([r EXCEPT !.status = "running"], OutcomeByToken(a, r.token, "running"))
<1> DEFINE s == [r EXCEPT !.status = "running"]
           b == OutcomeByToken(a, r.token, "running")
<1>1. /\ s \in Row /\ s.status = "running" /\ s.owner = r.owner
      /\ s.attempts = r.attempts /\ s.token = r.token
      /\ s.result = r.result /\ s.cancelAsked = r.cancelAsked
  BY DEF RowInv, Row, Statuses, Leased
<1>2. \A n \in AttemptNumbers :
        /\ r.attempts \in AttemptNumbers
        /\ b \in [AttemptNumbers -> AttemptRow]
        /\ n # r.attempts => b[n] = a[n]
        /\ n = r.attempts => b[n].outcome = "running" /\ b[n].token = a[n].token /\ b[n].owner = a[n].owner
  BY TokenNamesLastAttempt DEF Leased, Outcomes, Open
<1>3. 1 \in AttemptNumbers
  BY ConfigAssumption DEF AttemptNumbers
<1> SUFFICES RowInv(s, b) OBVIOUS
<1> HIDE DEF s, b
<1>4. \A n \in AttemptNumbers :
        /\ IF n <= s.attempts THEN b[n].token = n ELSE b[n] = NoAttempt
        /\ b[n].outcome \in Open <=> n = s.attempts
        /\ b[n].outcome # "succeeded"
  <2> TAKE n \in AttemptNumbers
  <2>1. CASE n = r.attempts
    BY <2>1, <1>1, <1>2, AttemptNumbersType DEF RowInv, Open
  <2>2. CASE n # r.attempts
    BY <2>2, <1>1, <1>2 DEF RowInv, Leased, Open
  <2> QED BY <2>1, <2>2
<1>5. b \in [AttemptNumbers -> AttemptRow] /\ r.attempts \in AttemptNumbers /\ b[r.attempts].owner = a[r.attempts].owner
      /\ b[r.attempts].outcome = "running"
  BY <1>2, <1>3
<1>6. s.owner # None /\ s.attempts >= 1 /\ s.token = s.attempts
      /\ s.result = 0 /\ ~s.cancelAsked /\ b[s.attempts].owner = s.owner
  BY <1>1, <1>5 DEF RowInv, Leased
<1> QED
  BY <1>1, <1>4, <1>5, <1>6 DEF RowInv, Waiting, Leased, Open

LEMMA SucceedKeepsRow ==
  ASSUME NEW r, NEW a, RowInv(r, a), r.status = "running"
  PROVE  RowInv([Unleased(r) EXCEPT !.status = "succeeded", !.result = r.token],
                OutcomeByToken(a, r.token, "succeeded"))
<1> DEFINE u == Unleased(r)
           s == [u EXCEPT !.status = "succeeded", !.result = r.token]
           b == OutcomeByToken(a, r.token, "succeeded")
<1>1. /\ u \in Row /\ u.owner = None /\ u.lease = NoLease
      /\ u.attempts = r.attempts /\ u.token = r.token /\ u.cancelAsked = r.cancelAsked
  BY UnleasedRow DEF RowInv
<1>2. /\ s \in Row /\ s.status = "succeeded" /\ s.owner = None /\ s.lease = NoLease
      /\ s.attempts = r.attempts /\ s.token = r.token
      /\ s.result = r.token /\ s.cancelAsked = r.cancelAsked
  <2> HIDE DEF u
  <2> QED BY <1>1 DEF Row, Statuses, Terminal
<1>3. \A n \in AttemptNumbers :
        /\ r.attempts \in AttemptNumbers
        /\ b \in [AttemptNumbers -> AttemptRow]
        /\ n # r.attempts => b[n] = a[n]
        /\ n = r.attempts => b[n].outcome = "succeeded" /\ b[n].token = a[n].token
  BY TokenNamesLastAttempt DEF Leased, Outcomes, Open
<1>4. 1 \in AttemptNumbers
  BY ConfigAssumption DEF AttemptNumbers
<1> SUFFICES RowInv(s, b) OBVIOUS
<1> HIDE DEF s, b
<1> QED
  BY <1>2, <1>3, <1>4 DEF RowInv, Waiting, Leased, Open, AttemptNumbers

LEMMA HeartbeatKeepsRow ==
  ASSUME NEW r, NEW a, RowInv(r, a), r.status \in Leased, NEW l \in Int
  PROVE  RowInv([r EXCEPT !.lease = l], a)
<1> DEFINE s == [r EXCEPT !.lease = l]
<1>1. /\ s \in Row /\ s.status = r.status /\ s.owner = r.owner
      /\ s.attempts = r.attempts /\ s.token = r.token
      /\ s.result = r.result /\ s.cancelAsked = r.cancelAsked
  BY DEF RowInv, Row
<1> SUFFICES RowInv(s, a) OBVIOUS
<1> HIDE DEF s
<1> QED BY <1>1 DEF RowInv, Waiting, Leased

LEMMA CancelKeepsRow ==
  ASSUME NEW r, NEW a, RowInv(r, a), r.status \notin Terminal \cup {"absent"}
  PROVE  RowInv([r EXCEPT !.cancelAsked = TRUE,
                          !.status = IF r.status \in Waiting THEN "cancelled"
                                                             ELSE "cancel_requested"], a)
<1> DEFINE next == IF r.status \in Waiting THEN "cancelled" ELSE "cancel_requested"
           s == [r EXCEPT !.cancelAsked = TRUE, !.status = next]
<1>1. /\ s \in Row /\ s.status = next /\ s.owner = r.owner /\ s.lease = r.lease
      /\ s.attempts = r.attempts /\ s.token = r.token
      /\ s.result = r.result /\ s.cancelAsked = TRUE
  BY DEF RowInv, Row, Statuses, Leased, Terminal
<1>2. r.status \in Waiting \/ r.status \in Leased
  BY DEF RowInv, Row, Statuses
<1> SUFFICES RowInv(s, a) OBVIOUS
<1> HIDE DEF s
<1> QED BY <1>1, <1>2 DEF RowInv, Waiting, Leased, Open

LEMMA AgedKeepsRow ==
  ASSUME NEW r, NEW a, RowInv(r, a)
  PROVE  RowInv([r EXCEPT !.lease = IF r.status \in Leased THEN Aged(@) ELSE @,
                          !.wait  = IF r.status \in Waiting THEN Aged(@) ELSE @], a)
<1> DEFINE l == IF r.status \in Leased THEN Aged(r.lease) ELSE r.lease
           w == IF r.status \in Waiting THEN Aged(r.wait) ELSE r.wait
           s == [r EXCEPT !.lease = l, !.wait = w]
<1>1. l \in Int /\ w \in Int /\ (r.status \notin Leased => l = r.lease)
  BY ConfigAssumption DEF RowInv, Row, Aged
<1>2. r.status = "absent" => s = r
  BY DEF RowInv, Row, Leased, Waiting
<1>3. /\ s \in Row /\ s.status = r.status /\ s.owner = r.owner /\ s.lease = l
      /\ s.attempts = r.attempts /\ s.token = r.token
      /\ s.result = r.result /\ s.cancelAsked = r.cancelAsked
  <2> HIDE DEF l, w
  <2> QED BY <1>1 DEF RowInv, Row
<1> SUFFICES RowInv(s, a) OBVIOUS
<1> HIDE DEF s, l, w
<1> QED BY <1>1, <1>2, <1>3 DEF RowInv

-----------------------------------------------------------------------------
(* The moves one row can make, each with the attempt rows it leaves.        *)
Rests(r, a, s, b) == s = r /\ b = a

IsInserted(r, a, s, b) ==
  /\ r.status = "absent"
  /\ \E origin \in Jobs \cup {None} :
       s = [NoRow EXCEPT !.status = "queued", !.wait = 0, !.replayOf = origin]
  /\ b = a

IsClaimed(r, a, s, b) ==
  /\ r.status \in Waiting
  /\ \E o \in Owners, lag \in Lags :
       /\ s = Claimed(r, o, lag)
       /\ b = [a EXCEPT ![s.attempts] = [token |-> s.token, owner |-> o, outcome |-> "leased"]]

HasFailed(r, a, s, b) ==
  /\ r.status \in Leased
  /\ \E permanent \in BOOLEAN, lag \in Lags : s = AfterFailure(r, permanent, lag)
  /\ \E out \in Outcomes \ (Open \cup {"succeeded"}) : b = OutcomeByNumber(a, r.attempts, out)

HasStarted(r, a, s, b) ==
  /\ r.status = "leased"
  /\ s = [r EXCEPT !.status = "running"]
  /\ b = OutcomeByToken(a, r.token, "running")

HasSucceeded(r, a, s, b) ==
  /\ r.status = "running"
  /\ s = [Unleased(r) EXCEPT !.status = "succeeded", !.result = r.token]
  /\ b = OutcomeByToken(a, r.token, "succeeded")

IsExtended(r, a, s, b) ==
  /\ r.status \in Leased
  /\ \E l \in Int : s = [r EXCEPT !.lease = l]
  /\ b = a

IsCancelled(r, a, s, b) ==
  /\ r.status \notin Terminal \cup {"absent"}
  /\ s = [r EXCEPT !.cancelAsked = TRUE,
                   !.status = IF r.status \in Waiting THEN "cancelled" ELSE "cancel_requested"]
  /\ b = a

HasAged(r, a, s, b) ==
  /\ s = [r EXCEPT !.lease = IF r.status \in Leased THEN Aged(@) ELSE @,
                   !.wait  = IF r.status \in Waiting THEN Aged(@) ELSE @]
  /\ b = a

RowStep(r, a, s, b) ==
  \/ Rests(r, a, s, b) \/ IsInserted(r, a, s, b) \/ IsClaimed(r, a, s, b)
  \/ HasFailed(r, a, s, b) \/ HasStarted(r, a, s, b) \/ HasSucceeded(r, a, s, b)
  \/ IsExtended(r, a, s, b) \/ IsCancelled(r, a, s, b) \/ HasAged(r, a, s, b)

(* Every move keeps the row invariant. *)
LEMMA RowStepKeepsRow ==
  ASSUME NEW r, NEW a, NEW s, NEW b, RowInv(r, a), RowStep(r, a, s, b)
  PROVE  RowInv(s, b)
<1>1. CASE Rests(r, a, s, b)        BY <1>1 DEF Rests
<1>2. CASE IsInserted(r, a, s, b)   BY <1>2, InsertedKeepsRow DEF IsInserted
<1>3. CASE IsClaimed(r, a, s, b)
  <2>1. PICK o \in Owners, lag \in Lags :
          /\ s = Claimed(r, o, lag)
          /\ b = [a EXCEPT ![s.attempts] = [token |-> s.token, owner |-> o, outcome |-> "leased"]]
    BY <1>3 DEF IsClaimed
  <2> DEFINE c == Claimed(r, o, lag)
  <2>2. RowInv(c, [a EXCEPT ![c.attempts] = [token |-> c.token, owner |-> o, outcome |-> "leased"]])
    BY <1>3, ClaimedKeepsRow DEF IsClaimed
  <2> QED BY <2>1, <2>2
<1>4. CASE HasFailed(r, a, s, b)    BY <1>4, AfterFailureKeepsRow DEF HasFailed
<1>5. CASE HasStarted(r, a, s, b)   BY <1>5, StartKeepsRow DEF HasStarted
<1>6. CASE HasSucceeded(r, a, s, b)
  <2>1. r.status = "running"
    BY <1>6 DEF HasSucceeded
  <2>2. RowInv([Unleased(r) EXCEPT !.status = "succeeded", !.result = r.token],
               OutcomeByToken(a, r.token, "succeeded"))
    BY <2>1, SucceedKeepsRow
  <2> QED BY <1>6, <2>2 DEF HasSucceeded
<1>7. CASE IsExtended(r, a, s, b)   BY <1>7, HeartbeatKeepsRow DEF IsExtended
<1>8. CASE IsCancelled(r, a, s, b)  BY <1>8, CancelKeepsRow DEF IsCancelled
<1>9. CASE HasAged(r, a, s, b)      BY <1>9, AgedKeepsRow DEF HasAged
<1> QED BY <1>1, <1>2, <1>3, <1>4, <1>5, <1>6, <1>7, <1>8, <1>9 DEF RowStep

-----------------------------------------------------------------------------
(* Every transaction moves every row by one of these moves.                 *)
TablesStep ==
  /\ job' = [j \in Jobs |-> job'[j]]
  /\ attempt' = [j \in Jobs |-> attempt'[j]]
  /\ \A j \in Jobs : RowStep(job[j], attempt[j], job'[j], attempt'[j])

(* A transaction that writes one job. *)
LEMMA OneRowMoves ==
  ASSUME IInv, NEW j \in Jobs, NEW s, NEW b,
         RowStep(job[j], attempt[j], s, b),
         job' = [job EXCEPT ![j] = s], attempt' = [attempt EXCEPT ![j] = b]
  PROVE  TablesStep
<1>1. \A i \in Jobs : i # j => Rests(job[i], attempt[i], job'[i], attempt'[i])
  BY DEF IInv, Rests
<1>2. job'[j] = s /\ attempt'[j] = b
  BY DEF IInv
<1> QED BY <1>1, <1>2 DEF TablesStep, RowStep, IInv

LEMMA TablesStepKeepsInv ==
  ASSUME IInv, TablesStep
  PROVE  IInv'
<1>1. \A j \in Jobs : RowInv(job'[j], attempt'[j])
  BY RowStepKeepsRow DEF IInv, TablesStep
<1>2. \A j \in Jobs : job'[j] \in Row /\ attempt'[j] \in [AttemptNumbers -> AttemptRow]
  BY <1>1 DEF RowInv
<1> QED BY <1>1, <1>2 DEF IInv, TablesStep

(* An attempt row that a holder was handed, and the caller it stands for: a *)
(* call that passes the fence is a move of that job.                        *)
LEMMA HolderCallMoves ==
  ASSUME IInv, NEW j \in Jobs, NEW n \in AttemptNumbers, NEW lag \in Lags,
         HolderCall(j, n, lag)
  PROVE  TablesStep
<1> DEFINE r == job[j]
           a == attempt[j]
           o == a[n].owner
           t == a[n].token
<1>1. r \in Row /\ job \in [Jobs -> Row] /\ attempt \in [Jobs -> [AttemptNumbers -> AttemptRow]]
  BY DEF IInv
<1>2. CASE Start(j, o, t, lag)
  <2>1. r.status = "leased" /\ r.token = t
    BY <1>2 DEF Start, Fenced
  <2>2. /\ job' = [job EXCEPT ![j] = [r EXCEPT !.status = "running"]]
        /\ attempt' = [attempt EXCEPT ![j] = OutcomeByToken(a, r.token, "running")]
    BY <1>1, <1>2, <2>1 DEF Start
  <2>3. HasStarted(r, a, [r EXCEPT !.status = "running"], OutcomeByToken(a, r.token, "running"))
    BY <2>1 DEF HasStarted
  <2> QED BY <2>2, <2>3, OneRowMoves DEF RowStep
<1>3. CASE Heartbeat(j, o, t, lag)
  <2>1. r.status \in Leased
    BY <1>3 DEF Heartbeat, Fenced
  <2>2. LeaseTime - lag \in Int
    BY ConfigAssumption DEF Lags
  <2>3. /\ job' = [job EXCEPT ![j] = [r EXCEPT !.lease = LeaseTime - lag]]
        /\ attempt' = [attempt EXCEPT ![j] = a]
    BY <1>1, <1>3 DEF Heartbeat
  <2>4. IsExtended(r, a, [r EXCEPT !.lease = LeaseTime - lag], a)
    BY <2>1, <2>2 DEF IsExtended
  <2> QED BY <2>3, <2>4, OneRowMoves DEF RowStep
<1>4. CASE Succeed(j, o, t, lag)
  <2> DEFINE s == [Unleased(r) EXCEPT !.status = "succeeded", !.result = r.token]
             b == OutcomeByToken(a, r.token, "succeeded")
  <2>1. r.status = "running" /\ r.token = t
    BY <1>4 DEF Succeed, Fenced
  <2>2. job' = [job EXCEPT ![j] = s] /\ attempt' = [attempt EXCEPT ![j] = b]
    BY <1>1, <1>4, <2>1 DEF Succeed
  <2>3. HasSucceeded(r, a, s, b)
    BY <2>1 DEF HasSucceeded
  <2> QED BY <2>2, <2>3, OneRowMoves DEF RowStep
<1>5. ASSUME NEW permanent \in BOOLEAN, Fail(j, o, t, permanent, lag)
      PROVE  TablesStep
  <2> DEFINE s == AfterFailure(r, permanent, lag)
             b == OutcomeByNumber(a, r.attempts, s.status)
  <2>1. r.status \in Leased /\ r.attempts >= 1
    BY <1>5 DEF Fail, Fenced, Leased, IInv, RowInv
  <2>2. s.attempts = r.attempts /\ s.status \in {"cancelled", "dead_letter", "retry_wait"}
    BY <1>1, <2>1, FailureRow
  <2>3. job' = [job EXCEPT ![j] = s] /\ attempt' = [attempt EXCEPT ![j] = b]
    BY <1>1, <1>5, <2>2 DEF Fail
  <2>4. s.status \in Outcomes \ (Open \cup {"succeeded"})
    BY <2>2 DEF Outcomes, Open
  <2>5. HasFailed(r, a, s, b)
    BY <2>1, <2>4 DEF HasFailed
  <2> QED BY <2>3, <2>5, OneRowMoves DEF RowStep
<1> QED BY <1>2, <1>3, <1>4, <1>5 DEF HolderCall

(* A poll recovers any number of lapsed jobs and claims at most one other:  *)
(* what it recovers waits at least one tick.                                *)
LEMMA ClaimOneMoves ==
  ASSUME IInv, NEW o \in Owners, NEW locked \in SUBSET Jobs, NEW lag \in Lags,
         ClaimOne(o, locked, lag)
  PROVE  TablesStep
<1> DEFINE seen      == Claimable \ locked
           lapsed    == {j \in seen : Lapsed(job[j], lag)}
           recovered == [j \in Jobs |-> IF j \in lapsed THEN AfterFailure(job[j], FALSE, lag)
                                                        ELSE job[j]]
           closed    == [j \in Jobs |->
                          IF j \in lapsed
                          THEN OutcomeByNumber(attempt[j], job[j].attempts, "abandoned")
                          ELSE attempt[j]]
           due       == {j \in seen : Due(recovered[j], lag)}
           first     == {j \in due : \A k \in due : Priority[k] <= Priority[j]}
<1>1. \A j \in Jobs : RowStep(job[j], attempt[j], recovered[j], closed[j])
  <2> TAKE j \in Jobs
  <2>1. CASE j \in lapsed
    <3>1. job[j].status \in Leased
      BY <2>1 DEF Lapsed
    <3>2. "abandoned" \in Outcomes \ (Open \cup {"succeeded"})
      BY DEF Outcomes, Open
    <3>3. /\ recovered[j] = AfterFailure(job[j], FALSE, lag)
          /\ closed[j] = OutcomeByNumber(attempt[j], job[j].attempts, "abandoned")
      BY <2>1
    <3>4. HasFailed(job[j], attempt[j], recovered[j], closed[j])
      BY <3>1, <3>2, <3>3 DEF HasFailed
    <3> QED BY <3>4 DEF RowStep
  <2>2. CASE j \notin lapsed
    BY <2>2 DEF RowStep, Rests
  <2> QED BY <2>1, <2>2
<1>2. CASE due = {} /\ job' = recovered /\ attempt' = closed
  <2> HIDE DEF recovered, closed, due
  <2>1. recovered = [j \in Jobs |-> recovered[j]] /\ closed = [j \in Jobs |-> closed[j]]
    BY DEF recovered, closed
  <2> QED BY <1>1, <1>2, <2>1 DEF TablesStep
<1>3. ASSUME NEW j \in first,
             LET row == Claimed(recovered[j], o, lag)
             IN  /\ job' = [recovered EXCEPT ![j] = row]
                 /\ attempt' = [closed EXCEPT ![j][row.attempts] =
                                  [token |-> row.token, owner |-> o, outcome |-> "leased"]]
      PROVE  TablesStep
  <2> DEFINE row == Claimed(recovered[j], o, lag)
             fresh == [token |-> row.token, owner |-> o, outcome |-> "leased"]
  <2>1. j \in Jobs /\ j \in seen /\ Due(recovered[j], lag)
    BY <1>3, TableAssumption
  <2>2. j \notin lapsed
    <3>1. SUFFICES ASSUME j \in lapsed PROVE FALSE
      OBVIOUS
    <3>2. /\ recovered[j] = AfterFailure(job[j], FALSE, lag)
          /\ job[j] \in Row /\ job[j].attempts >= 1
      BY <2>1, <3>1 DEF Lapsed, IInv, RowInv
    <3>3. ~Due(AfterFailure(job[j], FALSE, lag), lag)
      BY <3>2, FailedIsNotDue
    <3> QED BY <2>1, <3>2, <3>3
  <2>3. recovered[j] = job[j] /\ closed[j] = attempt[j] /\ job[j].status \in Waiting
    BY <2>1, <2>2 DEF Due
  <2>4. recovered \in [Jobs -> Row] /\ closed \in [Jobs -> [AttemptNumbers -> AttemptRow]]
    <3>1. \A i \in Jobs : RowInv(recovered[i], closed[i])
      BY <1>1, RowStepKeepsRow DEF IInv
    <3> QED BY <3>1 DEF RowInv
  <2> HIDE DEF recovered, closed, first, lapsed, seen
  <2>5. /\ job'[j] = row /\ attempt'[j] = [attempt[j] EXCEPT ![row.attempts] = fresh]
        /\ \A i \in Jobs : i # j => job'[i] = recovered[i] /\ attempt'[i] = closed[i]
        /\ job' = [i \in Jobs |-> job'[i]] /\ attempt' = [i \in Jobs |-> attempt'[i]]
    BY <1>3, <2>1, <2>3, <2>4
  <2>6. IsClaimed(job[j], attempt[j], job'[j], attempt'[j])
    BY <2>3, <2>5 DEF IsClaimed
  <2>7. \A i \in Jobs : RowStep(job[i], attempt[i], job'[i], attempt'[i])
    BY <1>1, <2>5, <2>6 DEF RowStep
  <2> QED BY <2>5, <2>7 DEF TablesStep
<1> QED BY <1>2, <1>3 DEF ClaimOne

LEMMA NextMovesRows ==
  ASSUME IInv, [Next]_vars
  PROVE  TablesStep
<1> USE DEF RowStep
<1>0. job \in [Jobs -> Row] /\ attempt \in [Jobs -> [AttemptNumbers -> AttemptRow]]
  BY DEF IInv
<1>1. ASSUME NEW j \in Jobs, NEW origin \in Jobs \cup {None}, Inserted(j, origin)
      PROVE  TablesStep
  <2> DEFINE s == [NoRow EXCEPT !.status = "queued", !.wait = 0, !.replayOf = origin]
  <2>1. job' = [job EXCEPT ![j] = s] /\ attempt' = [attempt EXCEPT ![j] = attempt[j]]
    BY <1>0, <1>1 DEF Inserted
  <2>2. IsInserted(job[j], attempt[j], s, attempt[j])
    BY <1>1 DEF Inserted, IsInserted
  <2> QED BY <2>1, <2>2, OneRowMoves
<1>2. ASSUME NEW j \in Jobs, Enqueue(j)
      PROVE  TablesStep
  BY <1>1, <1>2 DEF Enqueue
<1>3. ASSUME NEW source \in Jobs, NEW j \in Jobs, ReplayDeadLetter(source, j)
      PROVE  TablesStep
  BY <1>1, <1>3 DEF ReplayDeadLetter
<1>4. ASSUME NEW o \in Owners, NEW locked \in SUBSET Jobs, NEW lag \in Lags, ClaimOne(o, locked, lag)
      PROVE  TablesStep
  BY <1>4, ClaimOneMoves
<1>5. ASSUME NEW j \in Jobs, NEW n \in AttemptNumbers, NEW lag \in Lags, HolderCall(j, n, lag)
      PROVE  TablesStep
  BY <1>5, HolderCallMoves
<1>6. ASSUME NEW j \in Jobs, Cancel(j)
      PROVE  TablesStep
  <2> DEFINE r == job[j]
             s == [r EXCEPT !.cancelAsked = TRUE,
                            !.status = IF r.status \in Waiting THEN "cancelled" ELSE "cancel_requested"]
  <2>1. job' = [job EXCEPT ![j] = s] /\ attempt' = [attempt EXCEPT ![j] = attempt[j]]
    BY <1>0, <1>6 DEF Cancel, Row
  <2>2. IsCancelled(r, attempt[j], s, attempt[j])
    BY <1>6 DEF Cancel, IsCancelled
  <2> QED BY <2>1, <2>2, OneRowMoves
<1>7. CASE Tick
  <2>1. \A j \in Jobs : HasAged(job[j], attempt[j], job'[j], attempt'[j])
    BY <1>7 DEF Tick, HasAged
  <2>2. job' = [j \in Jobs |-> job'[j]] /\ attempt' = [j \in Jobs |-> attempt'[j]]
    BY <1>0, <1>7 DEF Tick
  <2> QED BY <2>1, <2>2 DEF TablesStep
<1>8. CASE UNCHANGED vars
  BY <1>0, <1>8 DEF vars, TablesStep, Rests
<1> QED BY <1>2, <1>3, <1>4, <1>5, <1>6, <1>7, <1>8 DEF Next

-----------------------------------------------------------------------------
(* The inductive invariant, and the invariants the runs check.              *)
LEMMA InitIInv == Init => IInv
<1> SUFFICES ASSUME Init PROVE IInv
  OBVIOUS
<1> DEFINE blank == [n \in AttemptNumbers |-> NoAttempt]
<1>1. NoRow \in Row /\ NoAttempt \in AttemptRow
  BY AttemptNumbersType, NoLeaseType DEF NoRow, NoAttempt, Row, AttemptRow, Statuses, Outcomes
<1>2. RowInv(NoRow, blank)
  BY <1>1, AttemptNumbersType DEF RowInv, NoRow, NoAttempt, Waiting, Leased, Open
<1> QED BY <1>1, <1>2 DEF Init, IInv

THEOREM Invariance == Spec => []IInv
<1>1. IInv /\ [Next]_vars => IInv'
  BY NextMovesRows, TablesStepKeepsInv
<1> QED BY InitIInv, <1>1, PTL DEF Spec

(* The tables hold rows of the declared columns: no status, attempt number  *)
(* or outcome outside the CHECK constraints is ever written.                *)
THEOREM TypeCorrect == Spec => []TypeOK
<1>1. IInv => TypeOK
  BY DEF IInv, TypeOK
<1> QED BY <1>1, Invariance, PTL

(* A job that waits for an attempt has one left, so claim_one never trips   *)
(* the attempt_count constraint.                                            *)
THEOREM BudgetHolds == Spec => []RetriableHasBudget
<1>1. IInv => RetriableHasBudget
  BY DEF IInv, RowInv, RetriableHasBudget
<1> QED BY <1>1, Invariance, PTL

(* The fencing token and the attempt number of a job name the same attempt. *)
THEOREM FenceNamesAttempt == Spec => []AttemptsFollowFence
<1>1. IInv => AttemptsFollowFence
  BY DEF IInv, RowInv, AttemptsFollowFence
<1> QED BY <1>1, Invariance, PTL

(* At most one attempt of a job is open, the lease owner's. *)
THEOREM AttemptExclusion == Spec => []OneOpenAttempt
<1>1. ASSUME IInv, NEW j \in Jobs, NEW n \in AttemptNumbers
      PROVE  /\ attempt[j][n].outcome \in Open
                  <=> (n = job[j].attempts /\ job[j].status \in Leased)
             /\ attempt[j][n].outcome \in Open => attempt[j][n].owner = job[j].owner
             /\ job[j].status \in Open /\ n = job[j].attempts
                  => attempt[j][n].outcome = job[j].status
  BY <1>1 DEF IInv, RowInv
<1>2. IInv => OneOpenAttempt
  BY <1>1 DEF OneOpenAttempt
<1> QED BY <1>2, Invariance, PTL

(* A job has at most one result, that of the last lease, and none once it   *)
(* was cancelled.                                                           *)
THEOREM ResultIsUnique == Spec => []OneResultPerJob
<1>1. IInv => OneResultPerJob
  BY DEF IInv, RowInv, OneResultPerJob
<1> QED BY <1>1, Invariance, PTL

-----------------------------------------------------------------------------
(* What no move does to a row.                                              *)
Admissible(r, a, s, b) ==
  /\ r.status \in Terminal => s = r /\ b = a
  /\ \A n \in AttemptNumbers : a[n].outcome \notin Open \cup {"none"} => b[n] = a[n]
  /\ s.token \in {r.token, r.token + 1}
  /\ s.token # r.token <=> (r.status \notin Leased /\ s.status \in Leased)
  /\ r.status = "cancel_requested" => s.status \in {"cancel_requested", "cancelled"}

LEMMA MovesAreAdmissible ==
  ASSUME NEW r, NEW a, NEW s, NEW b, RowInv(r, a), RowStep(r, a, s, b)
  PROVE  Admissible(r, a, s, b)
<1> USE DEF Admissible
<1>0. /\ r \in Row /\ r.token \in Nat /\ r.token = r.attempts /\ a \in [AttemptNumbers -> AttemptRow]
      /\ r.status \in Leased => r.attempts >= 1
      /\ \A n \in AttemptNumbers :
           a[n].outcome \in Open <=> (n = r.attempts /\ r.status \in Leased)
  BY AttemptNumbersType DEF RowInv
<1>1. CASE Rests(r, a, s, b)
  BY <1>0, <1>1 DEF Rests, Terminal, Leased
<1>2. CASE IsInserted(r, a, s, b)
  <2>1. r = NoRow /\ b = a
    BY <1>2 DEF IsInserted, RowInv
  <2>2. s.token = 0 /\ s.status = "queued"
    BY <1>2 DEF IsInserted, NoRow
  <2> QED BY <2>1, <2>2 DEF NoRow, Terminal, Leased
<1>3. CASE IsClaimed(r, a, s, b)
  <2>1. PICK o \in Owners, lag \in Lags :
          /\ s = Claimed(r, o, lag)
          /\ b = [a EXCEPT ![s.attempts] = [token |-> s.token, owner |-> o, outcome |-> "leased"]]
    BY <1>3 DEF IsClaimed
  <2>2. s.token = r.token + 1 /\ s.attempts = r.attempts + 1 /\ s.status = "leased"
    BY <1>0, <2>1 DEF Claimed, Row
  <2>3. \A n \in AttemptNumbers : n = s.attempts => a[n] = NoAttempt
    BY <1>0, <2>2, AttemptNumbersType DEF RowInv
  <2>4. \A n \in AttemptNumbers : n # s.attempts => b[n] = a[n]
    BY <1>0, <2>1
  <2>5. \A n \in AttemptNumbers : a[n].outcome \notin Open \cup {"none"} => b[n] = a[n]
    BY <2>3, <2>4 DEF NoAttempt
  <2> QED BY <1>0, <1>3, <2>2, <2>5 DEF IsClaimed, Waiting, Terminal, Leased
<1>4. CASE HasFailed(r, a, s, b)
  <2>1. /\ s.status \in {"cancelled", "dead_letter", "retry_wait"}
        /\ s.status = "cancelled" <=> r.status = "cancel_requested"
        /\ s.token = r.token
    BY <1>0, <1>4, FailureRow DEF HasFailed
  <2>2. \A n \in AttemptNumbers : n # r.attempts => b[n] = a[n]
    BY <1>0, <1>4 DEF HasFailed, OutcomeByNumber
  <2>3. \A n \in AttemptNumbers : a[n].outcome \notin Open \cup {"none"} => b[n] = a[n]
    BY <1>0, <1>4, <2>2 DEF HasFailed
  <2> QED BY <1>0, <1>4, <2>1, <2>3 DEF HasFailed, Terminal, Leased
<1>5. CASE HasStarted(r, a, s, b)
  <2>1. s.token = r.token /\ s.status = "running" /\ r.status = "leased"
    BY <1>0, <1>5 DEF HasStarted, Row
  <2>2. \A n \in AttemptNumbers : n # r.attempts => b[n] = a[n]
    BY <1>5, TokenNamesLastAttempt DEF HasStarted, Leased, Outcomes, Open
  <2> QED BY <1>0, <2>1, <2>2 DEF Terminal, Leased
<1>6. CASE HasSucceeded(r, a, s, b)
  <2>1. s.token = r.token /\ s.status = "succeeded" /\ r.status = "running"
    BY <1>0, <1>6, UnleasedRow DEF HasSucceeded, Row
  <2>2. \A n \in AttemptNumbers : n # r.attempts => b[n] = a[n]
    BY <1>6, TokenNamesLastAttempt DEF HasSucceeded, Leased, Outcomes, Open
  <2> QED BY <1>0, <2>1, <2>2 DEF Terminal, Leased
<1>7. CASE IsExtended(r, a, s, b)
  <2>1. s.token = r.token /\ s.status = r.status /\ r.status \in Leased /\ b = a
    BY <1>0, <1>7 DEF IsExtended, Row
  <2> QED BY <1>0, <2>1 DEF Terminal, Leased
<1>8. CASE IsCancelled(r, a, s, b)
  <2>1. /\ s.token = r.token /\ b = a
        /\ r.status \notin Terminal \cup {"absent"}
        /\ s.status = IF r.status \in Waiting THEN "cancelled" ELSE "cancel_requested"
    BY <1>0, <1>8 DEF IsCancelled, Row
  <2> QED BY <1>0, <2>1 DEF Row, Statuses, Waiting, Leased
<1>9. CASE HasAged(r, a, s, b)
  <2>1. s.token = r.token /\ s.status = r.status /\ b = a
    BY <1>0, <1>9 DEF HasAged, Row
  <2>2. r.status \in Terminal => s = r
    BY <1>0, <1>9 DEF HasAged, Row, Terminal, Leased, Waiting
  <2> QED BY <1>0, <2>1, <2>2
<1> QED BY <1>1, <1>2, <1>3, <1>4, <1>5, <1>6, <1>7, <1>8, <1>9 DEF RowStep

LEMMA StepsAreAdmissible ==
  ASSUME IInv, [Next]_vars
  PROVE  \A j \in Jobs : Admissible(job[j], attempt[j], job'[j], attempt'[j])
BY NextMovesRows, MovesAreAdmissible DEF IInv, TablesStep

(* A terminal job and its attempts are never written again. *)
THEOREM TerminalStays == Spec => TerminalIsFinal
<1>1. IInv /\ [Next]_vars =>
        [\A j \in Jobs : job[j].status \in Terminal =>
           job'[j] = job[j] /\ attempt'[j] = attempt[j]]_vars
  BY StepsAreAdmissible DEF Admissible
<1> QED BY <1>1, Invariance, PTL DEF Spec, TerminalIsFinal

(* What a closed attempt recorded stays. *)
THEOREM ClosedStays == Spec => ClosedAttemptIsFinal
<1>1. IInv /\ [Next]_vars =>
        [\A j \in Jobs, n \in AttemptNumbers :
           attempt[j][n].outcome \notin Open \cup {"none"} => attempt'[j][n] = attempt[j][n]]_vars
  BY StepsAreAdmissible DEF Admissible
<1> QED BY <1>1, Invariance, PTL DEF Spec, ClosedAttemptIsFinal

(* The fencing token grows by one exactly when a lease is handed out. *)
THEOREM FenceGrows == Spec => FenceGrowsWithEachLease
<1>1. IInv /\ [Next]_vars =>
        [\A j \in Jobs :
           /\ job'[j].token \in {job[j].token, job[j].token + 1}
           /\ job'[j].token # job[j].token
                <=> (job[j].status \notin Leased /\ job'[j].status \in Leased)]_vars
  BY StepsAreAdmissible DEF Admissible
<1> QED BY <1>1, Invariance, PTL DEF Spec, FenceGrowsWithEachLease

(* After an accepted cancel request only `cancelled` can follow. *)
THEOREM CancelStands == Spec => CancelIsNeverOvertaken
<1>1. IInv /\ [Next]_vars =>
        [\A j \in Jobs : job[j].status = "cancel_requested" =>
           job'[j].status \in {"cancel_requested", "cancelled"}]_vars
  BY StepsAreAdmissible DEF Admissible
<1> QED BY <1>1, Invariance, PTL DEF Spec, CancelIsNeverOvertaken

-----------------------------------------------------------------------------
(* Refinement: the step of JobLifecycle that a row's move stands for.       *)
LEMMA PhaseOf ==
  /\ \A status \in Waiting : Phase(status) = "idle"
  /\ \A status \in Open : Phase(status) = "held"
  /\ Phase("cancel_requested") = "revoked"
  /\ \A status \in Terminal \cup {"absent"} : Phase(status) = status
  BY DEF Phase, Waiting, Open, Terminal

Promised(r, s) ==
  LET Goes(from, to) == Phase(r.status) = from /\ Phase(s.status) = to
      Same           == s.token = r.token /\ s.result = r.result
  IN  \/ Goes("absent", "idle") /\ Same
      \/ /\ Goes("idle", "held")
         /\ r.token < MaxAttempts /\ s.token = r.token + 1 /\ s.result = r.result
      \/ Goes("held", "idle") /\ r.token < MaxAttempts /\ Same
      \/ Goes("held", "succeeded") /\ s.token = r.token /\ s.result = r.token
      \/ Goes("held", "dead_letter") /\ Same
      \/ (Goes("idle", "cancelled") \/ Goes("held", "revoked")) /\ Same
      \/ Goes("revoked", "cancelled") /\ Same
      \/ Phase(s.status) = Phase(r.status) /\ Same

LEMMA MovesArePromised ==
  ASSUME NEW r, NEW a, NEW s, NEW b, RowInv(r, a), RowStep(r, a, s, b)
  PROVE  Promised(r, s)
<1> USE DEF Promised
<1>0. /\ r \in Row /\ r.token \in Nat /\ r.token = r.attempts
      /\ r.status \in Waiting => r.token < MaxAttempts
      /\ r.status \in Leased => r.attempts >= 1
      /\ r.status \in Statuses
  BY AttemptNumbersType DEF RowInv, Row
<1>1. CASE Rests(r, a, s, b)
  BY <1>1 DEF Rests
<1>2. CASE IsInserted(r, a, s, b)
  <2>1. r = NoRow
    BY <1>2 DEF IsInserted, RowInv
  <2>2. s.token = 0 /\ s.result = 0 /\ s.status = "queued"
    BY <1>2 DEF IsInserted, NoRow
  <2> QED BY <2>1, <2>2, PhaseOf DEF NoRow, Waiting
<1>3. CASE IsClaimed(r, a, s, b)
  <2>1. s.token = r.token + 1 /\ s.result = r.result /\ s.status = "leased"
    BY <1>0, <1>3 DEF IsClaimed, Claimed, Row
  <2> QED BY <1>0, <1>3, <2>1, PhaseOf DEF IsClaimed, Open
<1>4. CASE HasFailed(r, a, s, b)
  <2>1. /\ r.status \in Leased
        /\ s.status \in {"cancelled", "dead_letter", "retry_wait"}
        /\ s.status = "cancelled" <=> r.status = "cancel_requested"
        /\ s.status = "retry_wait" => r.token < MaxAttempts
        /\ s.token = r.token /\ s.result = r.result
    BY <1>0, <1>4, FailureRow DEF HasFailed
  <2>2. CASE r.status = "cancel_requested"
    BY <2>1, <2>2, PhaseOf DEF Terminal
  <2>3. CASE r.status \in Open
    <3>1. Phase(r.status) = "held" /\ s.status \in {"dead_letter", "retry_wait"}
      BY <2>1, <2>3, PhaseOf DEF Open
    <3>2. CASE s.status = "dead_letter"
      BY <2>1, <3>1, <3>2, PhaseOf DEF Terminal
    <3>3. CASE s.status = "retry_wait"
      BY <2>1, <3>1, <3>3, PhaseOf DEF Waiting
    <3> QED BY <3>1, <3>2, <3>3
  <2> QED BY <2>1, <2>2, <2>3 DEF Leased, Open
<1>5. CASE HasStarted(r, a, s, b)
  <2>1. s.token = r.token /\ s.result = r.result /\ s.status = "running" /\ r.status = "leased"
    BY <1>0, <1>5 DEF HasStarted, Row
  <2> QED BY <2>1, PhaseOf DEF Open
<1>6. CASE HasSucceeded(r, a, s, b)
  <2>1. s.token = r.token /\ s.result = r.token /\ s.status = "succeeded" /\ r.status = "running"
    BY <1>0, <1>6, UnleasedRow DEF HasSucceeded, Row
  <2> QED BY <2>1, PhaseOf DEF Open, Terminal
<1>7. CASE IsExtended(r, a, s, b)
  BY <1>0, <1>7 DEF IsExtended, Row
<1>8. CASE IsCancelled(r, a, s, b)
  <2>1. /\ s.token = r.token /\ s.result = r.result
        /\ r.status \in Waiting \cup Leased
        /\ s.status = IF r.status \in Waiting THEN "cancelled" ELSE "cancel_requested"
    BY <1>0, <1>8 DEF IsCancelled, Row, Statuses
  <2>2. CASE r.status \in Waiting
    BY <2>1, <2>2, PhaseOf DEF Terminal
  <2>3. CASE r.status \in Leased
    BY <2>1, <2>3, PhaseOf DEF Leased, Open, Waiting
  <2> QED BY <2>1, <2>2, <2>3
<1>9. CASE HasAged(r, a, s, b)
  BY <1>0, <1>9 DEF HasAged, Row
<1> QED BY <1>1, <1>2, <1>3, <1>4, <1>5, <1>6, <1>7, <1>8, <1>9 DEF RowStep

(* The job table implements JobLifecycle: every transaction is a step of the *)
(* abstract specification, or hides behind it.                               *)
THEOREM Refinement == Spec => ImplementsLifecycle
<1>1. Init => Lifecycle!Init
  BY PhaseOf DEF Init, Lifecycle!Init, NoRow
<1>2. IInv /\ [Next]_vars => [Lifecycle!Next]_Lifecycle!lifecycleVars
  <2> SUFFICES ASSUME IInv, [Next]_vars
               PROVE  Lifecycle!Next
    OBVIOUS
  <2>1. ASSUME NEW j \in Jobs
        PROVE  Lifecycle!JobStep(j)
    <3>1. Promised(job[j], job'[j])
      BY NextMovesRows, MovesArePromised DEF IInv, TablesStep
    <3> QED BY <3>1 DEF Promised, Lifecycle!JobStep, Lifecycle!Submit, Lifecycle!Grant,
            Lifecycle!Release, Lifecycle!Commit, Lifecycle!Bury, Lifecycle!Revoke,
            Lifecycle!Stop, Lifecycle!Rests, Lifecycle!Moves, Lifecycle!SameEpoch
  <2> QED BY <2>1 DEF Lifecycle!Next
<1> QED BY <1>1, <1>2, Invariance, PTL DEF Spec, ImplementsLifecycle, Lifecycle!Spec

-----------------------------------------------------------------------------
(* What the callers of the repository rely on.                               *)

(* No result is stored or changed, no row is in two minds about it. *)
Quiet == \A j \in Jobs : job'[j].status = "succeeded" <=> job[j].status = "succeeded"

(* The holder of token t stores the result of j. *)
Won(j, t) ==
  /\ job[j].status = "running" /\ job[j].token = t
  /\ job'[j].status = "succeeded" /\ job'[j].result = t
  /\ \A i \in Jobs \ {j} : job'[i].status = "succeeded" <=> job[i].status = "succeeded"

(* A caller the fence lets through is the one job_attempts names. *)
LEMMA HolderIsRecorded ==
  ASSUME IInv, NEW j \in Jobs, NEW o \in Owners, NEW t, NEW lag, Fenced(j, o, t, lag, Leased)
  PROVE  \E n \in AttemptNumbers :
            attempt[j][n] # NoAttempt /\ attempt[j][n].owner = o /\ attempt[j][n].token = t
<1> DEFINE n == job[j].attempts
<1>1. /\ job[j].status \in Leased /\ job[j].owner = o /\ job[j].token = t
      /\ RowInv(job[j], attempt[j])
  BY DEF Fenced, IInv
<1>2. n \in AttemptNumbers /\ n <= n
  BY <1>1, AttemptNumbersType DEF RowInv, AttemptNumbers
<1>3. attempt[j][n].owner = o /\ attempt[j][n].token = t
  BY <1>1, <1>2 DEF RowInv
<1>4. attempt[j][n] # NoAttempt
  BY <1>3, TableAssumption DEF NoAttempt
<1> QED BY <1>2, <1>3, <1>4

LEMMA CallsAreSteps ==
  ASSUME IInv, NEW j \in Jobs, NEW o \in Owners, NEW t, NEW lag \in Lags,
         \/ Start(j, o, t, lag) \/ Heartbeat(j, o, t, lag) \/ Succeed(j, o, t, lag)
         \/ \E permanent \in BOOLEAN : Fail(j, o, t, permanent, lag)
  PROVE  Next
<1>1. Fenced(j, o, t, lag, Leased)
  BY DEF Start, Heartbeat, Succeed, Fail, Fenced, Leased
<1>2. PICK n \in AttemptNumbers :
         attempt[j][n] # NoAttempt /\ attempt[j][n].owner = o /\ attempt[j][n].token = t
  BY <1>1, HolderIsRecorded
<1>3. HolderCall(j, n, lag)
  BY <1>2 DEF HolderCall
<1> QED BY <1>3 DEF Next

(* Only succeed() stores a result. *)
LEMMA CallsAreQuiet ==
  ASSUME IInv, NEW j \in Jobs, NEW o, NEW t, NEW lag \in Lags,
         \/ Start(j, o, t, lag) \/ Heartbeat(j, o, t, lag) \/ Enqueue(j) \/ Cancel(j) \/ Tick
         \/ \E permanent \in BOOLEAN : Fail(j, o, t, permanent, lag)
  PROVE  Quiet
<1>0. job \in [Jobs -> Row]
  BY DEF IInv
<1>1. CASE Start(j, o, t, lag)
  BY <1>0, <1>1 DEF Start, Fenced, Quiet, Row
<1>2. CASE Heartbeat(j, o, t, lag)
  BY <1>0, <1>2 DEF Heartbeat, Quiet, Row
<1>3. CASE Enqueue(j)
  BY <1>0, <1>3 DEF Enqueue, Inserted, NoRow, Quiet, Row
<1>4. CASE Cancel(j)
  BY <1>0, <1>4 DEF Cancel, Terminal, Quiet, Row
<1>5. CASE Tick
  BY <1>0, <1>5 DEF Tick, Quiet, Row
<1>6. ASSUME NEW permanent \in BOOLEAN, Fail(j, o, t, permanent, lag)
      PROVE  Quiet
  <2>1. job[j] \in Row /\ job[j].attempts >= 1 /\ job[j].status # "succeeded"
    BY <1>6 DEF Fail, Fenced, Leased, IInv, RowInv
  <2>2. AfterFailure(job[j], permanent, lag).status # "succeeded"
    BY <2>1, FailureRow
  <2> QED BY <1>0, <1>6, <2>1, <2>2 DEF Fail, Quiet
<1> QED BY <1>1, <1>2, <1>3, <1>4, <1>5, <1>6

LEMMA PollIsQuiet ==
  ASSUME IInv, NEW o \in Owners, NEW locked \in SUBSET Jobs, NEW lag \in Lags,
         ClaimOne(o, locked, lag)
  PROVE  Quiet
<1> DEFINE lapsed    == {j \in Claimable \ locked : Lapsed(job[j], lag)}
           recovered == [j \in Jobs |-> IF j \in lapsed THEN AfterFailure(job[j], FALSE, lag)
                                                        ELSE job[j]]
<1>1. ASSUME NEW j \in Jobs
      PROVE  recovered[j] \in Row /\ (recovered[j].status = "succeeded" <=> job[j].status = "succeeded")
  <2>1. job[j] \in Row /\ (j \in lapsed => job[j].attempts >= 1 /\ job[j].status # "succeeded")
    BY DEF IInv, RowInv, Lapsed, Leased
  <2>2. j \in lapsed => /\ AfterFailure(job[j], FALSE, lag) \in Row
                        /\ AfterFailure(job[j], FALSE, lag).status # "succeeded"
    BY <2>1, FailureRow
  <2> QED BY <2>1, <2>2
<1>2. \/ job' = recovered
      \/ \E j \in Jobs : /\ Due(recovered[j], lag)
                         /\ job' = [recovered EXCEPT ![j] = Claimed(recovered[j], o, lag)]
  BY TableAssumption DEF ClaimOne
<1>3. DOMAIN recovered = Jobs
  OBVIOUS
<1> HIDE DEF recovered
<1>4. ASSUME NEW j \in Jobs, Due(recovered[j], lag),
             job' = [recovered EXCEPT ![j] = Claimed(recovered[j], o, lag)]
      PROVE  Quiet
  <2>1. recovered[j].status # "succeeded" /\ Claimed(recovered[j], o, lag).status = "leased"
    BY <1>1, <1>4 DEF Due, Waiting, Claimed, Row
  <2>2. job'[j].status = "leased" /\ \A i \in Jobs \ {j} : job'[i] = recovered[i]
    BY <1>3, <1>4, <2>1
  <2> QED BY <1>1, <2>1, <2>2 DEF Quiet
<1> QED BY <1>1, <1>2, <1>4 DEF Quiet

(* The same of a failure alone. *)
LEMMA FailIsQuiet ==
  ASSUME IInv, NEW j \in Jobs, NEW o \in Owners, NEW t, NEW lag \in Lags,
         NEW permanent \in BOOLEAN, Fail(j, o, t, permanent, lag)
  PROVE  Next /\ Quiet
BY CallsAreSteps, CallsAreQuiet

LEMMA SucceedWins ==
  ASSUME IInv, NEW j \in Jobs, NEW o, NEW t, NEW lag, Succeed(j, o, t, lag)
  PROVE  Won(j, t)
<1>1. job \in [Jobs -> Row] /\ Unleased(job[j]) \in Row
  BY UnleasedRow DEF IInv
<1>2. /\ job[j].status = "running" /\ job[j].token = t
      /\ job' = [job EXCEPT ![j] = [Unleased(job[j]) EXCEPT !.status = "succeeded", !.result = t]]
  BY <1>1 DEF Succeed, Fenced
<1>3. job'[j].status = "succeeded" /\ job'[j].result = t /\ \A i \in Jobs \ {j} : job'[i] = job[i]
  BY <1>1, <1>2 DEF Row
<1> QED BY <1>2, <1>3 DEF Won

(* Numbers of attempts and tokens only grow, a result is never replaced. *)
LEMMA StepsKeepResults ==
  ASSUME IInv, [Next]_vars, NEW j \in Jobs
  PROVE  /\ IInv'
         /\ job[j].token \in 0..MaxAttempts /\ job'[j].token \in 0..MaxAttempts
         /\ job[j].token <= job'[j].token
         /\ job'[j].attempts # job[j].attempts => job[j].token < job'[j].token
         /\ job[j].status = "succeeded" => job'[j] = job[j]
         /\ job[j].status = "succeeded" => job[j].result = job[j].token
<1>1. IInv'
  BY NextMovesRows, TablesStepKeepsInv
<1>2. RowInv(job[j], attempt[j]) /\ RowInv(job'[j], attempt'[j])
  BY <1>1 DEF IInv
<1>3. Admissible(job[j], attempt[j], job'[j], attempt'[j])
  BY StepsAreAdmissible
<1>4. /\ job[j].token = job[j].attempts /\ job[j].token \in 0..MaxAttempts
      /\ job'[j].token = job'[j].attempts /\ job'[j].token \in 0..MaxAttempts
      /\ job[j].status = "succeeded" => job[j].result = job[j].token
  BY <1>2 DEF RowInv, Row
<1> QED BY <1>1, <1>3, <1>4, ConfigAssumption DEF Admissible, Terminal
=============================================================================
