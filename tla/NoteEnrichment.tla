---------------------------- MODULE NoteEnrichment ----------------------------
(***************************************************************************)
(* The notes of one user, the review memories made for them, and the       *)
(* transactions that change them: requests of NoteService and of           *)
(* MemoryService, and the handler of e4.note.enrich, which reads a note,   *)
(* asks the model for tags and a category, and writes them in a second     *)
(* transaction.                                                            *)
(*                                                                         *)
(* A transaction is open from its first lock to its commit, and may be     *)
(* rolled back anywhere in between: a deadlock, a lock wait timeout, a     *)
(* lost connection.  A step takes one lock; what a transaction writes      *)
(* shows when it commits.  Tags and category are one value, `meta`.        *)
(* Attempts of a job overlap when a lease is lost (JobRunner); here any    *)
(* handler may be at work on any claim.                                    *)
(***************************************************************************)
EXTENDS Naturals, FiniteSets

CONSTANTS
  Notes,        \* identifiers of notes, drawn afresh by uuid4
  Texts,        \* contents of a note
  Metas,        \* tags with a category
  NoMeta,       \* SQL NULL in both columns
  EnrichJobs,   \* rows of jobs, of the type e4.note.enrich
  Tries,        \* JobRuntimeConfig.max_attempts
  Requests,     \* transactions of NoteService
  MaxEntered,   \* bound: the reviews of a note its user has entered at a time
  Nobody        \* the holder of a free lock

Handlers == EnrichJobs \X (1..Tries)

ASSUME NotesAssumption ==
  /\ Tries \in Nat \ {0} /\ MaxEntered \in Nat
  /\ NoMeta \notin Metas
  /\ Nobody \notin Handlers \cup Requests
  /\ Handlers \cap Requests = {}

VARIABLES
  enabled,    \* E5_RAG_ENABLED
  gate,       \* rag_user_states.status: "building", or "open" for ready and failed
  note,       \* the rows of notes
  reviews,    \* the number of review memories of a note that enrich() made
  entered,    \* the number of those its user made or turned into reviews
  chosen,     \* the metadata its user gave a note last
  phase, epoch, lapsed,   \* jobs: status, fencing token, lease run out
  task,       \* payload of a job
  handler,    \* the handler of each attempt
  request,    \* the transactions of NoteService
  owner,      \* who holds the lock of a row of notes
  holder      \* who holds the lock of the user's row and of its rag state

rows   == <<note, reviews, entered, chosen>>
jobs   == <<phase, epoch, lapsed, task>>
locks  == <<owner, holder>>
noteVars == <<enabled, gate, rows, jobs, handler, request, locks>>

Transactions == Handlers \cup Requests
Writes       == {"update", "label", "delete", "batch"}

NoNote    == [status |-> "absent", text |-> NoMeta, meta |-> NoMeta]
Deleted   == [NoNote EXCEPT !.status = "deleted"]
NoTask    == [note |-> Nobody, force |-> FALSE]
NoHandler == [pc |-> "none", text |-> NoMeta, meta |-> NoMeta, had |-> FALSE]
Returned  == [NoHandler EXCEPT !.pc = "gone"]
NoRequest == [pc |-> "new", op |-> "none", notes |-> {}, text |-> NoMeta, meta |-> NoMeta,
              scanned |-> {}, found |-> [n \in Notes |-> 0]]
Answered  == [NoRequest EXCEPT !.pc = "done"]

RowTypes ==
  /\ enabled \in BOOLEAN
  /\ gate \in {"open", "building"}
  /\ note \in [Notes -> [status : {"absent", "live", "deleted"}, text : Texts \cup {NoMeta},
                         meta : Metas \cup {NoMeta}]]
  /\ reviews \in [Notes -> Nat]
  /\ entered \in [Notes -> 0..MaxEntered]
  /\ chosen \in [Notes -> Metas \cup {NoMeta}]

JobTypes ==
  /\ phase \in [EnrichJobs -> {"absent", "idle", "held", "ended"}]
  /\ epoch \in [EnrichJobs -> 0..Tries]
  /\ lapsed \in [EnrichJobs -> BOOLEAN]
  /\ task \in [EnrichJobs -> [note : Notes \cup {Nobody}, force : BOOLEAN]]
  /\ \A j \in EnrichJobs : phase[j] # "absent" => task[j].note \in Notes

HandlerTypes ==
  /\ handler \in [Handlers -> [pc : {"none", "begun", "tagging", "fenced", "checked", "gated", "gone"},
                               text : Texts \cup {NoMeta}, meta : Metas \cup {NoMeta}, had : BOOLEAN]]
  /\ \A a \in Handlers : handler[a].pc # "none" => phase[a[1]] # "absent"

RequestTypes ==
  request \in [Requests -> [pc : {"new", "open", "done"}, op : Writes \cup {"none"},
                           notes : SUBSET Notes, text : Texts \cup {NoMeta},
                           meta : Metas \cup {NoMeta}, scanned : SUBSET Notes,
                           found : [Notes -> Nat]]]

LockTypes ==
  /\ owner \in [Notes -> Transactions \cup {Nobody}]
  /\ holder \in Transactions \cup {Nobody}

NotesTypeOK == RowTypes /\ JobTypes /\ HandlerTypes /\ RequestTypes /\ LockTypes

NotesInit ==
  /\ enabled \in BOOLEAN
  /\ gate = "open"
  /\ note = [n \in Notes |-> NoNote]
  /\ reviews = [n \in Notes |-> 0]
  /\ entered = [n \in Notes |-> 0]
  /\ chosen = [n \in Notes |-> NoMeta]
  /\ phase = [j \in EnrichJobs |-> "absent"]
  /\ epoch = [j \in EnrichJobs |-> 0]
  /\ lapsed = [j \in EnrichJobs |-> FALSE]
  /\ task = [j \in EnrichJobs |-> NoTask]
  /\ handler = [a \in Handlers |-> NoHandler]
  /\ request = [r \in Requests |-> NoRequest]
  /\ owner = [n \in Notes |-> Nobody]
  /\ holder = Nobody

-----------------------------------------------------------------------------
(* Locks.                                                                   *)

LockNote(t, n) == owner[n] = Nobody /\ owner' = [owner EXCEPT ![n] = t]

(* _enforce_e5_scope_gate: the user's row, then its rag state, once in a     *)
(* transaction; a rebuild under way refuses the write.                       *)
LockUser(t) == enabled /\ holder = Nobody /\ holder' = t

Release(t) ==
  /\ owner' = [n \in Notes |-> IF owner[n] = t THEN Nobody ELSE owner[n]]
  /\ holder' = IF holder = t THEN Nobody ELSE holder

Scanned(n) == {r \in Requests : request[r].pc = "open" /\ n \in request[r].scanned}

(* Fault: FOR UPDATE locks the rows it finds, but not the gaps between them   *)
(* (what READ COMMITTED does).                                               *)
FoundFree(n) == \A r \in Scanned(n) : request[r].found[n] = 0

(* SELECT ... FOR UPDATE over the reviews of a note locks the rows it finds   *)
(* and, under REPEATABLE READ, the gap another would be inserted into.       *)
GapFree(n) == Scanned(n) = {}

HasReview(n) == reviews[n] > 0 \/ entered[n] > 0

(* Locks of gaps do not exclude each other, locks of rows do.               *)
ReviewsFree(n) == HasReview(n) => Scanned(n) = {}

-----------------------------------------------------------------------------
(* Jobs.                                                                    *)

Submit(j, n, force) ==
  /\ phase[j] = "absent"
  /\ phase' = [phase EXCEPT ![j] = "idle"]
  /\ task' = [task EXCEPT ![j] = [note |-> n, force |-> force]]

(* The handler holds the row of its job from the check of its lease on.     *)
JobFree(j) == \A e \in 1..Tries : handler[<<j, e>>].pc \notin {"fenced", "checked", "gated"}

Claim(j) ==
  /\ phase[j] = "idle" /\ epoch[j] < Tries
  /\ phase' = [phase EXCEPT ![j] = "held"]
  /\ epoch' = [epoch EXCEPT ![j] = @ + 1]
  /\ lapsed' = [lapsed EXCEPT ![j] = FALSE]
  /\ handler' = [handler EXCEPT ![<<j, epoch[j] + 1>>].pc = "begun"]
  /\ UNCHANGED <<enabled, gate, rows, task, request, locks>>

Lapse(j) ==
  /\ phase[j] = "held" /\ ~lapsed[j]
  /\ lapsed' = [lapsed EXCEPT ![j] = TRUE]
  /\ UNCHANGED <<enabled, gate, rows, phase, epoch, task, handler, request, locks>>

(* The attempt ends by fail(), recovery or a cancellation, or with a result  *)
(* the runner stores; its handler may still be at work.                      *)
EndTry(j) ==
  /\ JobFree(j)
  /\ \/ phase[j] = "held" /\ epoch[j] < Tries /\ phase' = [phase EXCEPT ![j] = "idle"]
     \/ phase[j] \in {"idle", "held"} /\ phase' = [phase EXCEPT ![j] = "ended"]
  /\ lapsed' = [lapsed EXCEPT ![j] = FALSE]
  /\ UNCHANGED <<enabled, gate, rows, epoch, task, handler, request, locks>>

Current(a) == phase[a[1]] = "held" /\ epoch[a[1]] = a[2] /\ ~lapsed[a[1]]

-----------------------------------------------------------------------------
(* enrich().                                                                *)

NoteOf(a) == task[a[1]].note
Seen(a)   == [status |-> "live", text |-> handler[a].text, meta |-> handler[a].meta]

(* It returns or raises; what it had locked is free, what it wrote is lost. *)
Return(a) ==
  /\ handler' = [handler EXCEPT ![a] = Returned]
  /\ Release(a)

(* First session: a rebuild under way is an error; a note that is gone, or   *)
(* that has metadata nobody asked to replace, is skipped.                    *)
ReadNote(a) ==
  LET row == note[NoteOf(a)]
  IN  /\ handler[a].pc = "begun"
      /\ ~(enabled /\ gate = "building")
      /\ row.status = "live"
      /\ task[a[1]].force \/ row.meta = NoMeta
      /\ handler' = [handler EXCEPT ![a].pc = "tagging", ![a].text = row.text, ![a].meta = row.meta]
      /\ UNCHANGED <<enabled, gate, rows, jobs, request, locks>>

(* Second session, after the model's answer: the job row under lock.  With   *)
(* E5 the rag state is read first, which takes the snapshot.                 *)
FenceJob(a) ==
  /\ handler[a].pc = "tagging"
  /\ JobFree(a[1]) /\ Current(a)
  /\ handler' = [handler EXCEPT ![a].pc = "fenced", ![a].had = HasReview(NoteOf(a))]
  /\ UNCHANGED <<enabled, gate, rows, jobs, request, locks>>

(* Faults: the note is read without FOR UPDATE; its metadata is not compared; *)
(* the reviews are looked up before the note is locked.                       *)
CheckUnlocked(a) ==
  LET n == NoteOf(a)
  IN  /\ handler[a].pc = "fenced"
      /\ note[n] = Seen(a)
      /\ handler' = [handler EXCEPT ![a].pc = "checked",
                                    ![a].had = IF enabled THEN @ ELSE HasReview(n)]
      /\ UNCHANGED <<enabled, gate, rows, jobs, request, locks>>

CheckText(a) ==
  LET n == NoteOf(a)
  IN  /\ handler[a].pc = "fenced"
      /\ LockNote(a, n)
      /\ note[n].status = "live" /\ note[n].text = handler[a].text
      /\ handler' = [handler EXCEPT ![a].pc = "checked", ![a].meta = note[n].meta,
                                    ![a].had = IF enabled THEN @ ELSE HasReview(n)]
      /\ UNCHANGED <<enabled, gate, rows, jobs, request, holder>>

CheckEarly(a) ==
  LET n == NoteOf(a)
  IN  /\ handler[a].pc = "fenced"
      /\ LockNote(a, n)
      /\ note[n] = Seen(a)
      /\ handler' = [handler EXCEPT ![a].pc = "checked"]
      /\ UNCHANGED <<enabled, gate, rows, jobs, request, holder>>

(* The note under lock: unless it is what the model saw, it is skipped.  The  *)
(* reviews are looked up in the snapshot, which without E5 is taken here.    *)
CheckNote(a) ==
  LET n == NoteOf(a)
  IN  /\ handler[a].pc = "fenced"
      /\ LockNote(a, n)
      /\ note[n] = Seen(a)
      /\ handler' = [handler EXCEPT ![a].pc = "checked",
                                    ![a].had = IF enabled THEN @ ELSE HasReview(n)]
      /\ UNCHANGED <<enabled, gate, rows, jobs, request, holder>>

(* The flush of the note: tags and category start no projection, but a        *)
(* rebuild under way refuses them.                                            *)
PassGate(a) ==
  /\ handler[a].pc = "checked"
  /\ LockUser(a) /\ gate = "open"
  /\ handler' = [handler EXCEPT ![a].pc = "gated"]
  /\ UNCHANGED <<enabled, gate, rows, jobs, request, owner>>

(* The review, if none was seen; succeed(), which looks at the lease again;   *)
(* and the commit of everything.                                              *)
Enrich(a, meta) ==
  LET n == NoteOf(a)
  IN  /\ handler[a].pc = IF enabled THEN "gated" ELSE "checked"
      /\ handler[a].had \/ GapFree(n)
      /\ Current(a)
      /\ note' = [note EXCEPT ![n].meta = meta]
      /\ reviews' = [reviews EXCEPT ![n] = IF handler[a].had THEN @ ELSE @ + 1]
      /\ phase' = [phase EXCEPT ![a[1]] = "ended"]
      /\ Return(a)
      /\ UNCHANGED <<enabled, gate, entered, chosen, epoch, lapsed, task, request>>

(* The handler skips, or fails: the model, the gate, the fence, a deadlock.  *)
GiveUp(a) ==
  /\ handler[a].pc \notin {"none", "gone"}
  /\ Return(a)
  /\ UNCHANGED <<enabled, gate, rows, jobs, request>>

-----------------------------------------------------------------------------
(* Requests.                                                                *)

(* create_note: a row nobody else sees yet, with its jobs.                  *)
CreateNote(n, j, text, meta) ==
  /\ note[n] = NoNote
  /\ enabled => holder = Nobody /\ gate = "open"
  /\ note' = [note EXCEPT ![n] = [status |-> "live", text |-> text, meta |-> meta]]
  /\ chosen' = [chosen EXCEPT ![n] = meta]
  /\ gate' = IF enabled THEN "building" ELSE gate
  /\ \/ meta = NoMeta /\ Submit(j, n, FALSE)
     \/ meta # NoMeta /\ UNCHANGED <<phase, task>>
  /\ UNCHANGED <<enabled, reviews, entered, epoch, lapsed, handler, request, locks>>

(* regenerate_tags: the note may be deleted between its read and the commit. *)
Retag(n, j) ==
  /\ note[n] # NoNote
  /\ Submit(j, n, TRUE)
  /\ UNCHANGED <<enabled, gate, rows, epoch, lapsed, handler, request, locks>>

(* delete_memory of a review, or update_memory that makes it a memo.        *)
DeleteReview(n) ==
  /\ ReviewsFree(n)
  /\ \/ /\ reviews[n] > 0
        /\ reviews' = [reviews EXCEPT ![n] = @ - 1]
        /\ UNCHANGED entered
     \/ /\ entered[n] > 0
        /\ entered' = [entered EXCEPT ![n] = @ - 1]
        /\ UNCHANGED reviews
  /\ UNCHANGED <<enabled, gate, note, chosen, jobs, handler, request, locks>>

(* create_memory, or update_memory that makes a memory of the note a review. *)
(* The flush looks the note up without a lock (record_business_writes), then *)
(* waits for whoever scans its reviews: the note was there once.             *)
EnterReview(n) ==
  /\ note[n] # NoNote
  /\ GapFree(n)
  /\ entered[n] < MaxEntered
  /\ entered' = [entered EXCEPT ![n] = @ + 1]
  /\ UNCHANGED <<enabled, gate, note, reviews, chosen, jobs, handler, request, locks>>

(* update_note and batch_update_category, delete_note, delete_category and   *)
(* batch_delete_notes: the notes the transaction is about, as a plain SELECT *)
(* or its caller gives them.  A text or metadata left out, or what the row     *)
(* holds already, is not written.                                            *)
Open(r, op, ns, text, meta) ==
  /\ request[r].pc = "new"
  /\ ns # {} /\ \A n \in ns : note[n].status = "live"
  /\ op = "update" => /\ Cardinality(ns) = 1 /\ <<text, meta>> # <<NoMeta, NoMeta>>
                     /\ \A n \in ns : text # note[n].text /\ (meta # NoMeta => meta # note[n].meta)
  /\ op = "label" => meta # NoMeta
  /\ op # "update" => text = NoMeta
  /\ op \in {"delete", "batch"} => meta = NoMeta
  /\ request' = [request EXCEPT ![r] = [NoRequest EXCEPT !.pc = "open", !.op = op, !.notes = ns,
                                                         !.text = text, !.meta = meta]]
  /\ UNCHANGED <<enabled, gate, rows, jobs, handler, locks>>

Locked(r)  == {n \in Notes : owner[n] = r}
Deletes(r) == request[r].op \in {"delete", "batch"}

(* delete_note_memories: the reviews of a note, under lock.  delete_category *)
(* goes from note to note, a batch looks up all reviews first.               *)
ScanReviews(r, n) ==
  /\ request[r].pc = "open" /\ Deletes(r)
  /\ n \in request[r].notes \ request[r].scanned
  /\ request[r].op = "delete" => request[r].scanned = Locked(r)
  /\ ReviewsFree(n)
  /\ request' = [request EXCEPT ![r].scanned = @ \cup {n}, ![r].found[n] = reviews[n]]
  /\ UNCHANGED <<enabled, gate, rows, jobs, handler, locks>>

(* mutate_rows locks the notes in a query, and the flush that follows passes  *)
(* the gate; an ORM write passes the gate in before_flush, and locks the row   *)
(* by its UPDATE or DELETE.                                                    *)
ByQuery(r) == request[r].op \in {"label", "batch"}

EnterGate(r) ==
  /\ request[r].pc = "open" /\ gate = "open"
  /\ ByQuery(r) => Locked(r) = request[r].notes
  /\ request[r].op = "delete" => request[r].scanned # {}
  /\ LockUser(r)
  /\ UNCHANGED <<enabled, gate, rows, jobs, handler, request, owner>>

LockRow(r, n) ==
  /\ request[r].pc = "open" /\ n \in request[r].notes
  /\ enabled /\ ~ByQuery(r) => holder = r
  /\ request[r].op = "delete" => n \in request[r].scanned
  /\ request[r].op = "batch" => request[r].scanned = request[r].notes
  /\ LockNote(r, n)
  /\ UNCHANGED <<enabled, gate, rows, jobs, handler, request, holder>>

Written(r, n) ==
  LET asked == request[r]
  IN  IF Deletes(r) THEN Deleted
      ELSE [note[n] EXCEPT !.text = IF asked.text = NoMeta THEN @ ELSE asked.text,
                           !.meta = IF asked.meta = NoMeta THEN @ ELSE asked.meta]

(* The commit.  An UPDATE that meets no row fails; a query leaves out notes   *)
(* that are gone or do not change, and a DELETE of nothing is only a warning. *)
(* Content and deletions start a projection, which closes the gate.           *)
Commit(r) ==
  LET asked == request[r]
      ns    == {n \in asked.notes : note[n].status = "live" /\ Written(r, n) # note[n]}
  IN  /\ asked.pc = "open" /\ Locked(r) = asked.notes
      /\ Deletes(r) => asked.scanned = asked.notes
      /\ enabled /\ (ns # {} \/ ~ByQuery(r)) => holder = r
      /\ asked.op = "update" => \A n \in asked.notes : note[n].status = "live"
      /\ note' = [n \in Notes |-> IF n \in ns THEN Written(r, n) ELSE note[n]]
      /\ reviews' = [n \in Notes |-> reviews[n] - asked.found[n]]
      /\ entered' = [n \in Notes |-> IF n \in asked.scanned THEN 0 ELSE entered[n]]
      /\ chosen' = [n \in Notes |-> IF n \in ns /\ (Deletes(r) \/ asked.meta # NoMeta)
                                    THEN asked.meta ELSE chosen[n]]
      /\ gate' = IF holder = r /\ (Deletes(r) \/ asked.text # NoMeta) THEN "building" ELSE gate
      /\ request' = [request EXCEPT ![r] = Answered]
      /\ Release(r)
      /\ UNCHANGED <<enabled, jobs, handler>>

(* The request fails, anywhere: refused by the gate, a deadlock, no row.     *)
Rollback(r) ==
  /\ request[r].pc = "open"
  /\ request' = [request EXCEPT ![r] = Answered]
  /\ Release(r)
  /\ UNCHANGED <<enabled, gate, rows, jobs, handler>>

-----------------------------------------------------------------------------
(* A rebuild closes the gate, its end opens it; both hold the user's row     *)
(* (RagProjection).                                                          *)
Rebuild(status) ==
  /\ enabled /\ holder = Nobody /\ gate # status
  /\ gate' = status
  /\ UNCHANGED <<enabled, rows, jobs, handler, request, locks>>

HandlerSteps(a) ==
  \/ ReadNote(a) \/ FenceJob(a) \/ CheckNote(a) \/ PassGate(a) \/ GiveUp(a)
  \/ \E meta \in Metas : Enrich(a, meta)

RequestSteps(r) ==
  \/ \E op \in Writes, ns \in SUBSET Notes, text \in Texts \cup {NoMeta}, meta \in Metas \cup {NoMeta} :
       Open(r, op, ns, text, meta)
  \/ EnterGate(r) \/ Commit(r) \/ Rollback(r)
  \/ \E n \in Notes : ScanReviews(r, n) \/ LockRow(r, n)

NotesNext ==
  \/ \E j \in EnrichJobs : Claim(j) \/ Lapse(j) \/ EndTry(j)
  \/ \E a \in Handlers : HandlerSteps(a)
  \/ \E r \in Requests : RequestSteps(r)
  \/ \E n \in Notes :
       \/ DeleteReview(n) \/ EnterReview(n)
       \/ \E j \in EnrichJobs : Retag(n, j)
       \/ \E j \in EnrichJobs, text \in Texts, meta \in Metas \cup {NoMeta} : CreateNote(n, j, text, meta)
  \/ \E status \in {"open", "building"} : Rebuild(status)

NotesSpec == NotesInit /\ [][NotesNext]_noteVars

-----------------------------------------------------------------------------
(* No review that enrich() made outlives its note or comes after it.  A      *)
(* write to a memory whose note is gone is refused (record_business_writes), *)
(* so its user could neither review nor postpone it.  Handler and deletion   *)
(* exclude each other by three locks they take in different orders: the      *)
(* note, the user, the gap among the reviews.  The memory API takes only the *)
(* last: a review its user enters while the note is deleted may be left      *)
(* over (EnterReview), and nothing is said of those.                         *)
ReviewHasNote == \A n \in Notes : reviews[n] > 0 => note[n].status = "live"

(* Automatic and repeated manual enrichment, orphaned handlers included,     *)
(* make one review of a note, whatever its user enters besides.  With E5 the *)
(* snapshot is older than the lock of the note, and the promise is not kept. *)
OneReview == ~enabled => \A n \in Notes : reviews[n] <= 1

(* Metadata its user has given to a note is only replaced by a handler if    *)
(* the user has asked for that.                                              *)
Asked(n) == \E j \in EnrichJobs : task[j] = [note |-> n, force |-> TRUE]

UserMetadataStands ==
  \A n \in Notes :
    note[n].status = "live" /\ chosen[n] # NoMeta /\ ~Asked(n) => note[n].meta = chosen[n]

(* From the comparison to the commit a note stays what the model saw.        *)
CheckedStands ==
  \A a \in Handlers : handler[a].pc \in {"checked", "gated"} => note[NoteOf(a)] = Seen(a)
=============================================================================
