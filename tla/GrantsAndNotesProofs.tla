------------------------ MODULE GrantsAndNotesProofs ------------------------
(***************************************************************************)
(* What AuthorizationGrants guarantees for every set of rows, targets and  *)
(* administrators; then what NoteEnrichment promises, for every set of     *)
(* notes, jobs, handlers and requests.                                     *)
(***************************************************************************)
EXTENDS AuthorizationGrants, NoteEnrichment, TLAPS


\* A row that was written is a GrantRow, whatever is done with it later.
LEMMA RowOf ==
  ASSUME TypeOK, NEW g \in Grants, Exists(g)
  PROVE  grants[g] \in GrantRow
BY DEF TypeOK, Exists

\* A row with one of the three statuses has been written.
LEMMA StatusExists ==
  ASSUME NEW g, grants[g].status \in {"requested", "approved", "revoked"}
  PROVE  Exists(g)
BY DEF Exists, NoGrant

LEMMA RequestRow ==
  ASSUME TypeOK, NEW g \in Grants, NEW user \in Users, NEW target \in Targets,
         NEW content \in Contents, Request(g, user, target, content)
  PROVE  /\ grants' = [grants EXCEPT ![g] = grants'[g]]
         /\ grants'[g] \in GrantRow
         /\ grants'[g].status = "requested"
         /\ grants'[g].requester = user
         /\ grants'[g].approver = None
         /\ grants'[g].revoker = None
BY DEF Request, TypeOK, GrantRow

LEMMA ApproveRow ==
  ASSUME TypeOK, NEW g \in Grants, NEW user \in Users, Approve(g, user)
  PROVE  /\ Exists(g)
         /\ grants' = [grants EXCEPT ![g] = grants'[g]]
         /\ grants'[g] \in GrantRow
         /\ grants'[g] = [grants[g] EXCEPT !.status = "approved", !.approver = user]
<1>1. Exists(g)  BY StatusExists DEF Approve
<1>2. grants[g] \in GrantRow  BY <1>1, RowOf
<1>3. grants'[g] = [grants[g] EXCEPT !.status = "approved", !.approver = user]
  BY DEF Approve, TypeOK
<1>4. grants' = [grants EXCEPT ![g] = grants'[g]]
  BY DEF Approve, TypeOK
<1>. QED  BY <1>1, <1>2, <1>3, <1>4 DEF GrantRow

LEMMA RevokeRow ==
  ASSUME TypeOK, NEW g \in Grants, NEW user \in Users, Revoke(g, user)
  PROVE  /\ Exists(g)
         /\ grants' = [grants EXCEPT ![g] = grants'[g]]
         /\ grants'[g] \in GrantRow
         /\ grants'[g] = [grants[g] EXCEPT !.status = "revoked", !.revoker = user]
<1>1. Exists(g)  BY StatusExists DEF Revoke
<1>2. grants[g] \in GrantRow  BY <1>1, RowOf
<1>3. grants'[g] = [grants[g] EXCEPT !.status = "revoked", !.revoker = user]
  BY DEF Revoke, TypeOK
<1>4. grants' = [grants EXCEPT ![g] = grants'[g]]
  BY DEF Revoke, TypeOK
<1>. QED  BY <1>1, <1>2, <1>3, <1>4 DEF GrantRow

LEMMA ExpireRow ==
  ASSUME TypeOK, NEW g \in Grants, Expire(g)
  PROVE  /\ Exists(g)
         /\ grants' = [grants EXCEPT ![g] = grants'[g]]
         /\ grants'[g] \in GrantRow
         /\ grants'[g] = [grants[g] EXCEPT !.expired = TRUE]
<1>1. Exists(g)  BY DEF Expire
<1>2. grants[g] \in GrantRow  BY <1>1, RowOf
<1>3. grants'[g] = [grants[g] EXCEPT !.expired = TRUE]
  BY DEF Expire, TypeOK
<1>4. grants' = [grants EXCEPT ![g] = grants'[g]]
  BY DEF Expire, TypeOK
<1>. QED  BY <1>1, <1>2, <1>3, <1>4 DEF GrantRow
-----------------------------------------------------------------------------
\* Every row that is ever written has the columns and the statuses that the
\* model of authorization_grants gives it.
THEOREM TypeCorrect == Spec => []TypeOK
<1>1. Init => TypeOK  BY DEF Init, TypeOK
<1>2. TypeOK /\ [Next]_grants => TypeOK'
  <2>. SUFFICES ASSUME TypeOK, [Next]_grants PROVE TypeOK'  OBVIOUS
  <2>1. ASSUME NEW g \in Grants, grants' = [grants EXCEPT ![g] = grants'[g]],
               grants'[g] \in GrantRow
        PROVE  TypeOK'
    BY <2>1 DEF TypeOK
  <2>2. CASE UNCHANGED grants  BY <2>2 DEF TypeOK
  <2>3. ASSUME NEW g \in Grants, NEW user \in Users, NEW target \in Targets,
               NEW content \in Contents, Request(g, user, target, content)
        PROVE  TypeOK'
    BY <2>1, <2>3, RequestRow
  <2>4. ASSUME NEW g \in Grants, NEW user \in Users, Approve(g, user) PROVE TypeOK'
    BY <2>1, <2>4, ApproveRow
  <2>5. ASSUME NEW g \in Grants, NEW user \in Users, Revoke(g, user) PROVE TypeOK'
    BY <2>1, <2>5, RevokeRow
  <2>6. ASSUME NEW g \in Grants, Expire(g) PROVE TypeOK'
    BY <2>1, <2>6, ExpireRow
  <2>. QED  BY <2>2, <2>3, <2>4, <2>5, <2>6 DEF Next
<1>. QED  BY <1>1, <1>2, PTL DEF Spec
-----------------------------------------------------------------------------
\* The columns of a decision are blank until it is taken.
Undecided ==
  \A g \in Grants : Exists(g) =>
    /\ grants[g].status = "requested" => grants[g].approver = None
    /\ grants[g].status \in {"requested", "approved"} => grants[g].revoker = None

\* FourEyes is inductive given the types; the blank columns are what
\* DecisionsAreFacts needs besides.
RowInv == TypeOK /\ FourEyes /\ Undecided

\* What FourEyes and Undecided ask of one row.
Sound(row) ==
  /\ row.requester \in SkillAdmins
  /\ row.status \in {"approved", "revoked"} => row.approver \in SecurityAdmins \ {row.requester}
  /\ row.status = "revoked" => row.revoker \in SecurityAdmins
  /\ row.status = "requested" => row.approver = None
  /\ row.status \in {"requested", "approved"} => row.revoker = None

LEMMA SoundRows ==
  FourEyes /\ Undecided <=> \A g \in Grants : Exists(g) => Sound(grants[g])
BY DEF FourEyes, Undecided, Sound

LEMMA RowInvInvariant == Spec => []RowInv
<1>1. Init => FourEyes /\ Undecided  BY DEF Init, FourEyes, Undecided, Exists
<1>2. TypeOK /\ TypeOK' /\ FourEyes /\ Undecided /\ [Next]_grants => FourEyes' /\ Undecided'
  <2>. SUFFICES ASSUME TypeOK, FourEyes, Undecided, [Next]_grants
                PROVE  \A g \in Grants : Exists(g)' => Sound(grants'[g])
    BY DEF FourEyes, Undecided, Sound
  <2>0. \A g \in Grants : Exists(g) => Sound(grants[g])  BY SoundRows
  <2>1. ASSUME NEW g \in Grants, grants' = [grants EXCEPT ![g] = grants'[g]],
               Sound(grants'[g])
        PROVE  \A h \in Grants : Exists(h)' => Sound(grants'[h])
    <3>. TAKE h \in Grants
    <3>1. CASE h = g  BY <2>1, <3>1
    <3>2. CASE h # g
      <4>1. grants'[h] = grants[h]  BY <2>1, <3>2 DEF TypeOK
      <4>. QED  BY <4>1, <2>0 DEF Exists
    <3>. QED  BY <3>1, <3>2
  <2>2. CASE UNCHANGED grants  BY <2>2, <2>0 DEF Exists
  <2>3. ASSUME NEW g \in Grants, NEW user \in Users, NEW target \in Targets,
               NEW content \in Contents, Request(g, user, target, content)
        PROVE  \A h \in Grants : Exists(h)' => Sound(grants'[h])
    <3>1. user \in SkillAdmins  BY <2>3 DEF Request
    <3>2. Sound(grants'[g])  BY <2>3, <3>1, RequestRow DEF Sound
    <3>. QED  BY <2>1, <2>3, <3>2, RequestRow
  <2>4. ASSUME NEW g \in Grants, NEW user \in Users, Approve(g, user)
        PROVE  \A h \in Grants : Exists(h)' => Sound(grants'[h])
    <3>1. Exists(g) /\ grants'[g] = [grants[g] EXCEPT !.status = "approved", !.approver = user]
      BY <2>4, ApproveRow
    <3>2. grants[g] \in GrantRow /\ Sound(grants[g])  BY <3>1, <2>0, RowOf
    <3>3. /\ user \in SecurityAdmins /\ grants[g].status = "requested"
          /\ grants[g].requester # user
      BY <2>4 DEF Approve
    <3>4. Sound(grants'[g])  BY <3>1, <3>2, <3>3 DEF Sound, GrantRow
    <3>. QED  BY <2>1, <2>4, <3>4, ApproveRow
  <2>5. ASSUME NEW g \in Grants, NEW user \in Users, Revoke(g, user)
        PROVE  \A h \in Grants : Exists(h)' => Sound(grants'[h])
    <3>1. Exists(g) /\ grants'[g] = [grants[g] EXCEPT !.status = "revoked", !.revoker = user]
      BY <2>5, RevokeRow
    <3>2. grants[g] \in GrantRow /\ Sound(grants[g])  BY <3>1, <2>0, RowOf
    <3>3. user \in SecurityAdmins /\ grants[g].status = "approved"  BY <2>5 DEF Revoke
    <3>4. Sound(grants'[g])  BY <3>1, <3>2, <3>3 DEF Sound, GrantRow
    <3>. QED  BY <2>1, <2>5, <3>4, RevokeRow
  <2>6. ASSUME NEW g \in Grants, Expire(g)
        PROVE  \A h \in Grants : Exists(h)' => Sound(grants'[h])
    <3>1. Exists(g) /\ grants'[g] = [grants[g] EXCEPT !.expired = TRUE]  BY <2>6, ExpireRow
    <3>2. grants[g] \in GrantRow /\ Sound(grants[g])  BY <3>1, <2>0, RowOf
    <3>3. Sound(grants'[g])  BY <3>1, <3>2 DEF Sound, GrantRow
    <3>. QED  BY <2>1, <2>6, <3>3, ExpireRow
  <2>. QED  BY <2>2, <2>3, <2>4, <2>5, <2>6 DEF Next
<1>. QED  BY <1>1, <1>2, TypeCorrect, PTL DEF Spec, RowInv

\* Behind every approved or revoked grant stand a skill administrator and a
\* different security administrator, whoever holds which roles.
THEOREM FourEyesHolds == Spec => []FourEyes
BY RowInvInvariant, PTL DEF RowInv
-----------------------------------------------------------------------------
\* The unique key alone keeps two grants of a target from being in force.
THEOREM OneInForceHolds == Spec => []OneInForce
<1>1. Init => OneInForce  BY DEF Init, OneInForce, Exists
<1>2. TypeOK /\ OneInForce /\ [Next]_grants => OneInForce'
  <2>. SUFFICES ASSUME TypeOK, OneInForce, [Next]_grants PROVE OneInForce'  OBVIOUS
  <2>. DEFINE InForce(h) == Exists(h) /\ grants[h].status = "approved"
  <2>1. ASSUME NEW g \in Grants, grants' = [grants EXCEPT ![g] = grants'[g]],
               \/ grants'[g].status # "approved"
               \/ InForce(g) /\ grants'[g].target = grants[g].target
               \/ \A h \in Grants \ {g} : ~(InForce(h) /\ grants[h].target = grants'[g].target)
        PROVE  OneInForce'
    <3>1. \A h \in Grants \ {g} : grants'[h] = grants[h]  BY <2>1 DEF TypeOK
    <3>. QED  BY <2>1, <3>1 DEF OneInForce, Exists
  <2>2. CASE UNCHANGED grants  BY <2>2 DEF OneInForce, Exists
  <2>3. ASSUME NEW g \in Grants, NEW user \in Users, NEW target \in Targets,
               NEW content \in Contents, Request(g, user, target, content)
        PROVE  OneInForce'
    BY <2>1, <2>3, RequestRow
  <2>4. ASSUME NEW g \in Grants, NEW user \in Users, Approve(g, user) PROVE OneInForce'
    <3>0. Exists(g) /\ grants'[g] = [grants[g] EXCEPT !.status = "approved", !.approver = user]
      BY <2>4, ApproveRow
    <3>1. grants'[g].target = grants[g].target  BY <3>0, RowOf DEF GrantRow
    <3>2. \A h \in Grants \ {g} : ~(InForce(h) /\ grants[h].target = grants'[g].target)
      BY <2>4, <3>1 DEF Approve, KeyFree
    <3>. QED  BY <2>1, <2>4, <3>2, ApproveRow
  <2>5. ASSUME NEW g \in Grants, NEW user \in Users, Revoke(g, user) PROVE OneInForce'
    <3>1. grants'[g].status # "approved"  BY <2>5, RevokeRow, RowOf DEF GrantRow
    <3>. QED  BY <2>1, <2>5, <3>1, RevokeRow
  <2>6. ASSUME NEW g \in Grants, Expire(g) PROVE OneInForce'
    <3>1. /\ grants'[g].target = grants[g].target
          /\ grants'[g].status = grants[g].status
          /\ Exists(g)
      BY <2>6, ExpireRow, RowOf DEF GrantRow
    <3>. QED  BY <2>1, <2>6, <3>1, ExpireRow
  <2>. QED  BY <2>2, <2>3, <2>4, <2>5, <2>6 DEF Next
<1>. QED  BY <1>1, <1>2, TypeCorrect, PTL DEF Spec
-----------------------------------------------------------------------------
\* What DecisionsAreFacts says of one row and what becomes of it.
Kept(row, next) ==
  /\ next # NoGrant
  /\ \A f \in {"target", "content", "requester"} : next[f] = row[f]
  /\ row.approver # None => next.approver = row.approver
  /\ row.revoker # None => next.revoker = row.revoker
  /\ next.status # row.status =>
       <<row.status, next.status>> \in {<<"requested", "approved">>, <<"approved", "revoked">>}

\* Approvals and revocations, once written, are never rewritten, undone or
\* taken a second time.
THEOREM DecisionsAreFactsHolds == Spec => DecisionsAreFacts
<1>. DEFINE Facts == \A g \in Grants : Exists(g) => Kept(grants[g], grants'[g])
<1>1. RowInv /\ [Next]_grants => [Facts]_grants
  <2>. SUFFICES ASSUME RowInv, Next PROVE Facts  OBVIOUS
  <2>0. TypeOK /\ Undecided  BY DEF RowInv
  <2>1. \A h \in Grants : Exists(h) => Kept(grants[h], grants[h])
    BY DEF Kept, Exists
  <2>2. ASSUME NEW g \in Grants, grants' = [grants EXCEPT ![g] = grants'[g]],
               Exists(g) => Kept(grants[g], grants'[g])
        PROVE  Facts
    <3>1. \A h \in Grants \ {g} : grants'[h] = grants[h]  BY <2>0, <2>2 DEF TypeOK
    <3>. QED  BY <2>1, <2>2, <3>1
  <2>3. ASSUME NEW g \in Grants, NEW user \in Users, NEW target \in Targets,
               NEW content \in Contents, Request(g, user, target, content)
        PROVE  Facts
    <3>1. ~Exists(g)  BY <2>3 DEF Request
    <3>. QED  BY <2>0, <2>2, <2>3, <3>1, RequestRow
  <2>4. ASSUME NEW g \in Grants, NEW user \in Users, Approve(g, user) PROVE Facts
    <3>1. /\ Exists(g)
          /\ grants'[g] = [grants[g] EXCEPT !.status = "approved", !.approver = user]
      BY <2>0, <2>4, ApproveRow
    <3>2. grants[g] \in GrantRow /\ grants'[g] # NoGrant
      BY <2>0, <3>1, RowOf DEF GrantRow, NoGrant
    <3>3. grants[g].status = "requested" /\ grants[g].approver = None
      BY <2>0, <2>4, <3>1 DEF Approve, Undecided
    <3>4. Kept(grants[g], grants'[g])  BY <3>1, <3>2, <3>3 DEF Kept, GrantRow
    <3>. QED  BY <2>0, <2>2, <2>4, <3>4, ApproveRow
  <2>5. ASSUME NEW g \in Grants, NEW user \in Users, Revoke(g, user) PROVE Facts
    <3>1. /\ Exists(g)
          /\ grants'[g] = [grants[g] EXCEPT !.status = "revoked", !.revoker = user]
      BY <2>0, <2>5, RevokeRow
    <3>2. grants[g] \in GrantRow /\ grants'[g] # NoGrant
      BY <2>0, <3>1, RowOf DEF GrantRow, NoGrant
    <3>3. grants[g].status = "approved" /\ grants[g].revoker = None
      BY <2>0, <2>5, <3>1 DEF Revoke, Undecided
    <3>4. Kept(grants[g], grants'[g])  BY <3>1, <3>2, <3>3 DEF Kept, GrantRow
    <3>. QED  BY <2>0, <2>2, <2>5, <3>4, RevokeRow
  <2>6. ASSUME NEW g \in Grants, Expire(g) PROVE Facts
    <3>1. Exists(g) /\ grants'[g] = [grants[g] EXCEPT !.expired = TRUE]
      BY <2>0, <2>6, ExpireRow
    <3>2. grants[g] \in GrantRow /\ grants'[g] # NoGrant
      BY <2>0, <3>1, RowOf, ExpireRow, <2>6 DEF GrantRow, NoGrant
    <3>3. Kept(grants[g], grants'[g])  BY <3>1, <3>2 DEF Kept, GrantRow
    <3>. QED  BY <2>0, <2>2, <2>6, <3>3, ExpireRow
  <2>. QED  BY <2>3, <2>4, <2>5, <2>6 DEF Next
<1>2. [][Facts]_grants => DecisionsAreFacts
  BY PTL DEF DecisionsAreFacts, Facts, Kept
<1>. QED  BY <1>1, <1>2, RowInvInvariant, PTL DEF Spec
-----------------------------------------------------------------------------
(* Notes.                                                                    *)


LEMMA HandlerOfJob ==
  /\ \A a \in Handlers : a[1] \in EnrichJobs /\ a[2] \in 1..Tries
  /\ \A j \in EnrichJobs, e \in 1..Tries : <<j, e>> \in Handlers
BY DEF Handlers

LEMMA TypesInit == NotesInit => NotesTypeOK
<1> SUFFICES ASSUME NotesInit PROVE NotesTypeOK  OBVIOUS
<1>1. RowTypes  BY NotesAssumption DEF NotesInit, RowTypes, NoNote
<1>2. JobTypes  BY NotesAssumption DEF NotesInit, JobTypes, NoTask
<1>3. HandlerTypes  BY DEF NotesInit, HandlerTypes, NoHandler
<1>4. RequestTypes  BY DEF NotesInit, RequestTypes, NoRequest
<1>5. LockTypes  BY DEF NotesInit, LockTypes
<1> QED  BY <1>1, <1>2, <1>3, <1>4, <1>5 DEF NotesTypeOK

(* What the steps leave alone. *)
LEMMA RequestFrame ==
  ASSUME NEW r \in Requests, RequestSteps(r)
  PROVE  UNCHANGED <<enabled, jobs, handler>>
BY DEF RequestSteps, Open, EnterGate, Commit, Rollback, ScanReviews, LockRow, rows, jobs, locks

LEMMA HandlerFrame ==
  ASSUME NEW a \in Handlers, HandlerSteps(a)
  PROVE  /\ UNCHANGED <<enabled, gate, entered, chosen, epoch, lapsed, task, request>>
         /\ UNCHANGED <<note, reviews, phase>> \/ \E meta \in Metas : Enrich(a, meta)
BY DEF HandlerSteps, ReadNote, FenceJob, CheckNote, PassGate, GiveUp, Enrich, rows, jobs, locks

LEMMA NoteOfHandler ==
  ASSUME JobTypes, HandlerTypes, NEW a \in Handlers, handler[a].pc # "none"
  PROVE  NoteOf(a) \in Notes
BY HandlerOfJob DEF JobTypes, HandlerTypes, NoteOf

LEMMA JobTypesStep ==
  ASSUME JobTypes, [NotesNext]_noteVars PROVE JobTypes'
<1> USE DEF JobTypes, jobs, rows, locks
<1>1. ASSUME NEW j \in EnrichJobs, Claim(j) PROVE JobTypes'
  <2>1. epoch[j] + 1 \in 0..Tries  BY <1>1, NotesAssumption DEF Claim
  <2> QED BY <1>1, <2>1 DEF Claim
<1>2. ASSUME NEW j \in EnrichJobs, Lapse(j) PROVE JobTypes'
  BY <1>2 DEF Lapse
<1>3. ASSUME NEW j \in EnrichJobs, EndTry(j) PROVE JobTypes'
  BY <1>3 DEF EndTry
<1>4. ASSUME NEW a \in Handlers, HandlerSteps(a) PROVE JobTypes'
  <2>1. ASSUME NEW meta \in Metas, Enrich(a, meta) PROVE JobTypes'
    BY <2>1, HandlerOfJob DEF Enrich, Current
  <2> QED BY <1>4, <2>1, HandlerFrame
<1>5. ASSUME NEW n \in Notes, NEW j \in EnrichJobs, NEW force \in BOOLEAN, Submit(j, n, force),
             UNCHANGED <<epoch, lapsed>>
      PROVE JobTypes'
  BY <1>5 DEF Submit
<1>6. ASSUME NEW n \in Notes, NEW j \in EnrichJobs, Retag(n, j) PROVE JobTypes'
  BY <1>5, <1>6 DEF Retag
<1>7. ASSUME NEW n \in Notes, NEW j \in EnrichJobs, NEW text \in Texts, NEW meta \in Metas \cup {NoMeta},
             CreateNote(n, j, text, meta)
      PROVE JobTypes'
  <2>1. CASE Submit(j, n, FALSE)  BY <1>5, <1>7, <2>1 DEF CreateNote
  <2>2. CASE UNCHANGED <<phase, task>>  BY <1>7, <2>2 DEF CreateNote
  <2> QED BY <1>7, <2>1, <2>2 DEF CreateNote
<1>8. ASSUME NEW r \in Requests, RequestSteps(r) PROVE JobTypes'
  BY <1>8, RequestFrame
<1>9. CASE \/ \E n \in Notes : DeleteReview(n) \/ EnterReview(n)
           \/ \E status \in {"open", "building"} : Rebuild(status)
           \/ UNCHANGED noteVars
  BY <1>9 DEF DeleteReview, EnterReview, Rebuild, noteVars
<1> QED
  BY <1>1, <1>2, <1>3, <1>4, <1>6, <1>7, <1>8, <1>9 DEF NotesNext

LEMMA HandlerTypesStep ==
  ASSUME NotesTypeOK, [NotesNext]_noteVars PROVE HandlerTypes'
<1> USE DEF HandlerTypes, jobs, rows, locks
<1>0. HandlerTypes /\ RowTypes /\ JobTypes  BY DEF NotesTypeOK
<1>1. ASSUME NEW j \in EnrichJobs, Claim(j) PROVE HandlerTypes'
  <2>1. <<j, epoch[j] + 1>> \in Handlers
    BY <1>0, <1>1, HandlerOfJob, NotesAssumption DEF Claim, JobTypes
  <2> DEFINE b == <<j, epoch[j] + 1>>
  <2>2. handler' = [handler EXCEPT ![b] = [handler[b] EXCEPT !.pc = "begun"]] /\ b[1] = j
    BY <1>1 DEF Claim
  <2>3. phase' = [phase EXCEPT ![j] = "held"]  BY <1>1 DEF Claim
  <2> HIDE DEF b
  <2> QED BY <1>0, <2>1, <2>2, <2>3, HandlerOfJob DEF b, JobTypes
<1>2. ASSUME NEW j \in EnrichJobs, EndTry(j) PROVE HandlerTypes'
  BY <1>0, <1>2, HandlerOfJob DEF EndTry, JobTypes
<1>3. ASSUME NEW a \in Handlers, ReadNote(a) PROVE HandlerTypes'
  <2>1. note[NoteOf(a)].text \in Texts \cup {NoMeta} /\ note[NoteOf(a)].meta \in Metas \cup {NoMeta}
    BY <1>0, <1>3, NoteOfHandler DEF ReadNote, RowTypes
  <2> DEFINE h == [handler[a] EXCEPT !.pc = "tagging", !.text = note[NoteOf(a)].text, !.meta = note[NoteOf(a)].meta]
  <2>2. handler' = [handler EXCEPT ![a] = h] /\ phase' = phase /\ handler[a].pc # "none"
    BY <1>0, <1>3 DEF ReadNote
  <2>3. h \in [pc : {"none", "begun", "tagging", "fenced", "checked", "gated", "gone"},
               text : Texts \cup {NoMeta}, meta : Metas \cup {NoMeta}, had : BOOLEAN]
    BY <1>0, <2>1
  <2> HIDE DEF h
  <2> QED BY <1>0, <2>2, <2>3
<1>4. ASSUME NEW a \in Handlers, FenceJob(a) \/ CheckNote(a) \/ PassGate(a) PROVE HandlerTypes'
  BY <1>0, <1>4 DEF FenceJob, CheckNote, PassGate
<1>5. ASSUME NEW a \in Handlers, Return(a), UNCHANGED phase, handler[a].pc # "none" PROVE HandlerTypes'
  BY <1>0, <1>5 DEF Return, Returned, NoHandler
<1>6. ASSUME NEW a \in Handlers, GiveUp(a) PROVE HandlerTypes'
  BY <1>5, <1>6 DEF GiveUp
<1>7. ASSUME NEW a \in Handlers, NEW meta \in Metas, Enrich(a, meta) PROVE HandlerTypes'
  <2>1. handler' = [handler EXCEPT ![a] = Returned] /\ phase' = [phase EXCEPT ![a[1]] = "ended"]
        /\ handler[a].pc # "none"
    BY <1>0, <1>7 DEF Enrich, Return
  <2> QED BY <1>0, <2>1, HandlerOfJob DEF Returned, NoHandler, JobTypes
<1>8. ASSUME NEW j \in EnrichJobs, NEW n \in Notes, NEW force \in BOOLEAN, Submit(j, n, force), UNCHANGED handler
      PROVE HandlerTypes'
  BY <1>0, <1>8, HandlerOfJob DEF Submit, JobTypes
<1>9. ASSUME NEW n \in Notes, NEW j \in EnrichJobs, NEW text \in Texts, NEW meta \in Metas \cup {NoMeta},
             Retag(n, j) \/ CreateNote(n, j, text, meta)
      PROVE HandlerTypes'
  <2>1. CASE UNCHANGED <<phase, handler>>  BY <1>0, <2>1
  <2> QED BY <1>8, <1>9, <2>1 DEF Retag, CreateNote
<1>10. CASE UNCHANGED <<phase, handler>>
  BY <1>0, <1>10
<1>11. ASSUME NEW r \in Requests, RequestSteps(r) PROVE HandlerTypes'
  BY <1>10, <1>11, RequestFrame
<1>12. CASE \/ \E n \in Notes : DeleteReview(n) \/ EnterReview(n)
            \/ \E j \in EnrichJobs : Lapse(j)
            \/ \E status \in {"open", "building"} : Rebuild(status)
            \/ UNCHANGED noteVars
  BY <1>10, <1>12 DEF DeleteReview, EnterReview, Rebuild, Lapse, noteVars
<1>13. ASSUME NEW a \in Handlers, HandlerSteps(a) PROVE HandlerTypes'
  BY <1>3, <1>4, <1>6, <1>7, <1>13 DEF HandlerSteps
<1>14. ASSUME NEW n \in Notes, NEW j \in EnrichJobs, Retag(n, j) PROVE HandlerTypes'
  BY <1>8, <1>14 DEF Retag
<1>15. ASSUME NEW n \in Notes, NEW j \in EnrichJobs, NEW text \in Texts, NEW meta \in Metas \cup {NoMeta},
             CreateNote(n, j, text, meta)
      PROVE HandlerTypes'
  BY <1>9, <1>15
<1> QED
  BY <1>1, <1>2, <1>11, <1>12, <1>13, <1>14, <1>15 DEF NotesNext

LEMMA RequestTypesStep ==
  ASSUME NotesTypeOK, [NotesNext]_noteVars PROVE RequestTypes'
<1> USE DEF RequestTypes, jobs, rows, locks
<1>0. RequestTypes /\ RowTypes  BY DEF NotesTypeOK
<1>1. ASSUME NEW r \in Requests, NEW op \in Writes, NEW ns \in SUBSET Notes,
             NEW text \in Texts \cup {NoMeta}, NEW meta \in Metas \cup {NoMeta},
             Open(r, op, ns, text, meta)
      PROVE RequestTypes'
  BY <1>0, <1>1 DEF Open, NoRequest
<1>2. ASSUME NEW r \in Requests, NEW n \in Notes, ScanReviews(r, n) PROVE RequestTypes'
  <2>1. request' = [request EXCEPT ![r] = [request[r] EXCEPT !.scanned = @ \cup {n}, !.found[n] = reviews[n]]]
        /\ reviews[n] \in Nat
    BY <1>0, <1>2 DEF ScanReviews, RowTypes
  <2> DEFINE q == [request[r] EXCEPT !.scanned = @ \cup {n}, !.found = [@ EXCEPT ![n] = reviews[n]]]
  <2>2. q \in [pc : {"new", "open", "done"}, op : Writes \cup {"none"},
               notes : SUBSET Notes, text : Texts \cup {NoMeta},
               meta : Metas \cup {NoMeta}, scanned : SUBSET Notes,
               found : [Notes -> Nat]]
    BY <1>0, <2>1
  <2>3. request' = [request EXCEPT ![r] = q]
    BY <2>1
  <2> HIDE DEF q
  <2> QED BY <1>0, <2>2, <2>3
<1>3. ASSUME NEW r \in Requests, request' = [request EXCEPT ![r] = Answered] PROVE RequestTypes'
  BY <1>0, <1>3 DEF Answered, NoRequest
<1>4. CASE UNCHANGED request
  BY <1>0, <1>4
<1>5. ASSUME NEW r \in Requests, RequestSteps(r) PROVE RequestTypes'
  <2>1. CASE EnterGate(r) \/ \E n \in Notes : LockRow(r, n)
    BY <1>4, <2>1 DEF EnterGate, LockRow
  <2>2. CASE Commit(r) \/ Rollback(r)
    BY <1>3, <2>2 DEF Commit, Rollback
  <2> QED BY <1>1, <1>2, <1>5, <2>1, <2>2 DEF RequestSteps
<1>6. ASSUME NEW a \in Handlers, HandlerSteps(a) PROVE RequestTypes'
  BY <1>4, <1>6, HandlerFrame
<1> QED
  BY <1>4, <1>5, <1>6 DEF NotesNext, Claim, Lapse, EndTry, DeleteReview, EnterReview, Retag, CreateNote, Rebuild, noteVars

LEMMA LockTypesStep ==
  ASSUME LockTypes, [NotesNext]_noteVars PROVE LockTypes'
<1> USE DEF LockTypes, Transactions, jobs, rows, locks
<1>1. CASE UNCHANGED locks
  BY <1>1
<1>2. ASSUME NEW t \in Transactions, NEW n \in Notes, LockNote(t, n), UNCHANGED holder PROVE LockTypes'
  BY <1>2 DEF LockNote
<1>3. ASSUME NEW t \in Transactions, LockUser(t), UNCHANGED owner PROVE LockTypes'
  BY <1>3 DEF LockUser
<1>4. ASSUME NEW t \in Transactions, Release(t) PROVE LockTypes'
  BY <1>4 DEF Release
<1>5. ASSUME NEW a \in Handlers, HandlerSteps(a) PROVE LockTypes'
  <2>1. CASE ReadNote(a) \/ FenceJob(a)  BY <1>1, <2>1 DEF ReadNote, FenceJob
  <2>2. CASE CheckNote(a)
    <3>1. owner' = [owner EXCEPT ![NoteOf(a)] = a] /\ UNCHANGED holder  BY <2>2 DEF CheckNote, LockNote
    <3> QED BY <3>1
  <2>3. CASE PassGate(a)  BY <1>3, <2>3 DEF PassGate
  <2>4. CASE GiveUp(a) \/ \E meta \in Metas : Enrich(a, meta)
    BY <1>4, <2>4 DEF GiveUp, Enrich, Return
  <2> QED BY <1>5, <2>1, <2>2, <2>3, <2>4 DEF HandlerSteps
<1>6. ASSUME NEW r \in Requests, RequestSteps(r) PROVE LockTypes'
  <2>1. CASE \/ \E op \in Writes, ns \in SUBSET Notes, text \in Texts \cup {NoMeta}, meta \in Metas \cup {NoMeta} :
                  Open(r, op, ns, text, meta)
             \/ \E n \in Notes : ScanReviews(r, n)
    BY <1>1, <2>1 DEF Open, ScanReviews
  <2>2. CASE EnterGate(r)  BY <1>3, <2>2 DEF EnterGate
  <2>3. CASE \E n \in Notes : LockRow(r, n)  BY <1>2, <2>3 DEF LockRow
  <2>4. CASE Commit(r) \/ Rollback(r)  BY <1>4, <2>4 DEF Commit, Rollback
  <2> QED BY <1>6, <2>1, <2>2, <2>3, <2>4 DEF RequestSteps
<1> QED
  BY <1>1, <1>5, <1>6 DEF NotesNext, Claim, Lapse, EndTry, DeleteReview, EnterReview, Retag, CreateNote, Rebuild, noteVars

(* A deletion knows all the reviews of the notes it has scanned: rows are     *)
(* locked, gaps closed.  Only where there are none two of them may have       *)
(* scanned the same note.                                                     *)
ScansStand ==
  \A r \in Requests, n \in Notes :
    /\ n \notin request[r].scanned => request[r].found[n] = 0
    /\ r \in Scanned(n) => request[r].found[n] = reviews[n]
    /\ \A q \in Scanned(n) : r \in Scanned(n) /\ q # r => reviews[n] = 0

LEMMA EnrichSteps ==
  ASSUME NotesTypeOK, NEW a \in Handlers, NEW meta \in Metas, Enrich(a, meta)
  PROVE  LET n == NoteOf(a) IN
         /\ n \in Notes
         /\ reviews' = [reviews EXCEPT ![n] = IF handler[a].had THEN @ ELSE @ + 1]
         /\ note' = [note EXCEPT ![n] = [@ EXCEPT !.meta = meta]]
         /\ handler[a].had \/ Scanned(n) = {}
         /\ handler[a].pc \in {"checked", "gated"}
         /\ ~enabled => handler[a].pc = "checked"
BY NoteOfHandler DEF NotesTypeOK, Enrich, GapFree, Current

LEMMA ScansStandStep ==
  ASSUME NotesTypeOK, ScansStand, [NotesNext]_noteVars PROVE ScansStand'
<1> USE DEF ScansStand, Scanned, jobs, rows, locks
<1>0. RequestTypes /\ RowTypes  BY DEF NotesTypeOK
<1>1. CASE UNCHANGED <<request, reviews>>
  BY <1>1
<1>2. ASSUME NEW r \in Requests, RequestSteps(r) PROVE ScansStand'
  <2>1. ASSUME NEW op \in Writes, NEW ns \in SUBSET Notes,
               NEW text \in Texts \cup {NoMeta}, NEW meta \in Metas \cup {NoMeta},
               Open(r, op, ns, text, meta)
        PROVE ScansStand'
    <3>1. UNCHANGED reviews /\ request'[r].scanned = {} /\ request'[r].found = [n \in Notes |-> 0]
          /\ \A q \in Requests \ {r} : request'[q] = request[q]
      BY <1>0, <2>1 DEF Open, NoRequest, RequestTypes
    <3> QED BY <3>1
  <2>2. ASSUME NEW m \in Notes, ScanReviews(r, m) PROVE ScansStand'
    <3>1. /\ UNCHANGED reviews
          /\ request'[r].pc = "open" /\ request[r].pc = "open"
          /\ request'[r].scanned = request[r].scanned \cup {m}
          /\ request'[r].found = [request[r].found EXCEPT ![m] = reviews[m]]
          /\ \A q \in Requests \ {r} : request'[q] = request[q]
          /\ reviews[m] = 0 \/ Scanned(m) = {}
      BY <1>0, <2>2 DEF ScanReviews, RequestTypes, ReviewsFree, HasReview, RowTypes
    <3> QED BY <1>0, <3>1 DEF RequestTypes
  <2>3. CASE EnterGate(r) \/ \E n \in Notes : LockRow(r, n)
    BY <1>1, <2>3 DEF EnterGate, LockRow
  <2>4. CASE Commit(r)
    <3>1. /\ reviews' = [n \in Notes |-> reviews[n] - request[r].found[n]]
          /\ request[r].pc = "open"
          /\ request'[r].scanned = {} /\ request'[r].found = [n \in Notes |-> 0]
          /\ \A q \in Requests \ {r} : request'[q] = request[q]
      BY <1>0, <2>4 DEF Commit, Answered, NoRequest, RequestTypes
    <3>2. ASSUME NEW n \in Notes, NEW q \in Scanned(n)' PROVE q # r /\ q \in Scanned(n) /\ reviews'[n] = reviews[n]
      BY <1>0, <3>1, <3>2 DEF RequestTypes, RowTypes
    <3> QED BY <1>0, <3>1, <3>2 DEF RequestTypes, RowTypes
  <2>5. CASE Rollback(r)
    <3>1. /\ UNCHANGED reviews
          /\ request'[r].scanned = {} /\ request'[r].found = [n \in Notes |-> 0]
          /\ \A q \in Requests \ {r} : request'[q] = request[q]
      BY <1>0, <2>5 DEF Rollback, Answered, NoRequest, RequestTypes
    <3> QED BY <3>1
  <2> QED BY <1>2, <2>1, <2>2, <2>3, <2>4, <2>5 DEF RequestSteps
<1>3. ASSUME NEW a \in Handlers, HandlerSteps(a) PROVE ScansStand'
  <2>1. ASSUME NEW meta \in Metas, Enrich(a, meta) PROVE ScansStand'
    <3>1. UNCHANGED request  BY <1>3, HandlerFrame
    <3> QED BY <1>0, <2>1, <3>1, EnrichSteps DEF RowTypes
  <2> QED BY <1>1, <1>3, <2>1, HandlerFrame
<1>4. ASSUME NEW n \in Notes, DeleteReview(n) PROVE ScansStand'
  <2>1. CASE UNCHANGED reviews
    BY <1>1, <1>4, <2>1 DEF DeleteReview
  <2>2. CASE reviews[n] > 0 /\ reviews' = [reviews EXCEPT ![n] = @ - 1]
    <3>1. Scanned(n) = {} /\ UNCHANGED request  BY <1>4, <2>2 DEF DeleteReview, ReviewsFree, HasReview
    <3>2. \A m \in Notes : m # n => reviews'[m] = reviews[m]  BY <1>0, <2>2 DEF RowTypes
    <3> QED BY <1>0, <3>1, <3>2
  <2> QED BY <1>4, <2>1, <2>2 DEF DeleteReview
<1> QED
  BY <1>1, <1>2, <1>3, <1>4
     DEF NotesNext, Claim, Lapse, EndTry, EnterReview, Retag, CreateNote, Rebuild, noteVars

LEMMA RowTypesStep ==
  ASSUME NotesTypeOK, ScansStand, [NotesNext]_noteVars PROVE RowTypes'
<1> USE DEF RowTypes, jobs, rows, locks
<1>0. RowTypes /\ RequestTypes /\ JobTypes /\ HandlerTypes  BY DEF NotesTypeOK
<1>1. ASSUME NEW a \in Handlers, NEW meta \in Metas, Enrich(a, meta) PROVE RowTypes'
  <2>1. UNCHANGED <<enabled, gate, entered, chosen>>  BY <1>1 DEF Enrich
  <2>2. reviews' \in [Notes -> Nat]  BY <1>0, <1>1, EnrichSteps
  <2>3. note' = [note EXCEPT ![NoteOf(a)] = [note[NoteOf(a)] EXCEPT !.meta = meta]]
    BY <1>1, EnrichSteps
  <2>4. note' \in [Notes -> [status : {"absent", "live", "deleted"}, text : Texts \cup {NoMeta},
                            meta : Metas \cup {NoMeta}]]
    <3>1. NoteOf(a) \in Notes  BY <1>1, EnrichSteps
    <3> DEFINE m == NoteOf(a)
    <3> HIDE DEF m
    <3>2. m \in Notes /\ note' = [note EXCEPT ![m] = [note[m] EXCEPT !.meta = meta]]
      BY <2>3, <3>1 DEF m
    <3> QED BY <1>0, <3>2
  <2> QED BY <1>0, <2>1, <2>2, <2>4
<1>2. ASSUME NEW a \in Handlers, HandlerSteps(a) PROVE RowTypes'
  BY <1>0, <1>1, <1>2, HandlerFrame
<1>3. ASSUME NEW r \in Requests, Commit(r) PROVE RowTypes'
  <2>1. request[r].text \in Texts \cup {NoMeta} /\ request[r].meta \in Metas \cup {NoMeta}
    BY <1>0 DEF RequestTypes
  <2>2. gate' \in {"open", "building"} /\ enabled' \in BOOLEAN
    BY <1>0, <1>3 DEF Commit
  <2>3. chosen' \in [Notes -> Metas \cup {NoMeta}]
    <3>1. ASSUME NEW n \in Notes PROVE chosen[n] \in Metas \cup {NoMeta}  BY <1>0
    <3> QED BY <1>3, <2>1, <3>1 DEF Commit
  <2>4. reviews' \in [Notes -> Nat]
    <3>1. ASSUME NEW n \in Notes PROVE reviews[n] - request[r].found[n] \in Nat
      <4>1. reviews[n] \in Nat /\ request[r].found[n] \in Nat  BY <1>0 DEF RequestTypes
      <4>2. request[r].pc = "open"  BY <1>3 DEF Commit
      <4>3. request[r].found[n] \in {0, reviews[n]}  BY <4>2 DEF ScansStand, Scanned
      <4> QED BY <4>1, <4>3
    <3> QED BY <1>3, <3>1 DEF Commit
  <2>5. note' \in [Notes -> [status : {"absent", "live", "deleted"}, text : Texts \cup {NoMeta},
                            meta : Metas \cup {NoMeta}]]
    <3>1. ASSUME NEW n \in Notes
          PROVE  /\ note[n] \in [status : {"absent", "live", "deleted"}, text : Texts \cup {NoMeta},
                                 meta : Metas \cup {NoMeta}]
                 /\ Written(r, n) \in [status : {"absent", "live", "deleted"}, text : Texts \cup {NoMeta},
                                       meta : Metas \cup {NoMeta}]
      <4>1. CASE Deletes(r)  BY <1>0, <4>1 DEF Written, Deleted, NoNote
      <4>2. CASE ~Deletes(r)  BY <1>0, <2>1, <4>2 DEF Written
      <4> QED BY <4>1, <4>2
    <3> QED BY <1>3, <3>1 DEF Commit
  <2>6. entered' \in [Notes -> 0..MaxEntered]
    <3>1. 0 \in 0..MaxEntered  BY NotesAssumption
    <3>2. entered' = [n \in Notes |-> IF n \in request[r].scanned THEN 0 ELSE entered[n]]
      BY <1>3 DEF Commit
    <3>3. \A n \in Notes : entered[n] \in 0..MaxEntered  BY <1>0
    <3> QED BY <3>1, <3>2, <3>3
  <2> QED BY <2>2, <2>3, <2>4, <2>5, <2>6
<1>8. CASE UNCHANGED <<enabled, gate, rows>>
  BY <1>0, <1>8
<1>4. ASSUME NEW r \in Requests, RequestSteps(r) PROVE RowTypes'
  <2>1. \/ \E op \in Writes, ns \in SUBSET Notes, text \in Texts \cup {NoMeta}, meta \in Metas \cup {NoMeta} :
             Open(r, op, ns, text, meta)
        \/ EnterGate(r) \/ Rollback(r)
        \/ \E n \in Notes : ScanReviews(r, n) \/ LockRow(r, n)
        => UNCHANGED <<enabled, gate, rows>>
    BY DEF Open, EnterGate, Rollback, ScanReviews, LockRow
  <2> QED BY <1>3, <1>4, <1>8, <2>1 DEF RequestSteps
<1>5. ASSUME NEW n \in Notes, DeleteReview(n) \/ EnterReview(n) PROVE RowTypes'
  <2>1. reviews[n] \in Nat /\ entered[n] \in 0..MaxEntered  BY <1>0
  <2>2. UNCHANGED <<enabled, gate, note, chosen>>  BY <1>5 DEF DeleteReview, EnterReview
  <2>3. \/ UNCHANGED reviews
        \/ reviews[n] > 0 /\ reviews' = [reviews EXCEPT ![n] = @ - 1]
    BY <1>5 DEF DeleteReview, EnterReview
  <2>4. \/ UNCHANGED entered
        \/ entered[n] > 0 /\ entered' = [entered EXCEPT ![n] = @ - 1]
        \/ entered[n] < MaxEntered /\ entered' = [entered EXCEPT ![n] = @ + 1]
    BY <1>5 DEF DeleteReview, EnterReview
  <2>5. reviews' \in [Notes -> Nat]  BY <1>0, <2>1, <2>3
  <2>6. entered' \in [Notes -> 0..MaxEntered]  BY <1>0, <2>1, <2>4, NotesAssumption
  <2> QED BY <1>0, <2>2, <2>5, <2>6
<1>6. ASSUME NEW n \in Notes, NEW j \in EnrichJobs, NEW text \in Texts, NEW meta \in Metas \cup {NoMeta},
             CreateNote(n, j, text, meta)
      PROVE RowTypes'
  BY <1>0, <1>6 DEF CreateNote
<1>7. CASE \E status \in {"open", "building"} : Rebuild(status)
  BY <1>0, <1>7 DEF Rebuild
<1>9. CASE \/ \E j \in EnrichJobs : Claim(j) \/ Lapse(j) \/ EndTry(j)
           \/ \E n \in Notes, j \in EnrichJobs : Retag(n, j)
           \/ UNCHANGED noteVars
  BY <1>8, <1>9 DEF Claim, Lapse, EndTry, Retag, noteVars
<1> QED
  BY <1>2, <1>4, <1>5, <1>6, <1>7, <1>9 DEF NotesNext

LEMMA TypesStep ==
  ASSUME NotesTypeOK, ScansStand, [NotesNext]_noteVars PROVE NotesTypeOK'
BY RowTypesStep, JobTypesStep, HandlerTypesStep, RequestTypesStep, LockTypesStep DEF NotesTypeOK

LEMMA Typed == NotesSpec => [](NotesTypeOK /\ ScansStand)
<1>1. NotesInit => NotesTypeOK /\ ScansStand
  BY TypesInit DEF NotesInit, ScansStand, Scanned, NoRequest
<1>2. NotesTypeOK /\ ScansStand /\ [NotesNext]_noteVars => (NotesTypeOK /\ ScansStand)'
  BY TypesStep, ScansStandStep
<1> QED BY <1>1, <1>2, PTL DEF NotesSpec

(* Every value has its type.  That a count of reviews stays a natural number  *)
(* is not free: a deletion subtracts what it scanned earlier, and ScansStand  *)
(* is what keeps two of them from subtracting the same rows.                  *)
THEOREM NotesTyped == NotesSpec => []NotesTypeOK
BY Typed, PTL

-----------------------------------------------------------------------------
(* A handler that has compared its note holds the lock of it.                *)
LocksStand ==
  \A a \in Handlers : handler[a].pc \in {"checked", "gated"} => owner[NoteOf(a)] = a

Typing == NotesTypeOK /\ ScansStand

(* Work that is compared keeps its task: a job is submitted once, and only    *)
(* its own handler moves it.                                                  *)
LEMMA WorkKeeps ==
  ASSUME NotesTypeOK, [NotesNext]_noteVars, NEW a \in Handlers, handler[a].pc # "none"
  PROVE  task'[a[1]] = task[a[1]]
<1> USE DEF jobs, rows, locks
<1>0. a[1] \in EnrichJobs /\ phase[a[1]] # "absent" /\ task \in [EnrichJobs -> [note : Notes \cup {Nobody}, force : BOOLEAN]]
  BY HandlerOfJob DEF NotesTypeOK, HandlerTypes, JobTypes
<1>1. ASSUME NEW n \in Notes, NEW j \in EnrichJobs, NEW force \in BOOLEAN, Submit(j, n, force)
      PROVE  task'[a[1]] = task[a[1]]
  BY <1>0, <1>1 DEF Submit
<1>2. ASSUME NEW n \in Notes, NEW j \in EnrichJobs, NEW text \in Texts, NEW meta \in Metas \cup {NoMeta},
             CreateNote(n, j, text, meta)
      PROVE  task'[a[1]] = task[a[1]]
  BY <1>1, <1>2 DEF CreateNote
<1>3. ASSUME NEW n \in Notes, NEW j \in EnrichJobs, Retag(n, j) PROVE task'[a[1]] = task[a[1]]
  BY <1>1, <1>3 DEF Retag
<1>4. ASSUME NEW b \in Handlers, HandlerSteps(b) PROVE task' = task
  BY <1>4, HandlerFrame
<1>5. ASSUME NEW r \in Requests, RequestSteps(r) PROVE task' = task
  BY <1>5, RequestFrame
<1>6. CASE \/ \E j \in EnrichJobs : Claim(j) \/ Lapse(j) \/ EndTry(j)
           \/ \E n \in Notes : DeleteReview(n) \/ EnterReview(n)
           \/ \E status \in {"open", "building"} : Rebuild(status)
           \/ UNCHANGED noteVars
  BY <1>6 DEF Claim, Lapse, EndTry, DeleteReview, EnterReview, Rebuild, noteVars
<1> QED BY <1>2, <1>3, <1>4, <1>5, <1>6 DEF NotesNext

(* Who moves a handler: its own steps and the claim that begins it.          *)
LEMMA OthersKeep ==
  ASSUME NotesTypeOK, [NotesNext]_noteVars, NEW a \in Handlers
  PROVE  \/ handler'[a] = handler[a]
         \/ handler'[a].pc = "begun"
         \/ HandlerSteps(a)
<1> USE DEF jobs, rows, locks
<1>0. handler \in [Handlers -> [pc : {"none", "begun", "tagging", "fenced", "checked", "gated", "gone"},
                               text : Texts \cup {NoMeta}, meta : Metas \cup {NoMeta}, had : BOOLEAN]]
  BY DEF NotesTypeOK, HandlerTypes
<1>1. ASSUME NEW j \in EnrichJobs, Claim(j) PROVE handler'[a] = handler[a] \/ handler'[a].pc = "begun"
  <2> DEFINE b == <<j, epoch[j] + 1>>
  <2>1. handler' = [handler EXCEPT ![b] = [handler[b] EXCEPT !.pc = "begun"]]  BY <1>1 DEF Claim
  <2> HIDE DEF b
  <2> QED BY <1>0, <2>1
<1>2. ASSUME NEW b \in Handlers, b # a, HandlerSteps(b) PROVE handler'[a] = handler[a]
  BY <1>0, <1>2 DEF HandlerSteps, ReadNote, FenceJob, CheckNote, PassGate, GiveUp, Enrich, Return
<1>3. ASSUME NEW r \in Requests, RequestSteps(r) PROVE handler' = handler
  BY <1>3, RequestFrame
<1>4. CASE \/ \E j \in EnrichJobs : Lapse(j) \/ EndTry(j)
           \/ \E n \in Notes : DeleteReview(n) \/ EnterReview(n) \/ \E j \in EnrichJobs : Retag(n, j)
           \/ \E n \in Notes, j \in EnrichJobs, text \in Texts, meta \in Metas \cup {NoMeta} :
                CreateNote(n, j, text, meta)
           \/ \E status \in {"open", "building"} : Rebuild(status)
           \/ UNCHANGED noteVars
  BY <1>4 DEF Lapse, EndTry, DeleteReview, EnterReview, Retag, CreateNote, Rebuild, noteVars
<1> QED BY <1>1, <1>2, <1>3, <1>4 DEF NotesNext

(* A lock is taken free and released by its owner.                           *)
LEMMA OthersLeaveLocks ==
  ASSUME NotesTypeOK, [NotesNext]_noteVars, NEW a \in Handlers, ~HandlerSteps(a),
         NEW n \in Notes, owner[n] = a
  PROVE  owner'[n] = a
<1> USE DEF jobs, rows, locks
<1>0. owner \in [Notes -> Transactions \cup {Nobody}]  BY DEF NotesTypeOK, LockTypes
<1>1. ASSUME NEW t \in Transactions, NEW m \in Notes, LockNote(t, m) PROVE owner'[n] = a
  BY <1>0, <1>1, NotesAssumption DEF LockNote
<1>2. ASSUME NEW t \in Transactions, t # a, Release(t) PROVE owner'[n] = a
  BY <1>0, <1>2 DEF Release
<1>3. ASSUME NEW b \in Handlers, HandlerSteps(b) PROVE owner'[n] = a
  <2>1. b # a /\ b \in Transactions  BY <1>3 DEF Transactions
  <2>2. CASE CheckNote(b)
    BY <1>0, <2>2, NotesAssumption DEF CheckNote, LockNote
  <2>3. CASE GiveUp(b) \/ \E meta \in Metas : Enrich(b, meta)
    BY <1>2, <2>1, <2>3 DEF GiveUp, Enrich, Return
  <2>4. CASE ReadNote(b) \/ FenceJob(b) \/ PassGate(b)
    BY <2>4 DEF ReadNote, FenceJob, PassGate
  <2> QED BY <1>3, <2>2, <2>3, <2>4 DEF HandlerSteps
<1>4. ASSUME NEW r \in Requests, RequestSteps(r) PROVE owner'[n] = a
  <2>1. r # a /\ r \in Transactions  BY NotesAssumption DEF Transactions
  <2>2. ASSUME NEW m \in Notes, LockRow(r, m) PROVE owner'[n] = a
    BY <1>1, <2>1, <2>2 DEF LockRow
  <2>3. CASE Commit(r) \/ Rollback(r)
    BY <1>2, <2>1, <2>3 DEF Commit, Rollback
  <2>4. ASSUME NEW op \in Writes, NEW ns \in SUBSET Notes, NEW text \in Texts \cup {NoMeta},
               NEW meta \in Metas \cup {NoMeta}, Open(r, op, ns, text, meta)
        PROVE owner'[n] = a
    BY <2>4 DEF Open
  <2>5. CASE EnterGate(r) \/ \E m \in Notes : ScanReviews(r, m)
    BY <2>5 DEF EnterGate, ScanReviews
  <2> QED BY <1>4, <2>2, <2>3, <2>4, <2>5 DEF RequestSteps
<1>5. CASE \/ \E j \in EnrichJobs : Claim(j) \/ Lapse(j) \/ EndTry(j)
           \/ \E m \in Notes : DeleteReview(m) \/ EnterReview(m) \/ \E j \in EnrichJobs : Retag(m, j)
           \/ \E m \in Notes, j \in EnrichJobs, text \in Texts, meta \in Metas \cup {NoMeta} :
                CreateNote(m, j, text, meta)
           \/ \E status \in {"open", "building"} : Rebuild(status)
           \/ UNCHANGED noteVars
  BY <1>5 DEF Claim, Lapse, EndTry, DeleteReview, EnterReview, Retag, CreateNote, Rebuild, noteVars
<1> QED BY <1>3, <1>4, <1>5 DEF NotesNext

LEMMA LocksStandStep ==
  ASSUME NotesTypeOK, LocksStand, [NotesNext]_noteVars PROVE LocksStand'
<1> SUFFICES ASSUME NEW a \in Handlers, handler'[a].pc \in {"checked", "gated"}
             PROVE  owner'[task'[a[1]].note] = a
  BY DEF LocksStand, NoteOf
<1> USE DEF jobs, rows, locks
<1>0. /\ JobTypes /\ HandlerTypes /\ owner \in [Notes -> Transactions \cup {Nobody}]
      /\ handler \in [Handlers -> [pc : {"none", "begun", "tagging", "fenced", "checked", "gated", "gone"},
                               text : Texts \cup {NoMeta}, meta : Metas \cup {NoMeta}, had : BOOLEAN]]
  BY DEF NotesTypeOK, LockTypes, HandlerTypes
<1>1. CASE HandlerSteps(a)
  <2>1. UNCHANGED task  BY <1>1, HandlerFrame
  <2>2. CASE CheckNote(a)
    <3>1. NoteOf(a) \in Notes  BY <1>0, <2>2, NoteOfHandler DEF CheckNote
    <3> QED BY <1>0, <2>1, <2>2, <3>1 DEF CheckNote, LockNote, NoteOf
  <2>3. CASE PassGate(a)
    BY <2>1, <2>3 DEF PassGate, LocksStand, NoteOf
  <2>4. CASE GiveUp(a) \/ \E meta \in Metas : Enrich(a, meta)
    BY <1>0, <2>4 DEF GiveUp, Enrich, Return, Returned, NoHandler
  <2>5. CASE ReadNote(a) \/ FenceJob(a)
    BY <1>0, <2>5 DEF ReadNote, FenceJob
  <2> QED BY <1>1, <2>2, <2>3, <2>4, <2>5 DEF HandlerSteps
<1>2. CASE ~HandlerSteps(a)
  <2>1. handler'[a] = handler[a]  BY <1>2, OthersKeep
  <2>2. task'[a[1]] = task[a[1]] /\ NoteOf(a) \in Notes  BY <1>0, <2>1, WorkKeeps, NoteOfHandler
  <2>3. owner[NoteOf(a)] = a  BY <2>1 DEF LocksStand
  <2> QED BY <1>2, <2>2, <2>3, OthersLeaveLocks DEF NoteOf
<1> QED BY <1>1, <1>2

(* A compared note is written by its own handler alone, and no other adds a   *)
(* review to it.                                                              *)
LEMMA NoteKept ==
  ASSUME Typing, LocksStand, CheckedStands, [NotesNext]_noteVars,
         NEW a \in Handlers, handler[a].pc \in {"checked", "gated"}, ~HandlerSteps(a)
  PROVE  note'[NoteOf(a)] = note[NoteOf(a)] /\ reviews'[NoteOf(a)] <= reviews[NoteOf(a)]
<1> USE DEF jobs, rows, locks
<1> DEFINE n == NoteOf(a)
<1>0. /\ RowTypes /\ JobTypes /\ HandlerTypes /\ RequestTypes /\ NotesTypeOK /\ ScansStand
      /\ reviews \in [Notes -> Nat]
  BY DEF Typing, NotesTypeOK, RowTypes
<1>1. n \in Notes  BY <1>0, NoteOfHandler
<1>2. owner[n] = a /\ note[n].status = "live"
  <2>1. owner[n] = a  BY DEF LocksStand
  <2>2. note[n] = Seen(a)  BY DEF CheckedStands
  <2>3. Seen(a).status = "live"  BY DEF Seen
  <2> QED BY <2>1, <2>2, <2>3
<1> HIDE DEF n
<1>3. CASE UNCHANGED <<note, reviews>>
  BY <1>0, <1>1, <1>3 DEF n
<1>4. ASSUME NEW b \in Handlers, HandlerSteps(b)
      PROVE  note'[n] = note[n] /\ reviews'[n] <= reviews[n]
  <2>1. b # a  BY <1>4
  <2>2. ASSUME NEW meta \in Metas, Enrich(b, meta)
        PROVE  note'[n] = note[n] /\ reviews'[n] <= reviews[n]
    <3>1. owner[NoteOf(b)] = b  BY <1>0, <2>2, EnrichSteps DEF LocksStand
    <3>2. NoteOf(b) # n  BY <1>2, <2>1, <3>1
    <3> QED BY <1>0, <1>1, <2>2, <3>2, EnrichSteps DEF RowTypes
  <2> QED BY <1>0, <1>1, <1>4, <2>2, HandlerFrame DEF RowTypes
<1>5. ASSUME NEW r \in Requests, RequestSteps(r)
      PROVE  note'[n] = note[n] /\ reviews'[n] <= reviews[n]
  <2>1. CASE Commit(r)
    <3>1. n \notin request[r].notes
      BY <1>1, <1>2, <2>1, NotesAssumption DEF Commit, Locked
    <3>2. note'[n] = note[n]  BY <1>1, <2>1, <3>1 DEF Commit
    <3>3. reviews'[n] = reviews[n] - request[r].found[n] /\ request[r].found[n] \in Nat /\ reviews[n] \in Nat
      BY <1>0, <1>1, <2>1 DEF Commit, RequestTypes, RowTypes
    <3> QED BY <3>2, <3>3
  <2>2. \/ \E op \in Writes, ns \in SUBSET Notes, text \in Texts \cup {NoMeta}, meta \in Metas \cup {NoMeta} :
             Open(r, op, ns, text, meta)
        \/ EnterGate(r) \/ Rollback(r)
        \/ \E m \in Notes : ScanReviews(r, m) \/ LockRow(r, m)
        => UNCHANGED <<note, reviews>>
    BY DEF Open, EnterGate, Rollback, ScanReviews, LockRow
  <2>3. reviews[n] \in Nat  BY <1>0, <1>1
  <2> QED BY <1>5, <2>1, <2>2, <2>3 DEF RequestSteps
<1>6. ASSUME NEW m \in Notes, DeleteReview(m)
      PROVE  note'[n] = note[n] /\ reviews'[n] <= reviews[n]
  BY <1>0, <1>1, <1>6 DEF DeleteReview
<1>7. ASSUME NEW m \in Notes, NEW j \in EnrichJobs, NEW text \in Texts, NEW meta \in Metas \cup {NoMeta},
             CreateNote(m, j, text, meta)
      PROVE  note'[n] = note[n] /\ reviews'[n] <= reviews[n]
  <2>1. m # n  BY <1>2, <1>7 DEF CreateNote, NoNote
  <2> QED BY <1>0, <1>1, <1>7, <2>1 DEF CreateNote, RowTypes
<1>8. CASE \/ \E j \in EnrichJobs : Claim(j) \/ Lapse(j) \/ EndTry(j)
           \/ \E m \in Notes : EnterReview(m) \/ \E j \in EnrichJobs : Retag(m, j)
           \/ \E status \in {"open", "building"} : Rebuild(status)
           \/ UNCHANGED noteVars
  BY <1>3, <1>8 DEF Claim, Lapse, EndTry, EnterReview, Retag, Rebuild, noteVars
<1> QED BY <1>4, <1>5, <1>6, <1>7, <1>8 DEF NotesNext, n

LEMMA CheckedStandsStep ==
  ASSUME Typing, LocksStand, CheckedStands, [NotesNext]_noteVars PROVE CheckedStands'
<1> SUFFICES ASSUME NEW a \in Handlers, handler'[a].pc \in {"checked", "gated"}
             PROVE  note'[NoteOf(a)'] = Seen(a)'
  BY DEF CheckedStands
<1> USE DEF jobs, rows, locks
<1>0. /\ NotesTypeOK
      /\ handler \in [Handlers -> [pc : {"none", "begun", "tagging", "fenced", "checked", "gated", "gone"},
                               text : Texts \cup {NoMeta}, meta : Metas \cup {NoMeta}, had : BOOLEAN]]
  BY DEF Typing, NotesTypeOK, HandlerTypes
<1>1. CASE HandlerSteps(a)
  <2>1. UNCHANGED task  BY <1>1, HandlerFrame
  <2>2. CASE CheckNote(a)
    <3>1. note' = note /\ note[NoteOf(a)] = Seen(a)  BY <2>2 DEF CheckNote
    <3>2. handler'[a].text = handler[a].text /\ handler'[a].meta = handler[a].meta
      BY <1>0, <2>2 DEF CheckNote
    <3> QED BY <2>1, <3>1, <3>2 DEF Seen, NoteOf
  <2>3. CASE PassGate(a)
    <3>1. note' = note /\ note[NoteOf(a)] = Seen(a)  BY <2>3 DEF PassGate, CheckedStands
    <3>2. handler'[a].text = handler[a].text /\ handler'[a].meta = handler[a].meta
      BY <1>0, <2>3 DEF PassGate
    <3> QED BY <2>1, <3>1, <3>2 DEF Seen, NoteOf
  <2>4. CASE GiveUp(a) \/ \E meta \in Metas : Enrich(a, meta)
    BY <1>0, <2>4 DEF GiveUp, Enrich, Return, Returned, NoHandler
  <2>5. CASE ReadNote(a) \/ FenceJob(a)
    BY <1>0, <2>5 DEF ReadNote, FenceJob
  <2> QED BY <1>1, <2>2, <2>3, <2>4, <2>5 DEF HandlerSteps
<1>2. CASE ~HandlerSteps(a)
  <2>1. handler'[a] = handler[a]  BY <1>0, <1>2, OthersKeep
  <2>2. NoteOf(a)' = NoteOf(a)  BY <1>0, <2>1, WorkKeeps DEF NoteOf
  <2>3. note'[NoteOf(a)] = note[NoteOf(a)]  BY <1>2, <2>1, NoteKept
  <2>4. note[NoteOf(a)] = Seen(a)  BY <2>1 DEF CheckedStands
  <2> QED BY <2>1, <2>2, <2>3, <2>4 DEF Seen
<1> QED BY <1>1, <1>2

(* Reviews are only made for a note that is under lock and live, and only     *)
(* taken from one by a deletion that takes them all.                          *)
LEMMA ReviewHasNoteStep ==
  ASSUME Typing, CheckedStands, ReviewHasNote, [NotesNext]_noteVars PROVE ReviewHasNote'
<1> USE DEF jobs, rows, locks
<1>0. /\ NotesTypeOK /\ ScansStand /\ RequestTypes /\ reviews \in [Notes -> Nat]
      /\ note \in [Notes -> [status : {"absent", "live", "deleted"}, text : Texts \cup {NoMeta},
                         meta : Metas \cup {NoMeta}]]
  BY DEF Typing, NotesTypeOK, RowTypes
<1>1. CASE UNCHANGED <<note, reviews>>
  BY <1>1 DEF ReviewHasNote
<1>2. ASSUME NEW a \in Handlers, HandlerSteps(a) PROVE ReviewHasNote'
  <2>1. ASSUME NEW meta \in Metas, Enrich(a, meta) PROVE ReviewHasNote'
    <3> DEFINE n == NoteOf(a)
    <3>1. n \in Notes /\ note[n].status = "live"
      <4>1. n \in Notes /\ note[n] = Seen(a)  BY <1>0, <2>1, EnrichSteps DEF CheckedStands
      <4>2. Seen(a).status = "live"  BY DEF Seen
      <4> QED BY <4>1, <4>2
    <3>2. /\ note' = [note EXCEPT ![n] = [@ EXCEPT !.meta = meta]]
          /\ reviews' = [reviews EXCEPT ![n] = IF handler[a].had THEN @ ELSE @ + 1]
      BY <1>0, <2>1, EnrichSteps
    <3> HIDE DEF n
    <3>3. note'[n].status = "live"  BY <1>0, <3>1, <3>2
    <3>4. ASSUME NEW m \in Notes, m # n PROVE note'[m] = note[m] /\ reviews'[m] = reviews[m]
      BY <1>0, <3>2, <3>4
    <3> QED BY <3>3, <3>4 DEF ReviewHasNote
  <2> QED BY <1>1, <1>2, <2>1, HandlerFrame
<1>3. ASSUME NEW r \in Requests, RequestSteps(r) PROVE ReviewHasNote'
  <2>1. CASE Commit(r)
    <3> SUFFICES ASSUME NEW n \in Notes, reviews'[n] > 0 PROVE note'[n].status = "live"
      BY DEF ReviewHasNote
    <3>1. /\ reviews'[n] = reviews[n] - request[r].found[n]
          /\ request[r].found[n] \in Nat /\ reviews[n] \in Nat
      BY <1>0, <2>1 DEF Commit, RequestTypes
    <3>2. reviews[n] > 0  BY <3>1
    <3>3. note[n].status = "live"  BY <3>2 DEF ReviewHasNote
    <3>4. CASE Deletes(r)
      <4>1. n \notin request[r].notes
        BY <1>0, <2>1, <3>1, <3>4 DEF Commit, ScansStand, Scanned
      <4> QED BY <2>1, <3>3, <4>1 DEF Commit
    <3>5. CASE ~Deletes(r)
      <4>1. Written(r, n).status = "live"  BY <1>0, <3>3, <3>5 DEF Written
      <4>2. note'[n] \in {note[n], Written(r, n)}  BY <2>1 DEF Commit
      <4> QED BY <3>3, <4>1, <4>2
    <3> QED BY <3>4, <3>5
  <2>2. \/ \E op \in Writes, ns \in SUBSET Notes, text \in Texts \cup {NoMeta}, meta \in Metas \cup {NoMeta} :
             Open(r, op, ns, text, meta)
        \/ EnterGate(r) \/ Rollback(r)
        \/ \E m \in Notes : ScanReviews(r, m) \/ LockRow(r, m)
        => UNCHANGED <<note, reviews>>
    BY DEF Open, EnterGate, Rollback, ScanReviews, LockRow
  <2> QED BY <1>1, <1>3, <2>1, <2>2 DEF RequestSteps
<1>4. ASSUME NEW m \in Notes, DeleteReview(m) PROVE ReviewHasNote'
  BY <1>0, <1>4 DEF DeleteReview, ReviewHasNote
<1>5. ASSUME NEW m \in Notes, NEW j \in EnrichJobs, NEW text \in Texts, NEW meta \in Metas \cup {NoMeta},
             CreateNote(m, j, text, meta)
      PROVE  ReviewHasNote'
  BY <1>0, <1>5 DEF CreateNote, ReviewHasNote
<1>6. CASE \/ \E j \in EnrichJobs : Claim(j) \/ Lapse(j) \/ EndTry(j)
           \/ \E m \in Notes : EnterReview(m) \/ \E j \in EnrichJobs : Retag(m, j)
           \/ \E status \in {"open", "building"} : Rebuild(status)
           \/ UNCHANGED noteVars
  BY <1>1, <1>6 DEF Claim, Lapse, EndTry, EnterReview, Retag, Rebuild, noteVars
<1> QED BY <1>2, <1>3, <1>4, <1>5, <1>6 DEF NotesNext

(* Without E5 the snapshot is no older than the lock of the note.            *)
HadStands ==
  ~enabled => \A a \in Handlers :
    handler[a].pc = "checked" => handler[a].had \/ reviews[NoteOf(a)] = 0

LEMMA EnabledKept ==
  ASSUME [NotesNext]_noteVars PROVE enabled' = enabled
<1>1. ASSUME NEW a \in Handlers, HandlerSteps(a) PROVE enabled' = enabled  BY <1>1, HandlerFrame
<1>2. ASSUME NEW r \in Requests, RequestSteps(r) PROVE enabled' = enabled  BY <1>2, RequestFrame
<1> QED
  BY <1>1, <1>2 DEF NotesNext, Claim, Lapse, EndTry, DeleteReview, EnterReview, Retag, CreateNote, Rebuild, noteVars

LEMMA HadStandsStep ==
  ASSUME Typing, LocksStand, CheckedStands, HadStands, [NotesNext]_noteVars PROVE HadStands'
<1> SUFFICES ASSUME ~enabled, NEW a \in Handlers, handler'[a].pc = "checked"
             PROVE  handler'[a].had \/ reviews'[NoteOf(a)'] = 0
  BY EnabledKept DEF HadStands
<1> USE DEF jobs, rows, locks
<1>0. /\ NotesTypeOK /\ reviews \in [Notes -> Nat] /\ reviews' \in [Notes -> Nat]
      /\ handler \in [Handlers -> [pc : {"none", "begun", "tagging", "fenced", "checked", "gated", "gone"},
                               text : Texts \cup {NoMeta}, meta : Metas \cup {NoMeta}, had : BOOLEAN]]
  BY TypesStep DEF Typing, NotesTypeOK, RowTypes, HandlerTypes
<1>1. CASE HandlerSteps(a)
  <2>1. CASE CheckNote(a)
    <3>1. UNCHANGED <<task, reviews>>  BY <2>1 DEF CheckNote
    <3>2. NoteOf(a) \in Notes  BY <1>0, <2>1, NoteOfHandler DEF CheckNote, NotesTypeOK
    <3>3. handler'[a].had = HasReview(NoteOf(a))
      <4> DEFINE b == IF enabled THEN handler[a].had ELSE HasReview(NoteOf(a))
                 h == [handler[a] EXCEPT !.pc = "checked", !.had = b]
      <4>1. handler' = [handler EXCEPT ![a] = h]  BY <1>0, <2>1 DEF CheckNote
      <4>2. h.had = b
        <5> HIDE DEF b
        <5> QED BY <1>0
      <4>3. b = HasReview(NoteOf(a))  OBVIOUS
      <4> HIDE DEF h, b
      <4>4. handler'[a] = h  BY <1>0, <4>1
      <4> QED BY <4>2, <4>3, <4>4
    <3>4. reviews[NoteOf(a)] \in Nat  BY <1>0, <3>2
    <3>5. CASE reviews[NoteOf(a)] # 0
      <4>1. HasReview(NoteOf(a))  BY <3>4, <3>5 DEF HasReview
      <4>2. handler'[a].had  BY <3>3, <4>1, Zenon
      <4> QED BY <4>2
    <3>6. CASE reviews[NoteOf(a)] = 0  BY <3>1, <3>6 DEF NoteOf
    <3> QED BY <3>5, <3>6
  <2>2. CASE \/ PassGate(a) \/ GiveUp(a) \/ \E meta \in Metas : Enrich(a, meta)
             \/ ReadNote(a) \/ FenceJob(a)
    BY <1>0, <2>2 DEF PassGate, GiveUp, Enrich, Return, Returned, NoHandler, ReadNote, FenceJob
  <2> QED BY <1>1, <2>1, <2>2 DEF HandlerSteps
<1>2. CASE ~HandlerSteps(a)
  <2>1. handler'[a] = handler[a]  BY <1>0, <1>2, OthersKeep
  <2>2. NoteOf(a)' = NoteOf(a)  BY <1>0, <2>1, WorkKeeps DEF NoteOf
  <2>3. NoteOf(a) \in Notes  BY <1>0, <2>1, NoteOfHandler DEF NotesTypeOK
  <2>4. handler[a].had \/ reviews[NoteOf(a)] = 0  BY <2>1 DEF HadStands
  <2>5. reviews'[NoteOf(a)] <= reviews[NoteOf(a)]  BY <1>2, <2>1, NoteKept
  <2>6. reviews[NoteOf(a)] \in Nat /\ reviews'[NoteOf(a)] \in Nat  BY <1>0, <2>3
  <2> QED BY <2>1, <2>2, <2>4, <2>5, <2>6
<1> QED BY <1>1, <1>2

LEMMA OneReviewStep ==
  ASSUME Typing, HadStands, OneReview, [NotesNext]_noteVars PROVE OneReview'
<1> SUFFICES ASSUME ~enabled, NEW n \in Notes PROVE reviews'[n] <= 1
  BY EnabledKept DEF OneReview
<1> USE DEF jobs, rows, locks
<1>0. /\ NotesTypeOK /\ RequestTypes /\ reviews \in [Notes -> Nat] /\ reviews[n] <= 1
      /\ reviews[n] \in Nat
  BY DEF Typing, NotesTypeOK, RowTypes, OneReview
<1>1. ASSUME NEW a \in Handlers, HandlerSteps(a) PROVE reviews'[n] <= 1
  <2>1. ASSUME NEW meta \in Metas, Enrich(a, meta) PROVE reviews'[n] <= 1
    <3>1. /\ NoteOf(a) \in Notes /\ handler[a].pc = "checked"
          /\ reviews' = [reviews EXCEPT ![NoteOf(a)] = IF handler[a].had THEN @ ELSE @ + 1]
      BY <1>0, <2>1, EnrichSteps
    <3>2. handler[a].had \/ reviews[NoteOf(a)] = 0  BY <3>1 DEF HadStands
    <3> DEFINE m == NoteOf(a)
    <3> HIDE DEF m
    <3>3. /\ m \in Notes /\ (handler[a].had \/ reviews[m] = 0)
          /\ reviews' = [reviews EXCEPT ![m] = IF handler[a].had THEN @ ELSE @ + 1]
      BY <3>1, <3>2 DEF m
    <3>4. CASE m = n  BY <1>0, <3>3, <3>4
    <3>5. CASE m # n  BY <1>0, <3>3, <3>5
    <3> QED BY <3>4, <3>5
  <2> QED BY <1>0, <1>1, <2>1, HandlerFrame
<1>2. ASSUME NEW r \in Requests, RequestSteps(r) PROVE reviews'[n] <= 1
  <2>1. CASE Commit(r)
    <3>1. reviews'[n] = reviews[n] - request[r].found[n] /\ request[r].found[n] \in Nat
      BY <1>0, <2>1 DEF Commit, RequestTypes
    <3> QED BY <1>0, <3>1
  <2>2. \/ \E op \in Writes, ns \in SUBSET Notes, text \in Texts \cup {NoMeta}, meta \in Metas \cup {NoMeta} :
             Open(r, op, ns, text, meta)
        \/ EnterGate(r) \/ Rollback(r)
        \/ \E m \in Notes : ScanReviews(r, m) \/ LockRow(r, m)
        => UNCHANGED reviews
    BY DEF Open, EnterGate, Rollback, ScanReviews, LockRow
  <2> QED BY <1>0, <1>2, <2>1, <2>2 DEF RequestSteps
<1>3. ASSUME NEW m \in Notes, DeleteReview(m) PROVE reviews'[n] <= 1
  BY <1>0, <1>3 DEF DeleteReview
<1> QED
  BY <1>0, <1>1, <1>2, <1>3
     DEF NotesNext, Claim, Lapse, EndTry, EnterReview, Retag, CreateNote, Rebuild, noteVars

(* A job has no task before it is submitted, so a request to replace metadata *)
(* is never overwritten.                                                      *)
TasksFresh == \A j \in EnrichJobs : phase[j] = "absent" => task[j] = NoTask

LEMMA TasksFreshStep ==
  ASSUME NotesTypeOK, TasksFresh, [NotesNext]_noteVars
  PROVE  TasksFresh' /\ \A n \in Notes : Asked(n) => Asked(n)'
<1> USE DEF jobs, rows, locks
<1>0. /\ phase \in [EnrichJobs -> {"absent", "idle", "held", "ended"}]
      /\ task \in [EnrichJobs -> [note : Notes \cup {Nobody}, force : BOOLEAN]]
  BY DEF NotesTypeOK, JobTypes
<1> DEFINE Goal == TasksFresh' /\ \A n \in Notes : Asked(n) => Asked(n)'
<1>1. ASSUME UNCHANGED task,
             \A j \in EnrichJobs : phase'[j] = "absent" => phase[j] = "absent"
      PROVE  Goal
  BY <1>1 DEF TasksFresh, Asked
<1>2. ASSUME NEW n \in Notes, NEW j \in EnrichJobs, NEW force \in BOOLEAN, Submit(j, n, force) PROVE Goal
  <2>1. task[j] = NoTask  BY <1>2 DEF Submit, TasksFresh
  <2>2. \A i \in EnrichJobs \ {j} : task'[i] = task[i] /\ phase'[i] = phase[i]  BY <1>0, <1>2 DEF Submit
  <2>3. phase'[j] = "idle"  BY <1>0, <1>2 DEF Submit
  <2>4. \A m \in Notes : task[j] # [note |-> m, force |-> TRUE]  BY <2>1 DEF NoTask
  <2>5. TasksFresh'  BY <2>2, <2>3 DEF TasksFresh
  <2>6. \A m \in Notes : Asked(m) => Asked(m)'  BY <2>2, <2>4 DEF Asked
  <2> QED BY <2>5, <2>6
<1>3. ASSUME NEW n \in Notes, NEW j \in EnrichJobs, Retag(n, j) PROVE Goal
  BY <1>2, <1>3 DEF Retag
<1>4. ASSUME NEW n \in Notes, NEW j \in EnrichJobs, NEW text \in Texts, NEW meta \in Metas \cup {NoMeta},
             CreateNote(n, j, text, meta)
      PROVE  Goal
  BY <1>1, <1>2, <1>4 DEF CreateNote
<1>5. ASSUME NEW j \in EnrichJobs, Claim(j) \/ Lapse(j) \/ EndTry(j) PROVE Goal
  BY <1>0, <1>1, <1>5 DEF Claim, Lapse, EndTry
<1>6. ASSUME NEW a \in Handlers, HandlerSteps(a) PROVE Goal
  <2>1. UNCHANGED task  BY <1>6, HandlerFrame
  <2>2. ASSUME NEW meta \in Metas, Enrich(a, meta) PROVE Goal
    BY <1>0, <1>1, <2>1, <2>2 DEF Enrich
  <2> QED BY <1>1, <1>6, <2>1, <2>2, HandlerFrame
<1>7. ASSUME NEW r \in Requests, RequestSteps(r) PROVE Goal
  BY <1>1, <1>7, RequestFrame
<1>8. CASE \/ \E n \in Notes : DeleteReview(n) \/ EnterReview(n)
           \/ \E status \in {"open", "building"} : Rebuild(status)
           \/ UNCHANGED noteVars
  BY <1>1, <1>8 DEF DeleteReview, EnterReview, Rebuild, noteVars
<1> QED BY <1>3, <1>4, <1>5, <1>6, <1>7, <1>8 DEF NotesNext

(* A handler nobody forced works on a note it has seen without metadata.     *)
UnforcedBlank ==
  \A a \in Handlers :
    handler[a].pc \in {"tagging", "fenced", "checked", "gated"} => task[a[1]].force \/ handler[a].meta = NoMeta

LEMMA UnforcedBlankStep ==
  ASSUME NotesTypeOK, UnforcedBlank, [NotesNext]_noteVars PROVE UnforcedBlank'
<1> SUFFICES ASSUME NEW a \in Handlers, handler'[a].pc \in {"tagging", "fenced", "checked", "gated"}
             PROVE  task'[a[1]].force \/ handler'[a].meta = NoMeta
  BY DEF UnforcedBlank
<1> USE DEF jobs, rows, locks
<1>0. handler \in [Handlers -> [pc : {"none", "begun", "tagging", "fenced", "checked", "gated", "gone"},
                               text : Texts \cup {NoMeta}, meta : Metas \cup {NoMeta}, had : BOOLEAN]]
  BY DEF NotesTypeOK, HandlerTypes
<1>1. CASE HandlerSteps(a)
  <2>1. UNCHANGED task  BY <1>1, HandlerFrame
  <2>2. CASE ReadNote(a)
    <3>1. handler'[a].meta = note[NoteOf(a)].meta  BY <1>0, <2>2 DEF ReadNote
    <3>2. task[a[1]].force \/ note[NoteOf(a)].meta = NoMeta  BY <2>2 DEF ReadNote
    <3> QED BY <2>1, <3>1, <3>2
  <2>3. CASE FenceJob(a) \/ CheckNote(a) \/ PassGate(a)
    <3>1. handler'[a].meta = handler[a].meta /\ handler[a].pc \in {"tagging", "fenced", "checked"}
      BY <1>0, <2>3 DEF FenceJob, CheckNote, PassGate
    <3> QED BY <2>1, <3>1 DEF UnforcedBlank
  <2>4. CASE GiveUp(a) \/ \E meta \in Metas : Enrich(a, meta)
    BY <1>0, <2>4 DEF GiveUp, Enrich, Return, Returned, NoHandler
  <2> QED BY <1>1, <2>2, <2>3, <2>4 DEF HandlerSteps
<1>2. CASE ~HandlerSteps(a)
  <2>1. handler'[a] = handler[a]  BY <1>2, OthersKeep
  <2>2. task'[a[1]] = task[a[1]]  BY <2>1, WorkKeeps
  <2> QED BY <2>1, <2>2 DEF UnforcedBlank
<1> QED BY <1>1, <1>2

LEMMA UserMetadataStandsStep ==
  ASSUME Typing, CheckedStands, TasksFresh, UnforcedBlank, UserMetadataStands, [NotesNext]_noteVars
  PROVE  UserMetadataStands'
<1> SUFFICES ASSUME NEW n \in Notes, note'[n].status = "live", chosen'[n] # NoMeta, ~Asked(n)'
             PROVE  note'[n].meta = chosen'[n]
  BY DEF UserMetadataStands
<1> USE DEF jobs, rows, locks
<1>0. /\ NotesTypeOK /\ RowTypes /\ RequestTypes
      /\ note \in [Notes -> [status : {"absent", "live", "deleted"}, text : Texts \cup {NoMeta},
                         meta : Metas \cup {NoMeta}]]
      /\ chosen \in [Notes -> Metas \cup {NoMeta}]
  BY DEF Typing, NotesTypeOK, RowTypes
<1>1. ~Asked(n)  BY <1>0, TasksFreshStep
<1>2. CASE note'[n] = note[n] /\ chosen'[n] = chosen[n]
  BY <1>1, <1>2 DEF UserMetadataStands
<1>3. ASSUME NEW a \in Handlers, NEW meta \in Metas, Enrich(a, meta), UNCHANGED chosen
      PROVE  note'[n].meta = chosen'[n]
  <2>1. CASE NoteOf(a) # n
    BY <1>0, <1>2, <1>3, <2>1, EnrichSteps
  <2>2. CASE NoteOf(a) = n
    <3>1. handler[a].pc \in {"checked", "gated"}  BY <1>0, <1>3, EnrichSteps
    <3>2. note[n] = Seen(a)  BY <2>2, <3>1 DEF CheckedStands
    <3>3. note[n].status = "live" /\ note[n].meta = handler[a].meta  BY <3>2 DEF Seen
    <3>4. ~task[a[1]].force
      <4>1. a[1] \in EnrichJobs  BY HandlerOfJob
      <4>2. task[a[1]] \in [note : Notes \cup {Nobody}, force : BOOLEAN]
        BY <1>0, <4>1 DEF NotesTypeOK, JobTypes
      <4>3. task[a[1]].note = n  BY <2>2 DEF NoteOf
      <4>4. SUFFICES ASSUME task[a[1]].force PROVE FALSE  OBVIOUS
      <4>5. task[a[1]] = [note |-> n, force |-> TRUE]  BY <4>2, <4>3, <4>4
      <4> QED BY <1>1, <4>1, <4>5 DEF Asked
    <3>5. handler[a].meta = NoMeta  BY <3>1, <3>4 DEF UnforcedBlank
    <3> QED BY <1>1, <1>3, <3>3, <3>5 DEF UserMetadataStands
  <2> QED BY <2>1, <2>2
<1>4. ASSUME NEW a \in Handlers, HandlerSteps(a) PROVE note'[n].meta = chosen'[n]
  <2>1. UNCHANGED chosen  BY <1>4, HandlerFrame
  <2> QED BY <1>2, <1>3, <1>4, <2>1, HandlerFrame
<1>5. ASSUME NEW r \in Requests, Commit(r) PROVE note'[n].meta = chosen'[n]
  <2> DEFINE written == n \in request[r].notes /\ note[n].status = "live" /\ Written(r, n) # note[n]
  <2>1. CASE ~written
    BY <1>2, <1>5, <2>1 DEF Commit
  <2>2. CASE written
    <3>1. /\ note'[n] = Written(r, n)
          /\ chosen'[n] = IF Deletes(r) \/ request[r].meta # NoMeta THEN request[r].meta ELSE chosen[n]
      BY <1>5, <2>2 DEF Commit
    <3>2. ~Deletes(r)
      BY <1>0, <3>1 DEF Written, Deleted, NoNote
    <3>3. /\ note'[n].meta = IF request[r].meta = NoMeta THEN note[n].meta ELSE request[r].meta
      BY <1>0, <3>1, <3>2 DEF Written
    <3> QED BY <1>1, <2>2, <3>1, <3>2, <3>3 DEF UserMetadataStands
  <2> QED BY <2>1, <2>2
<1>6. ASSUME NEW r \in Requests, RequestSteps(r) PROVE note'[n].meta = chosen'[n]
  <2>1. \/ \E op \in Writes, ns \in SUBSET Notes, text \in Texts \cup {NoMeta}, meta \in Metas \cup {NoMeta} :
             Open(r, op, ns, text, meta)
        \/ EnterGate(r) \/ Rollback(r)
        \/ \E m \in Notes : ScanReviews(r, m) \/ LockRow(r, m)
        => UNCHANGED <<note, chosen>>
    BY DEF Open, EnterGate, Rollback, ScanReviews, LockRow
  <2> QED BY <1>2, <1>5, <1>6, <2>1 DEF RequestSteps
<1>7. ASSUME NEW m \in Notes, NEW j \in EnrichJobs, NEW text \in Texts, NEW meta \in Metas \cup {NoMeta},
             CreateNote(m, j, text, meta)
      PROVE  note'[n].meta = chosen'[n]
  BY <1>0, <1>2, <1>7 DEF CreateNote
<1>8. CASE \/ \E j \in EnrichJobs : Claim(j) \/ Lapse(j) \/ EndTry(j)
           \/ \E m \in Notes : DeleteReview(m) \/ EnterReview(m) \/ \E j \in EnrichJobs : Retag(m, j)
           \/ \E status \in {"open", "building"} : Rebuild(status)
           \/ UNCHANGED noteVars
  BY <1>2, <1>8 DEF Claim, Lapse, EndTry, DeleteReview, EnterReview, Retag, Rebuild, noteVars
<1> QED BY <1>4, <1>6, <1>7, <1>8 DEF NotesNext

-----------------------------------------------------------------------------
NotesInv ==
  /\ Typing /\ LocksStand /\ CheckedStands /\ ReviewHasNote /\ HadStands /\ OneReview
  /\ TasksFresh /\ UnforcedBlank /\ UserMetadataStands

LEMMA NotesInvariant == NotesSpec => []NotesInv
<1>1. NotesInit => NotesInv
  <2> SUFFICES ASSUME NotesInit PROVE NotesInv  OBVIOUS
  <2>1. Typing  BY TypesInit DEF NotesInit, Typing, ScansStand, Scanned, NoRequest
  <2>2. \A a \in Handlers : handler[a].pc = "none"  BY DEF NotesInit, NoHandler
  <2>3. LocksStand /\ CheckedStands /\ HadStands /\ UnforcedBlank
    BY <2>2 DEF LocksStand, CheckedStands, HadStands, UnforcedBlank
  <2>4. ReviewHasNote /\ OneReview  BY DEF NotesInit, ReviewHasNote, OneReview
  <2>5. TasksFresh  BY DEF NotesInit, TasksFresh
  <2>6. UserMetadataStands  BY DEF NotesInit, UserMetadataStands
  <2> QED BY <2>1, <2>3, <2>4, <2>5, <2>6 DEF NotesInv
<1>2. NotesInv /\ [NotesNext]_noteVars => NotesInv'
  <2> SUFFICES ASSUME NotesInv, [NotesNext]_noteVars PROVE NotesInv'  OBVIOUS
  <2>1. NotesTypeOK /\ ScansStand  BY DEF NotesInv, Typing
  <2>2. Typing'  BY <2>1, TypesStep, ScansStandStep DEF Typing
  <2>3. LocksStand' /\ CheckedStands'
    BY <2>1, LocksStandStep, CheckedStandsStep DEF NotesInv
  <2>4. ReviewHasNote'  BY ReviewHasNoteStep DEF NotesInv
  <2>5. HadStands' /\ OneReview'  BY HadStandsStep, OneReviewStep DEF NotesInv
  <2>6. TasksFresh' /\ UnforcedBlank'
    BY <2>1, TasksFreshStep, UnforcedBlankStep DEF NotesInv
  <2>7. UserMetadataStands'  BY UserMetadataStandsStep DEF NotesInv
  <2> QED BY <2>2, <2>3, <2>4, <2>5, <2>6, <2>7 DEF NotesInv
<1> QED BY <1>1, <1>2, PTL DEF NotesSpec

(* From the comparison in enrich() to its commit a note stays what the model  *)
(* saw: every transaction that writes it waits for the lock.                  *)
THEOREM CheckedNotesStand == NotesSpec => []CheckedStands
<1>1. NotesInv => CheckedStands  BY DEF NotesInv
<1> QED BY <1>1, NotesInvariant, PTL

(* delete_note, its batch and its category take with the note the reviews     *)
(* that enrich() has made of it, whatever handlers, other deletions and the    *)
(* memory API do in between, and no handler makes one afterwards.             *)
THEOREM ReviewsHaveNotes == NotesSpec => []ReviewHasNote
<1>1. NotesInv => ReviewHasNote  BY DEF NotesInv
<1> QED BY <1>1, NotesInvariant, PTL

(* Any number of enrichment jobs, attempts and orphaned handlers make at most *)
(* one review of a note, without E5.                                          *)
THEOREM ReviewsAreOne == NotesSpec => []OneReview
<1>1. NotesInv => OneReview  BY DEF NotesInv
<1> QED BY <1>1, NotesInvariant, PTL

(* What its user gave as category and tags is never replaced by enrich()      *)
(* unless a request of regenerate_tags is on record.                          *)
THEOREM UserMetadataIsKept == NotesSpec => []UserMetadataStands
<1>1. NotesInv => UserMetadataStands  BY DEF NotesInv
<1> QED BY <1>1, NotesInvariant, PTL

=============================================================================
