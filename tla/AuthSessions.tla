---------------------------- MODULE AuthSessions ----------------------------
(***************************************************************************)
(* One account, its sessions and the refresh tokens of each session        *)
(* (auth/repository.py under the routes of router/user.py).                *)
(*                                                                         *)
(* A request is one REPEATABLE READ transaction: what it reads without a   *)
(* lock is as old as its first read, what it writes meets the current      *)
(* rows.  Password hashing lies between the two and takes a while, so      *)
(* login, registration, password change and logout are a Begin and an End. *)
(* refresh reads only under row locks, and is one step; a deadlock with it *)
(* or a lost connection is an Abandon.                                     *)
(*                                                                         *)
(* Clients may present any token they were ever given, at any time: lost   *)
(* replies, several tabs and copied tokens need no description of their    *)
(* own.  Names, profiles, last_seen and audit events are left out.         *)
(***************************************************************************)
EXTENDS Naturals, Sequences, FiniteSets

CONSTANTS
  Sessions,      \* auth_sessions.id, drawn afresh by uuid4
  Requests,      \* requests in flight
  Passwords,
  LegacyHashes,  \* whether the account may come from Django with a PBKDF2 hash
  MaxRotations,  \* bound: refresh tokens of one session
  MaxChanges,    \* bound: changes of the password
  None

VARIABLES
  user,          \* the users row: token_version, the hashed password, its format
  sessions,      \* auth_sessions
  families,      \* refresh_tokens of a session (family_id = session_id), oldest first
  revocations,   \* token_revocations: a key for each ended session and each version
  requests,      \* the transaction a request is in, and what it has read
  ended,         \* sessions some caller was told are over: logout, revoke, replay, change
  lastSet        \* the password of the last accepted change, and how many there were

vars == <<user, sessions, families, revocations, requests, ended, lastSet>>
tableVars == <<user, sessions, families, revocations>>

ASSUME AuthAssumption ==
  /\ MaxRotations \in Nat \ {0} /\ MaxChanges \in Nat /\ LegacyHashes \subseteq BOOLEAN
  /\ None \notin Sessions /\ None \notin Passwords

NoUser == [version |-> 0, password |-> None, legacy |-> FALSE]
NoSession == [status |-> "absent", version |-> 0, changes |-> 0, expired |-> FALSE]
NoRevocations == [sessions |-> {}, versions |-> {}]
Idle == [pc |-> "idle", user |-> NoUser, active |-> {}, revoked |-> {},
         changes |-> 0, given |-> None, target |-> None]

Versions == 0..(MaxChanges + 1)
Users == [version : Versions, password : Passwords \cup {None}, legacy : BOOLEAN]
SessionRow == [status : {"absent", "active", "revoked"}, version : Versions,
               changes : 0..MaxChanges, expired : BOOLEAN]

TypeOK ==
  /\ user \in Users
  /\ sessions \in [Sessions -> SessionRow]
  /\ families \in [Sessions -> Seq({"active", "consumed", "revoked"})]
  /\ \A s \in Sessions : Len(families[s]) <= MaxRotations
  /\ revocations \in [sessions : SUBSET Sessions, versions : SUBSET Versions]
  /\ requests \in [Requests ->
       [pc : {"idle", "registering", "issuing", "trusted", "changing", "ending"},
        user : Users, active : SUBSET Sessions, revoked : SUBSET Sessions,
        changes : 0..MaxChanges, given : Passwords \cup {None}, target : Sessions \cup {None}]]
  /\ ended \subseteq Sessions
  /\ lastSet \in [password : Passwords \cup {None}, changes : 0..MaxChanges]

Init ==
  /\ user = NoUser
  /\ sessions = [s \in Sessions |-> NoSession]
  /\ families = [s \in Sessions |-> <<>>]
  /\ revocations = NoRevocations
  /\ requests = [r \in Requests |-> Idle]
  /\ ended = {}
  /\ lastSet = [password |-> None, changes |-> 0]
-----------------------------------------------------------------------------
(* Rows                                                                      *)

ActiveSessions == {s \in Sessions : sessions[s].status = "active"}

\* A transaction begins; seen is what the request will go by, as it is now.
Opens(r, seen) == requests' = [requests EXCEPT ![r] = seen]

Ends(r) == requests' = [requests EXCEPT ![r] = Idle]

\* An access token names a session and carries its version: validate_access_claims.
Usable(s) ==
  /\ sessions[s].status = "active"
  /\ ~sessions[s].expired
  /\ sessions[s].version = user.version

\* _issue_session: a new session with the version the caller read, and its first token.
Issued(rows, s, version, changes) ==
  [rows EXCEPT ![s] = [status |-> "active", version |-> version,
                       changes |-> changes, expired |-> FALSE]]

\* UPDATE refresh_tokens ... WHERE status != 'revoked' meets the current rows.
TokensRevoked(gone) ==
  [s \in Sessions |-> IF s \in gone THEN [n \in DOMAIN families[s] |-> "revoked"]
                                    ELSE families[s]]

SessionsRevoked(gone) ==
  [s \in Sessions |-> IF s \in gone THEN [sessions[s] EXCEPT !.status = "revoked"]
                                    ELSE sessions[s]]

\* _append_session_revocation looks for the key in the snapshot; the unique key
\* refuses a second one, and with it the whole transaction.
KeysFree(gone, seen) == (gone \ seen) \cap revocations.sessions = {}

(* Fault: a version may be revoked twice. *)
VersionRepeated(version) == TRUE

\* uq_token_revocations_scope_key over "user:version".
VersionFree(version) == version \notin revocations.versions
-----------------------------------------------------------------------------
(* An account comes into being                                               *)

\* import_migration_plan; a second run finds the mapping and changes nothing.
ImportUser(password) ==
  /\ user = NoUser
  /\ \E legacy \in LegacyHashes :
       user' = [version |-> 1, password |-> password, legacy |-> legacy]
  /\ lastSet' = [lastSet EXCEPT !.password = password]
  /\ UNCHANGED <<sessions, families, revocations, requests, ended>>

BeginRegister(r, password) ==
  /\ requests[r].pc = "idle"
  /\ user = NoUser
  /\ Opens(r, [Idle EXCEPT !.pc = "registering", !.given = password])
  /\ UNCHANGED <<tableVars, ended, lastSet>>

\* create_user; the unique keys on name and address let one of two succeed.
EndRegister(r, s) ==
  /\ requests[r].pc = "registering"
  /\ user = NoUser
  /\ sessions[s] = NoSession
  /\ user' = [version |-> 1, password |-> requests[r].given, legacy |-> FALSE]
  /\ sessions' = Issued(sessions, s, 1, 0)
  /\ families' = [families EXCEPT ![s] = <<"active">>]
  /\ lastSet' = [lastSet EXCEPT !.password = requests[r].given]
  /\ Ends(r)
  /\ UNCHANGED <<revocations, ended>>
-----------------------------------------------------------------------------
(* Login                                                                     *)

BeginLogin(r, password) ==
  /\ requests[r].pc = "idle"
  /\ user # NoUser
  /\ user.password = password
  /\ Opens(r, [Idle EXCEPT !.pc = "issuing", !.given = password, !.user = user,
                        !.changes = lastSet.changes])
  /\ UNCHANGED <<tableVars, ended, lastSet>>

\* authenticate after the verification: an outdated hash is replaced by one of
\* the password that was given; the session carries the version that was read.
EndLogin(r, s) ==
  /\ requests[r].pc = "issuing"
  /\ sessions[s] = NoSession
  /\ user' = IF requests[r].user.legacy
             THEN [user EXCEPT !.password = requests[r].given, !.legacy = FALSE]
             ELSE user
  /\ sessions' = Issued(sessions, s, requests[r].user.version, requests[r].changes)
  /\ families' = [families EXCEPT ![s] = <<"active">>]
  /\ Ends(r)
  /\ UNCHANGED <<revocations, ended, lastSet>>
-----------------------------------------------------------------------------
(* Refresh                                                                   *)

\* The token, the session and the user are read FOR UPDATE.
Refresh(s, n) ==
  /\ n \in DOMAIN families[s]
  /\ families[s][n] = "active"
  /\ Usable(s)
  /\ Len(families[s]) < MaxRotations
  /\ families' = [families EXCEPT ![s] = Append([@ EXCEPT ![n] = "consumed"], "active")]
  /\ UNCHANGED <<user, sessions, revocations, requests, ended, lastSet>>

(* Fault: the transaction that detects a replay is rolled back with its error. *)
ReplayRolledBack(s, n) ==
  /\ n \in DOMAIN families[s]
  /\ families[s][n] = "consumed"
  /\ ended' = ended \cup {s}
  /\ UNCHANGED <<tableVars, requests, lastSet>>

\* A consumed token comes back: the family is revoked, and _auth_uow commits
\* that together with the audit event of the refusal.
Replay(s, n) ==
  /\ n \in DOMAIN families[s]
  /\ families[s][n] = "consumed"
  /\ sessions' = SessionsRevoked({s})
  /\ families' = TokensRevoked({s})
  /\ revocations' = [revocations EXCEPT !.sessions = @ \cup {s}]
  /\ ended' = ended \cup {s}
  /\ UNCHANGED <<user, requests, lastSet>>
-----------------------------------------------------------------------------
(* What a valid access token is good for                                     *)

\* get_current_auth: a transaction of its own, before that of the route.
Trust(r, s) ==
  /\ requests[r].pc = "idle"
  /\ Usable(s)
  /\ requests' = [requests EXCEPT ![r].pc = "trusted"]
  /\ UNCHANGED <<tableVars, ended, lastSet>>

BeginChange(r, old, new) ==
  /\ requests[r].pc = "trusted"
  /\ user.password = old
  /\ Opens(r, [Idle EXCEPT !.pc = "changing", !.given = new, !.user = user,
                        !.active = ActiveSessions, !.revoked = revocations.sessions])
  /\ UNCHANGED <<tableVars, ended, lastSet>>

\* change_password: the next version is counted from the one that was read; the
\* sessions active in the snapshot are revoked; a new session is issued.
EndChange(r, s) ==
  LET seen    == requests[r].user
      gone    == requests[r].active
      version == seen.version + 1 IN
  /\ requests[r].pc = "changing"
  /\ sessions[s] = NoSession
  /\ lastSet.changes < MaxChanges
  /\ KeysFree(gone, requests[r].revoked)
  /\ VersionFree(version)
  /\ user' = [version |-> version, password |-> requests[r].given, legacy |-> FALSE]
  /\ sessions' = Issued(SessionsRevoked(gone), s, version, lastSet.changes + 1)
  /\ families' = [TokensRevoked(gone) EXCEPT ![s] = <<"active">>]
  /\ revocations' = [sessions |-> revocations.sessions \cup gone,
                     versions |-> revocations.versions \cup {version}]
  /\ ended' = ended \cup gone
  /\ lastSet' = [password |-> requests[r].given, changes |-> lastSet.changes + 1]
  /\ Ends(r)

\* revoke_session: any session of the account may be named.
BeginRevoke(r, s) ==
  /\ requests[r].pc = "trusted"
  /\ sessions[s] # NoSession
  /\ Opens(r, [Idle EXCEPT !.pc = "ending", !.target = s, !.revoked = revocations.sessions])
  /\ UNCHANGED <<tableVars, ended, lastSet>>

\* The logout route only checks the signature: the session may long be over.
BeginLogout(r, s) ==
  /\ requests[r].pc = "idle"
  /\ sessions[s] # NoSession
  /\ Opens(r, [Idle EXCEPT !.pc = "ending", !.target = s, !.revoked = revocations.sessions])
  /\ UNCHANGED <<tableVars, ended, lastSet>>

EndLogout(r) ==
  LET s == requests[r].target IN
  /\ requests[r].pc = "ending"
  /\ KeysFree({s}, requests[r].revoked)
  /\ sessions' = SessionsRevoked({s})
  /\ families' = TokensRevoked({s})
  /\ revocations' = [revocations EXCEPT !.sessions = @ \cup {s}]
  /\ ended' = ended \cup {s}
  /\ Ends(r)
  /\ UNCHANGED <<user, lastSet>>
-----------------------------------------------------------------------------
\* A transaction ends without effect: a key was taken, a deadlock, a lost connection.
Abandon(r) ==
  /\ requests[r].pc # "idle"
  /\ Ends(r)
  /\ UNCHANGED <<tableVars, ended, lastSet>>

\* Thirty days after its login a session ends; its tokens are no younger.
Expire(s) ==
  /\ sessions[s].status # "absent"
  /\ ~sessions[s].expired
  /\ sessions' = [sessions EXCEPT ![s].expired = TRUE]
  /\ UNCHANGED <<user, families, revocations, requests, ended, lastSet>>

RequestStep(r) ==
  \/ Abandon(r) \/ EndLogout(r)
  \/ \E p \in Passwords : BeginRegister(r, p) \/ BeginLogin(r, p)
  \/ \E p, q \in Passwords : BeginChange(r, p, q)
  \/ \E s \in Sessions :
       \/ EndRegister(r, s) \/ EndLogin(r, s) \/ EndChange(r, s)
       \/ Trust(r, s) \/ BeginRevoke(r, s) \/ BeginLogout(r, s)

Next ==
  \/ \E p \in Passwords : ImportUser(p)
  \/ \E r \in Requests : RequestStep(r)
  \/ \E s \in Sessions : Expire(s) \/ \E n \in 1..MaxRotations : Refresh(s, n) \/ Replay(s, n)

Spec == Init /\ [][Next]_vars
-----------------------------------------------------------------------------
\* A change of the password ends everything that was handed out before it, to
\* whomever and however closely the requests overlap: a session that may still
\* be used was issued to someone who gave the password now in force.  Sessions
\* the change did not see are caught by the version, and two changes that read
\* the same version by the unique key of its revocation.
UsableIsCurrent == \A s \in Sessions : Usable(s) => sessions[s].changes = lastSet.changes

\* Once somebody was told that a session is over, by logout, revocation, a
\* password change or the answer "replay detected", no token of it works again,
\* also one that a refresh was issuing at the same moment.
EndedIsOver ==
  \A s \in ended :
    /\ sessions[s].status = "revoked"
    /\ \A n \in DOMAIN families[s] : families[s][n] = "revoked"

\* "password change -> increment user token_version -> revoke all sessions ->
\* issue new session" (project_changes/2026-08-31-e3-ar2-fastapi-auth/plan.md:152):
\* after an accepted change the new password is the one that opens the account.
PasswordStands == user # NoUser => user.password = lastSet.password

\* Of all the tokens a session was ever given at most one works, the newest, and
\* it works for a session that is active: refreshes that overlap never leave a
\* family with two heads, and a token whose session is over is no way back in.
OneTokenWorks ==
  \A s \in Sessions : \A n \in DOMAIN families[s] : families[s][n] = "active" =>
    sessions[s].status = "active" /\ n = Len(families[s])

\* The history of a family only grows, so that a replay is still recognised
\* however late it comes: no token is forgotten, one that was used or revoked
\* never works again, and a session that is over never comes back.
SpentStaysSpent ==
  [][\A s \in Sessions :
       /\ sessions[s].status = "revoked" => sessions'[s].status = "revoked"
       /\ \A n \in DOMAIN families[s] :
            /\ n \in DOMAIN families'[s]
            /\ families[s][n] # "active" => families'[s][n] # "active"]_vars
=============================================================================
