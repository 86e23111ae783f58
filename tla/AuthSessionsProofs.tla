-------------------------- MODULE AuthSessionsProofs --------------------------
(***************************************************************************)
(* What AuthSessions guarantees for any number of sessions, requests,      *)
(* rotations and changes of the password.                                  *)
(***************************************************************************)
EXTENDS AuthSessions, SequenceTheorems, TLAPS

Token == {"active", "consumed", "revoked"}
Request ==
  [pc : {"idle", "registering", "issuing", "trusted", "changing", "ending"},
   user : Users, active : SUBSET Sessions, revoked : SUBSET Sessions,
   changes : 0..MaxChanges, given : Passwords \cup {None}, target : Sessions \cup {None}]

(* The version of the account counts its changes of the password, and every *)
(* version but the first has the key that the change to it has taken.       *)
VersionCounts ==
  /\ user = NoUser => lastSet.changes = 0 /\ revocations.versions = {}
  /\ user # NoUser => /\ user.version = lastSet.changes + 1
                      /\ revocations.versions = 2..user.version

(* An active session carries the version that went with the password it was opened  *)
(* for, also when it was read long before the session was written.          *)
SessionsCount ==
  \A s \in Sessions :
    sessions[s].status = "active" =>
      /\ sessions[s].version = sessions[s].changes + 1
      /\ sessions[s].version <= user.version

(* What the requests in flight have read is of some earlier time.           *)
RequestsCount ==
  \A r \in Requests :
    /\ requests[r].pc = "issuing" =>
         /\ user # NoUser
         /\ requests[r].user.version = requests[r].changes + 1
    /\ requests[r].pc \in {"issuing", "changing"} =>
         requests[r].user.version \in 1..user.version
    /\ requests[r].pc = "ending" => requests[r].target \in Sessions
    /\ \A s \in requests[r].active : sessions[s].status # "absent"

IInv == TypeOK /\ VersionCounts /\ SessionsCount /\ RequestsCount /\ EndedIsOver

-----------------------------------------------------------------------------
LEMMA InitInv == Init => IInv
BY AuthAssumption
   DEF Init, IInv, TypeOK, VersionCounts, SessionsCount, RequestsCount, EndedIsOver,
       Users, Versions, SessionRow, NoUser, NoSession, NoRevocations, Idle

(* A request that is given up, or whose transaction only begins, changes no  *)
(* table: what matters is what it has read.                                  *)
LEMMA TablesStand ==
  ASSUME IInv, UNCHANGED <<tableVars, ended, lastSet>>,
         NEW r \in Requests, NEW next \in Request,
         requests' = [requests EXCEPT ![r] = next],
         next.pc = "issuing" => user # NoUser /\ next.user.version = next.changes + 1,
         next.pc \in {"issuing", "changing"} =>
           next.user.version \in 1..user.version,
         next.pc = "ending" => next.target \in Sessions,
         \A s \in next.active : sessions[s].status # "absent"
  PROVE  IInv'
<1>1. TypeOK'  BY DEF IInv, TypeOK, tableVars, Request
<1>2. VersionCounts' /\ SessionsCount' /\ EndedIsOver'
  BY DEF IInv, VersionCounts, SessionsCount, EndedIsOver, tableVars
<1>3. RequestsCount'
  <2>1. \A q \in Requests : requests'[q] = IF q = r THEN next ELSE requests[q]
    BY DEF IInv, TypeOK
  <2>. QED  BY <2>1 DEF IInv, RequestsCount, tableVars
<1>. QED  BY <1>1, <1>2, <1>3 DEF IInv

LEMMA IdleRequest == Idle \in Request /\ Idle.pc = "idle" /\ Idle.active = {}
BY AuthAssumption DEF Idle, Request, Users, Versions, NoUser

LEMMA BeginRegisterKeeps ==
  ASSUME IInv, NEW r \in Requests, NEW p \in Passwords, BeginRegister(r, p)
  PROVE  IInv'
<1>. DEFINE next == [Idle EXCEPT !.pc = "registering", !.given = p]
<1>1. next \in Request /\ next.pc = "registering" /\ next.active = {}
  BY AuthAssumption, IdleRequest DEF Request, Idle
<1>2. requests' = [requests EXCEPT ![r] = next] /\ UNCHANGED <<tableVars, ended, lastSet>>
  BY DEF BeginRegister, Opens
<1>. HIDE DEF next
<1>. QED  BY <1>1, <1>2, TablesStand

LEMMA BeginLoginKeeps ==
  ASSUME IInv, NEW r \in Requests, NEW p \in Passwords, BeginLogin(r, p)
  PROVE  IInv'
<1>. DEFINE next == [Idle EXCEPT !.pc = "issuing", !.given = p, !.user = user,
                        !.changes = lastSet.changes]
<1>1. /\ next.pc = "issuing" /\ next.given = p /\ next.active = {}
      /\ next.user = user /\ next.changes = lastSet.changes
      /\ next \in Request
  BY IdleRequest DEF Request, Idle, IInv, TypeOK
<1>2. requests' = [requests EXCEPT ![r] = next] /\ UNCHANGED <<tableVars, ended, lastSet>>
  BY DEF BeginLogin, Opens
<1>3. user.version = lastSet.changes + 1 /\ user.version \in 1..user.version
  BY DEF BeginLogin, IInv, TypeOK, VersionCounts, Users, Versions
<1>4. user # NoUser  BY DEF BeginLogin
<1>. HIDE DEF next
<1>. QED  BY <1>1, <1>2, <1>3, <1>4, TablesStand

LEMMA TrustKeeps ==
  ASSUME IInv, NEW r \in Requests, NEW s \in Sessions, Trust(r, s)
  PROVE  IInv'
<1>. DEFINE next == [requests[r] EXCEPT !.pc = "trusted"]
<1>1. next \in Request /\ next.pc = "trusted" /\ next.active = requests[r].active
  BY DEF Request, IInv, TypeOK
<1>2. requests' = [requests EXCEPT ![r] = next] /\ UNCHANGED <<tableVars, ended, lastSet>>
  BY DEF Trust
<1>3. \A q \in next.active : sessions[q].status # "absent"
  BY <1>1 DEF IInv, RequestsCount
<1>. HIDE DEF next
<1>. QED  BY <1>1, <1>2, <1>3, TablesStand

LEMMA BeginChangeKeeps ==
  ASSUME IInv, NEW r \in Requests, NEW p \in Passwords, NEW q \in Passwords,
         BeginChange(r, p, q)
  PROVE  IInv'
<1>. DEFINE next == [Idle EXCEPT !.pc = "changing", !.given = q, !.user = user,
                        !.active = ActiveSessions, !.revoked = revocations.sessions]
<1>1. /\ next.pc = "changing" /\ next.given = q /\ next.active = ActiveSessions
      /\ next.user = user /\ next \in Request
  BY IdleRequest DEF Request, Idle, IInv, TypeOK, ActiveSessions
<1>2. requests' = [requests EXCEPT ![r] = next] /\ UNCHANGED <<tableVars, ended, lastSet>>
  BY DEF BeginChange, Opens
<1>3. user # NoUser  BY AuthAssumption DEF BeginChange, NoUser
<1>4. user.version \in 1..user.version
  BY <1>3 DEF IInv, TypeOK, VersionCounts, Users, Versions
<1>5. \A s \in next.active : sessions[s].status # "absent"
  BY <1>1 DEF ActiveSessions
<1>. HIDE DEF next
<1>. QED  BY <1>1, <1>2, <1>4, <1>5, TablesStand

LEMMA BeginEndingKeeps ==
  ASSUME IInv, NEW r \in Requests, NEW s \in Sessions, BeginRevoke(r, s) \/ BeginLogout(r, s)
  PROVE  IInv'
<1>. DEFINE next == [Idle EXCEPT !.pc = "ending", !.target = s, !.revoked = revocations.sessions]
<1>1. next.pc = "ending" /\ next.target = s /\ next.active = {} /\ next \in Request
  BY IdleRequest DEF Request, Idle, IInv, TypeOK
<1>2. requests' = [requests EXCEPT ![r] = next] /\ UNCHANGED <<tableVars, ended, lastSet>>
  BY DEF BeginRevoke, BeginLogout, Opens
<1>. HIDE DEF next
<1>. QED  BY <1>1, <1>2, TablesStand

LEMMA AbandonKeeps ==
  ASSUME IInv, NEW r \in Requests, Abandon(r)
  PROVE  IInv'
BY IdleRequest, TablesStand DEF Abandon, Ends
-----------------------------------------------------------------------------
(* The rows that are written.                                                *)

LEMMA FirstTokenType ==
  <<"active">> \in Seq(Token) /\ Len(<<"active">>) = 1
BY DEF Token

LEMMA RevokedRow ==
  ASSUME NEW row \in SessionRow
  PROVE  /\ [row EXCEPT !.status = "revoked"] \in SessionRow
         /\ [row EXCEPT !.status = "revoked"].status = "revoked"
         /\ [row EXCEPT !.status = "revoked"].version = row.version
         /\ [row EXCEPT !.status = "revoked"].changes = row.changes
BY DEF SessionRow

(* Revocation leaves the number of tokens and of sessions as it is. *)
LEMMA RevocationTypes ==
  ASSUME TypeOK, NEW gone \in SUBSET Sessions
  PROVE  /\ TokensRevoked(gone) \in [Sessions -> Seq(Token)]
         /\ \A s \in Sessions : Len(TokensRevoked(gone)[s]) = Len(families[s])
         /\ \A s \in gone : \A n \in DOMAIN TokensRevoked(gone)[s] :
               TokensRevoked(gone)[s][n] = "revoked"
         /\ \A s \in Sessions \ gone : TokensRevoked(gone)[s] = families[s]
         /\ SessionsRevoked(gone) \in [Sessions -> SessionRow]
         /\ \A s \in gone : SessionsRevoked(gone)[s] = [sessions[s] EXCEPT !.status = "revoked"]
         /\ \A s \in Sessions \ gone : SessionsRevoked(gone)[s] = sessions[s]
<1>1. ASSUME NEW s \in Sessions
      PROVE  /\ families[s] \in Seq(Token) /\ Len(families[s]) \in Nat
             /\ DOMAIN families[s] = 1..Len(families[s])
  BY LenProperties DEF TypeOK, Token
<1>2. ASSUME NEW s \in Sessions
      PROVE  /\ [n \in DOMAIN families[s] |-> "revoked"] \in Seq(Token)
             /\ Len([n \in DOMAIN families[s] |-> "revoked"]) = Len(families[s])
  <2>. DEFINE w == [n \in 1..Len(families[s]) |-> "revoked"]
  <2>1. w \in Seq(Token) /\ Len(w) = Len(families[s])
    BY <1>1, IsASeq, LenProperties DEF Token
  <2>. QED  BY <1>1, <2>1
<1>3. TokensRevoked(gone) \in [Sessions -> Seq(Token)]
  BY <1>1, <1>2 DEF TokensRevoked
<1>4. \A s \in Sessions : Len(TokensRevoked(gone)[s]) = Len(families[s])
  BY <1>2 DEF TokensRevoked
<1>5. \A s \in gone : TokensRevoked(gone)[s] = [n \in DOMAIN families[s] |-> "revoked"]
  BY DEF TokensRevoked
<1>6. \A s \in gone : \A n \in DOMAIN TokensRevoked(gone)[s] :
         TokensRevoked(gone)[s][n] = "revoked"
  BY <1>5
<1>7. \A s \in Sessions \ gone : TokensRevoked(gone)[s] = families[s]
  BY DEF TokensRevoked
<1>8. SessionsRevoked(gone) \in [Sessions -> SessionRow]
  <2>1. \A s \in Sessions : /\ sessions[s] \in SessionRow
                           /\ [sessions[s] EXCEPT !.status = "revoked"] \in SessionRow
    BY RevokedRow DEF TypeOK
  <2>. QED  BY <2>1 DEF SessionsRevoked
<1>9. /\ \A s \in gone : SessionsRevoked(gone)[s] = [sessions[s] EXCEPT !.status = "revoked"]
      /\ \A s \in Sessions \ gone : SessionsRevoked(gone)[s] = sessions[s]
  BY DEF SessionsRevoked
<1>. QED  BY <1>3, <1>4, <1>6, <1>7, <1>8, <1>9
(* Sessions end: the tokens go with them, no request and no version moves. *)
LEMMA RevokingKeeps ==
  ASSUME IInv, NEW gone \in SUBSET Sessions,
         sessions' = SessionsRevoked(gone),
         families' = TokensRevoked(gone),
         revocations' = [revocations EXCEPT !.sessions = @ \cup gone],
         ended' = ended \cup gone,
         requests' = requests \/ \E r \in Requests : Ends(r),
         UNCHANGED <<user, lastSet>>
  PROVE  IInv'
<1>1. TypeOK'
  <2>1. requests' \in [Requests -> Request]
    BY IdleRequest DEF IInv, TypeOK, Request, Ends
  <2>2. revocations' \in [sessions : SUBSET Sessions, versions : SUBSET Versions]
    BY DEF IInv, TypeOK
  <2>3. families' \in [Sessions -> Seq(Token)] /\ \A s \in Sessions : Len(families'[s]) <= MaxRotations
    BY RevocationTypes DEF IInv, TypeOK
  <2>4. sessions' \in [Sessions -> SessionRow] /\ ended' \subseteq Sessions
    BY RevocationTypes DEF IInv, TypeOK
  <2>. QED  BY <2>1, <2>2, <2>3, <2>4 DEF IInv, TypeOK, Token, Request
<1>2. VersionCounts'
  <2>1. revocations'.versions = revocations.versions  BY DEF IInv, TypeOK
  <2>. QED  BY <2>1 DEF IInv, VersionCounts
<1>3. SessionsCount'
  <2>. SUFFICES ASSUME NEW s \in Sessions, sessions'[s].status = "active"
                PROVE  /\ sessions'[s].version = sessions'[s].changes + 1
                       /\ sessions'[s].version <= user.version
    BY DEF SessionsCount
  <2>1. s \notin gone
    <3>. SUFFICES ASSUME s \in gone PROVE FALSE  OBVIOUS
    <3>1. sessions[s] \in SessionRow  BY DEF IInv, TypeOK
    <3>2. sessions'[s] = [sessions[s] EXCEPT !.status = "revoked"]
      BY RevocationTypes DEF IInv
    <3>. QED  BY <3>1, <3>2, RevokedRow
  <2>2. sessions'[s] = sessions[s]  BY <2>1, RevocationTypes DEF IInv
  <2>. QED  BY <2>2 DEF IInv, SessionsCount
<1>4. RequestsCount'
  <2>1. \A q \in Requests : requests'[q] = requests[q] \/ requests'[q] = Idle
    BY DEF IInv, TypeOK, Ends
  <2>2. \A s \in Sessions : sessions[s].status # "absent" => sessions'[s].status # "absent"
    <3>. SUFFICES ASSUME NEW s \in Sessions, sessions[s].status # "absent"
                  PROVE  sessions'[s].status # "absent"
      OBVIOUS
    <3>1. sessions[s] \in SessionRow  BY DEF IInv, TypeOK
    <3>2. CASE s \in gone  BY <3>1, <3>2, RevocationTypes, RevokedRow DEF IInv
    <3>3. CASE s \notin gone  BY <3>3, RevocationTypes DEF IInv
    <3>. QED  BY <3>2, <3>3
  <2>3. \A q \in Requests : requests[q].active \in SUBSET Sessions
    BY DEF IInv, TypeOK
  <2>. QED  BY <2>1, <2>2, <2>3, IdleRequest DEF IInv, RequestsCount
<1>5. EndedIsOver'
  <2>1. ASSUME NEW s \in gone
        PROVE  /\ sessions'[s].status = "revoked"
               /\ \A n \in DOMAIN families'[s] : families'[s][n] = "revoked"
    <3>1. sessions[s] \in SessionRow  BY DEF IInv, TypeOK
    <3>2. sessions'[s] = [sessions[s] EXCEPT !.status = "revoked"]
      BY RevocationTypes DEF IInv
    <3>3. \A n \in DOMAIN families'[s] : families'[s][n] = "revoked"
      BY RevocationTypes DEF IInv
    <3>4. sessions'[s].status = "revoked"  BY <3>1, <3>2, RevokedRow
    <3>. QED  BY <3>3, <3>4
  <2>2. ASSUME NEW s \in ended \ gone
        PROVE  /\ sessions'[s].status = "revoked"
               /\ \A n \in DOMAIN families'[s] : families'[s][n] = "revoked"
    <3>1. s \in Sessions \ gone  BY DEF IInv, TypeOK
    <3>. QED  BY <3>1, RevocationTypes DEF IInv, EndedIsOver
  <2>. QED  BY <2>1, <2>2 DEF EndedIsOver
<1>. QED  BY <1>1, <1>2, <1>3, <1>4, <1>5 DEF IInv
LEMMA ReplayKeeps ==
  ASSUME IInv, NEW s \in Sessions, NEW n \in 1..MaxRotations, Replay(s, n)
  PROVE  IInv'
<1>1. {s} \in SUBSET Sessions  OBVIOUS
<1>. QED  BY <1>1, RevokingKeeps DEF Replay

LEMMA EndLogoutKeeps ==
  ASSUME IInv, NEW r \in Requests, EndLogout(r)
  PROVE  IInv'
<1>. DEFINE gone == {requests[r].target}
<1>1. gone \in SUBSET Sessions  BY DEF EndLogout, IInv, RequestsCount
<1>2. /\ sessions' = SessionsRevoked(gone) /\ families' = TokensRevoked(gone)
      /\ revocations' = [revocations EXCEPT !.sessions = @ \cup gone]
      /\ ended' = ended \cup gone /\ Ends(r) /\ UNCHANGED <<user, lastSet>>
  BY DEF EndLogout
<1>. HIDE DEF gone
<1>. QED  BY <1>1, <1>2, RevokingKeeps

(* A refresh adds a token to a session that may still be used, hence to none *)
(* of those that were ended.                                                 *)
LEMMA RefreshKeeps ==
  ASSUME IInv, NEW s \in Sessions, NEW n \in 1..MaxRotations, Refresh(s, n)
  PROVE  IInv'
<1>. DEFINE consumed == [families[s] EXCEPT ![n] = "consumed"]
<1>1. /\ families[s] \in Seq(Token) /\ Len(families[s]) \in Nat
      /\ DOMAIN families[s] = 1..Len(families[s])
  BY LenProperties DEF IInv, TypeOK, Token
<1>2. consumed \in Seq(Token) /\ Len(consumed) = Len(families[s])
  BY <1>1, ExceptSeq DEF Refresh, Token
<1>3. /\ Append(consumed, "active") \in Seq(Token)
      /\ Len(Append(consumed, "active")) = Len(families[s]) + 1
  BY <1>2, AppendProperties DEF Token
<1>4. families' = [families EXCEPT ![s] = Append(consumed, "active")]
  BY DEF Refresh
<1>. HIDE DEF consumed
<1>5. Len(families[s]) + 1 <= MaxRotations
  BY <1>1, AuthAssumption DEF Refresh
<1>6. TypeOK'
  <2>1. families' \in [Sessions -> Seq(Token)]
    BY <1>3, <1>4 DEF IInv, TypeOK, Token
  <2>2. \A q \in Sessions : Len(families'[q]) <= MaxRotations
    BY <1>3, <1>4, <1>5 DEF IInv, TypeOK
  <2>. QED  BY <2>1, <2>2 DEF IInv, TypeOK, Refresh, Token
<1>7. VersionCounts' /\ SessionsCount' /\ RequestsCount'
  BY DEF IInv, VersionCounts, SessionsCount, RequestsCount, Refresh
<1>8. EndedIsOver'
  <2>1. s \notin ended  BY DEF Refresh, Usable, IInv, EndedIsOver
  <2>2. \A q \in ended : families'[q] = families[q]
    BY <1>4, <2>1 DEF IInv, TypeOK
  <2>. QED  BY <2>2 DEF IInv, EndedIsOver, Refresh
<1>. QED  BY <1>6, <1>7, <1>8 DEF IInv

LEMMA ExpireKeeps ==
  ASSUME IInv, NEW s \in Sessions, Expire(s)
  PROVE  IInv'
<1>. DEFINE row == [sessions[s] EXCEPT !.expired = TRUE]
<1>1. /\ row \in SessionRow /\ row.status = sessions[s].status
      /\ row.version = sessions[s].version /\ row.changes = sessions[s].changes
  BY DEF IInv, TypeOK, SessionRow
<1>2. sessions' = [sessions EXCEPT ![s] = row]  BY DEF Expire
<1>. HIDE DEF row
<1>3. TypeOK'
  <2>1. sessions' \in [Sessions -> SessionRow]  BY <1>1, <1>2 DEF IInv, TypeOK
  <2>. QED  BY <2>1 DEF IInv, TypeOK, Expire
<1>4. \A q \in Sessions : /\ sessions'[q].status = sessions[q].status
                         /\ sessions'[q].version = sessions[q].version
                         /\ sessions'[q].changes = sessions[q].changes
  BY <1>1, <1>2 DEF IInv, TypeOK
<1>5. VersionCounts' /\ SessionsCount'
  BY <1>4 DEF IInv, VersionCounts, SessionsCount, Expire
<1>6. RequestsCount' /\ EndedIsOver'
  BY <1>4 DEF IInv, TypeOK, RequestsCount, EndedIsOver, Expire
<1>. QED  BY <1>3, <1>5, <1>6 DEF IInv
(* A session is opened; those that are ended with it were there before.      *)
LEMMA IssuingKeeps ==
  ASSUME IInv, NEW r \in Requests, NEW s \in Sessions, sessions[s] = NoSession,
         NEW gone \in SUBSET Sessions, \A q \in gone : sessions[q].status # "absent",
         NEW version \in Versions, NEW changes \in 0..MaxChanges, version = changes + 1,
         sessions' = Issued(SessionsRevoked(gone), s, version, changes),
         families' = [TokensRevoked(gone) EXCEPT ![s] = <<"active">>],
         ended' = ended \cup gone, Ends(r),
         user' \in Users, user' # NoUser, user.version <= user'.version,
         version <= user'.version,
         revocations' \in [sessions : SUBSET Sessions, versions : SUBSET Versions],
         lastSet' \in [password : Passwords \cup {None}, changes : 0..MaxChanges],
         VersionCounts'
  PROVE  IInv'
<1>. DEFINE row == [status |-> "active", version |-> version,
                    changes |-> changes, expired |-> FALSE]
<1>1. /\ row \in SessionRow /\ row.status = "active"
      /\ row.version = version /\ row.changes = changes
  BY DEF SessionRow
<1>2. sessions' = [SessionsRevoked(gone) EXCEPT ![s] = row]  BY DEF Issued
<1>. HIDE DEF row
<1>3. s \notin gone  BY DEF NoSession
<1>4. s \notin ended  BY DEF IInv, EndedIsOver, NoSession
<1>5. /\ SessionsRevoked(gone) \in [Sessions -> SessionRow]
      /\ \A q \in gone : SessionsRevoked(gone)[q] = [sessions[q] EXCEPT !.status = "revoked"]
      /\ \A q \in Sessions \ gone : SessionsRevoked(gone)[q] = sessions[q]
  BY RevocationTypes DEF IInv
<1>6. /\ sessions'[s] = row
      /\ \A q \in gone : sessions'[q] = [sessions[q] EXCEPT !.status = "revoked"]
      /\ \A q \in Sessions \ gone : q # s => sessions'[q] = sessions[q]
  BY <1>2, <1>3, <1>5
<1>7. \A q \in gone : sessions'[q].status = "revoked"
  <2>. SUFFICES ASSUME NEW q \in gone PROVE sessions'[q].status = "revoked"  OBVIOUS
  <2>1. sessions[q] \in SessionRow  BY DEF IInv, TypeOK
  <2>. QED  BY <1>6, <2>1, RevokedRow
<1>8. /\ TokensRevoked(gone) \in [Sessions -> Seq(Token)]
      /\ \A q \in Sessions : Len(TokensRevoked(gone)[q]) = Len(families[q])
      /\ \A q \in gone : \A n \in DOMAIN TokensRevoked(gone)[q] :
            TokensRevoked(gone)[q][n] = "revoked"
      /\ \A q \in Sessions \ gone : TokensRevoked(gone)[q] = families[q]
  BY RevocationTypes DEF IInv
<1>9. TypeOK'
  <2>1. sessions' \in [Sessions -> SessionRow]  BY <1>1, <1>2, <1>5
  <2>2. families' \in [Sessions -> Seq(Token)]  BY <1>8, FirstTokenType
  <2>3. \A q \in Sessions : Len(families'[q]) <= MaxRotations
    BY <1>8, FirstTokenType, AuthAssumption DEF IInv, TypeOK
  <2>4. requests' \in [Requests -> Request]
    BY IdleRequest DEF IInv, TypeOK, Request, Ends
  <2>5. ended' \subseteq Sessions  BY DEF IInv, TypeOK
  <2>. QED  BY <2>1, <2>2, <2>3, <2>4, <2>5 DEF TypeOK, Token, Request
<1>10. SessionsCount'
  <2>. SUFFICES ASSUME NEW q \in Sessions, sessions'[q].status = "active"
                PROVE  /\ sessions'[q].version = sessions'[q].changes + 1
                       /\ sessions'[q].version <= user'.version
    BY DEF SessionsCount
  <2>1. q \notin gone  BY <1>7
  <2>2. CASE q = s  BY <1>1, <1>6, <2>2
  <2>3. CASE q # s
    <3>1. sessions'[q] = sessions[q]  BY <1>6, <2>1, <2>3
    <3>2. /\ sessions[q].version = sessions[q].changes + 1
          /\ sessions[q].version <= user.version
      BY <3>1 DEF IInv, SessionsCount
    <3>3. sessions[q].version \in Nat /\ user.version \in Nat /\ user'.version \in Nat
      BY DEF IInv, TypeOK, SessionRow, Users, Versions
    <3>. QED  BY <3>1, <3>2, <3>3
  <2>. QED  BY <2>2, <2>3
<1>11. RequestsCount'
  <2>1. \A q \in Requests : requests'[q] = requests[q] \/ requests'[q] = Idle
    BY DEF IInv, TypeOK, Ends
  <2>2. \A q \in Sessions : sessions[q].status # "absent" => sessions'[q].status # "absent"
    BY <1>1, <1>6, <1>7
  <2>3. \A q \in Requests : /\ requests[q].active \in SUBSET Sessions
                           /\ requests[q].user.version \in Nat
    BY DEF IInv, TypeOK, Users, Versions
  <2>4. user.version \in Nat /\ user'.version \in Nat
    BY DEF IInv, TypeOK, Users, Versions
  <2>5. \A q \in Requests : requests[q].user.version \in 1..user.version
                               => requests[q].user.version \in 1..user'.version
    BY <2>3, <2>4
  <2>. QED  BY <2>1, <2>2, <2>3, <2>5, IdleRequest DEF IInv, RequestsCount
<1>12. EndedIsOver'
  <2>1. ASSUME NEW q \in gone
        PROVE  \A n \in DOMAIN families'[q] : families'[q][n] = "revoked"
    <3>1. families'[q] = TokensRevoked(gone)[q]  BY <1>3, <1>8
    <3>. QED  BY <1>8, <3>1
  <2>2. ASSUME NEW q \in ended \ gone
        PROVE  /\ sessions'[q].status = "revoked"
               /\ \A n \in DOMAIN families'[q] : families'[q][n] = "revoked"
    <3>1. q \in Sessions \ gone /\ q # s  BY <1>4 DEF IInv, TypeOK
    <3>2. sessions'[q] = sessions[q] /\ families'[q] = families[q]
      BY <1>6, <1>8, <3>1
    <3>. QED  BY <3>2 DEF IInv, EndedIsOver
  <2>. QED  BY <1>7, <2>1, <2>2 DEF EndedIsOver
<1>. QED  BY <1>9, <1>10, <1>11, <1>12 DEF IInv
LEMMA NothingRevoked ==
  ASSUME IInv
  PROVE  SessionsRevoked({}) = sessions /\ TokensRevoked({}) = families
BY DEF SessionsRevoked, TokensRevoked, IInv, TypeOK

LEMMA ImportUserKeeps ==
  ASSUME IInv, NEW p \in Passwords, ImportUser(p)
  PROVE  IInv'
<1>1. PICK legacy \in LegacyHashes :
         user' = [version |-> 1, password |-> p, legacy |-> legacy]
  BY DEF ImportUser
<1>2. user' \in Users /\ user'.version = 1 /\ user' # NoUser
  BY <1>1, AuthAssumption DEF Users, Versions, NoUser
<1>3. /\ lastSet' \in [password : Passwords \cup {None}, changes : 0..MaxChanges]
      /\ lastSet'.changes = lastSet.changes
  BY DEF ImportUser, IInv, TypeOK
<1>4. user.version = 0 /\ lastSet.changes = 0 /\ revocations.versions = {}
  BY DEF ImportUser, IInv, VersionCounts, NoUser
<1>5. TypeOK'  BY <1>2, <1>3 DEF ImportUser, IInv, TypeOK
<1>6. VersionCounts'
  <2>1. revocations' = revocations  BY DEF ImportUser
  <2>2. 2..1 = {}  OBVIOUS
  <2>. QED  BY <1>2, <1>3, <1>4, <2>1, <2>2 DEF VersionCounts
<1>7. SessionsCount'
  <2>. SUFFICES ASSUME NEW s \in Sessions, sessions[s].status = "active" PROVE FALSE
    BY DEF SessionsCount, ImportUser
  <2>1. sessions[s].version <= 0 /\ sessions[s].version = sessions[s].changes + 1
    BY <1>4 DEF IInv, SessionsCount
  <2>2. sessions[s].changes \in Nat  BY DEF IInv, TypeOK, SessionRow
  <2>. QED  BY <2>1, <2>2
<1>8. RequestsCount'
  <2>1. \A r \in Requests : requests[r].pc \notin {"issuing", "changing"}
    BY <1>4 DEF IInv, RequestsCount
  <2>. QED  BY <2>1 DEF IInv, RequestsCount, ImportUser
<1>9. EndedIsOver'  BY DEF IInv, EndedIsOver, ImportUser
<1>. QED  BY <1>5, <1>6, <1>7, <1>8, <1>9 DEF IInv

LEMMA EndRegisterKeeps ==
  ASSUME IInv, NEW r \in Requests, NEW s \in Sessions, EndRegister(r, s)
  PROVE  IInv'
<1>. DEFINE given == requests[r].given
<1>1. given \in Passwords \cup {None}  BY DEF IInv, TypeOK
<1>2. user' = [version |-> 1, password |-> given, legacy |-> FALSE]  BY DEF EndRegister
<1>. HIDE DEF given
<1>3. user' \in Users /\ user'.version = 1 /\ user' # NoUser
  BY <1>1, <1>2, AuthAssumption DEF Users, Versions, NoUser
<1>4. /\ lastSet' \in [password : Passwords \cup {None}, changes : 0..MaxChanges]
      /\ lastSet'.changes = lastSet.changes
  BY DEF EndRegister, IInv, TypeOK
<1>5. user.version = 0 /\ lastSet.changes = 0 /\ revocations.versions = {}
  BY DEF EndRegister, IInv, VersionCounts, NoUser
<1>6. revocations' = revocations  BY DEF EndRegister
<1>7. VersionCounts'
  <2>1. 2..1 = {}  OBVIOUS
  <2>. QED  BY <1>3, <1>4, <1>5, <1>6, <2>1 DEF VersionCounts
<1>8. /\ sessions' = Issued(SessionsRevoked({}), s, 1, 0)
      /\ families' = [TokensRevoked({}) EXCEPT ![s] = <<"active">>]
      /\ ended' = ended \cup {} /\ sessions[s] = NoSession /\ Ends(r)
  BY NothingRevoked DEF EndRegister
<1>9. 1 \in Versions /\ 0 \in 0..MaxChanges /\ 1 = 0 + 1 /\ {} \in SUBSET Sessions
  BY AuthAssumption DEF Versions
<1>10. revocations' \in [sessions : SUBSET Sessions, versions : SUBSET Versions]
  BY <1>6 DEF IInv, TypeOK
<1>. QED  BY <1>3, <1>4, <1>5, <1>7, <1>8, <1>9, <1>10, IssuingKeeps

LEMMA EndLoginKeeps ==
  ASSUME IInv, NEW r \in Requests, NEW s \in Sessions, EndLogin(r, s)
  PROVE  IInv'
<1>. DEFINE seen == requests[r].user.version
            changes == requests[r].changes
            given == requests[r].given
<1>1. /\ changes \in 0..MaxChanges /\ seen \in Versions /\ user \in Users
      /\ given \in Passwords \cup {None}
  BY DEF IInv, TypeOK, Users
<1>2. user # NoUser /\ seen = changes + 1 /\ seen \in 1..user.version
  BY DEF EndLogin, IInv, RequestsCount
<1>3. user' = user \/ user' = [user EXCEPT !.password = given, !.legacy = FALSE]
  BY DEF EndLogin
<1>4. /\ sessions' = Issued(SessionsRevoked({}), s, seen, changes)
      /\ families' = [TokensRevoked({}) EXCEPT ![s] = <<"active">>]
      /\ ended' = ended \cup {} /\ sessions[s] = NoSession /\ Ends(r)
  BY NothingRevoked DEF EndLogin
<1>. HIDE DEF seen, changes, given
<1>5. user' \in Users /\ user'.version = user.version  BY <1>1, <1>3 DEF Users
<1>6. user.version \in Nat  BY <1>1 DEF Users, Versions
<1>7. user' # NoUser  BY <1>2, <1>5 DEF NoUser
<1>8. revocations' = revocations /\ lastSet' = lastSet  BY DEF EndLogin
<1>9. VersionCounts'  BY <1>2, <1>5, <1>7, <1>8 DEF IInv, VersionCounts
<1>10. /\ revocations' \in [sessions : SUBSET Sessions, versions : SUBSET Versions]
       /\ lastSet' \in [password : Passwords \cup {None}, changes : 0..MaxChanges]
       /\ {} \in SUBSET Sessions
  BY <1>8 DEF IInv, TypeOK
<1>11. user.version <= user'.version /\ seen <= user'.version
  BY <1>2, <1>5, <1>6
<1>. QED  BY <1>1, <1>2, <1>4, <1>5, <1>7, <1>9, <1>10, <1>11, IssuingKeeps

(* The key of the next version is free for a change that read the current    *)
(* version, and for no other.                                                *)
LEMMA EndChangeKeeps ==
  ASSUME IInv, NEW r \in Requests, NEW s \in Sessions, EndChange(r, s)
  PROVE  IInv'
<1>. DEFINE seen == requests[r].user.version
            gone == requests[r].active
            given == requests[r].given
            version == seen + 1
            changes == lastSet.changes + 1
<1>1. /\ gone \in SUBSET Sessions /\ given \in Passwords \cup {None}
      /\ lastSet.changes \in 0..MaxChanges /\ user \in Users
  BY DEF IInv, TypeOK
<1>2. seen \in 1..user.version /\ \A q \in gone : sessions[q].status # "absent"
  BY DEF EndChange, IInv, RequestsCount
<1>3. user.version \in Nat  BY <1>1 DEF Users, Versions
<1>4. user # NoUser  BY <1>2, <1>3 DEF NoUser
<1>5. user.version = lastSet.changes + 1 /\ revocations.versions = 2..user.version
  BY <1>4 DEF IInv, VersionCounts
<1>6. version \notin revocations.versions /\ lastSet.changes < MaxChanges
  BY DEF EndChange, VersionFree
<1>7. /\ sessions' = Issued(SessionsRevoked(gone), s, version, changes)
      /\ families' = [TokensRevoked(gone) EXCEPT ![s] = <<"active">>]
      /\ ended' = ended \cup gone /\ sessions[s] = NoSession /\ Ends(r)
      /\ user' = [version |-> version, password |-> given, legacy |-> FALSE]
      /\ revocations' = [sessions |-> revocations.sessions \cup gone,
                         versions |-> revocations.versions \cup {version}]
      /\ lastSet' = [password |-> given, changes |-> changes]
  BY DEF EndChange
<1>. HIDE DEF gone, given
<1>8. seen = user.version  BY <1>2, <1>3, <1>5, <1>6
<1>9. /\ changes \in 0..MaxChanges /\ version = changes + 1 /\ version \in Versions
      /\ version = user.version + 1
  BY <1>1, <1>5, <1>6, <1>8, AuthAssumption DEF Versions
<1>. HIDE DEF version, changes, seen
<1>10. user' \in Users /\ user'.version = version  BY <1>1, <1>7, <1>9 DEF Users
<1>11. user' # NoUser  BY <1>3, <1>9, <1>10 DEF NoUser
<1>12. revocations' \in [sessions : SUBSET Sessions, versions : SUBSET Versions]
  BY <1>1, <1>7, <1>9 DEF IInv, TypeOK
<1>13. lastSet' \in [password : Passwords \cup {None}, changes : 0..MaxChanges]
  BY <1>1, <1>7, <1>9
<1>14. VersionCounts'
  <2>1. lastSet'.changes = changes /\ revocations'.versions = (2..user.version) \cup {version}
    BY <1>5, <1>7
  <2>2. user.version >= 1  BY <1>2, <1>3
  <2>3. (2..user.version) \cup {version} = 2..version  BY <1>3, <1>9, <2>2
  <2>. QED  BY <1>9, <1>10, <1>11, <2>1, <2>3 DEF VersionCounts
<1>15. user.version <= user'.version /\ version <= user'.version
  BY <1>3, <1>9, <1>10
<1>. QED
  BY <1>1, <1>2, <1>7, <1>9, <1>10, <1>11, <1>12, <1>13, <1>14, <1>15, IssuingKeeps
-----------------------------------------------------------------------------
LEMMA NextInv == IInv /\ [Next]_vars => IInv'
<1>. SUFFICES ASSUME IInv, [Next]_vars PROVE IInv'  OBVIOUS
<1>1. CASE UNCHANGED vars
  BY <1>1 DEF vars, IInv, TypeOK, VersionCounts, SessionsCount, RequestsCount, EndedIsOver
<1>2. CASE \E p \in Passwords : ImportUser(p)  BY <1>2, ImportUserKeeps
<1>3. ASSUME NEW r \in Requests, RequestStep(r) PROVE IInv'
  BY <1>3, AbandonKeeps, EndLogoutKeeps, BeginRegisterKeeps, BeginLoginKeeps,
     BeginChangeKeeps, EndRegisterKeeps, EndLoginKeeps, EndChangeKeeps, TrustKeeps,
     BeginEndingKeeps
     DEF RequestStep
<1>4. ASSUME NEW s \in Sessions, Expire(s) PROVE IInv'  BY <1>4, ExpireKeeps
<1>5. ASSUME NEW s \in Sessions, NEW n \in 1..MaxRotations, Refresh(s, n) PROVE IInv'
  BY <1>5, RefreshKeeps
<1>6. ASSUME NEW s \in Sessions, NEW n \in 1..MaxRotations, Replay(s, n) PROVE IInv'
  BY <1>6, ReplayKeeps
<1>. QED  BY <1>1, <1>2, <1>3, <1>4, <1>5, <1>6 DEF Next

LEMMA Invariant == Spec => []IInv
BY InitInv, NextInv, PTL DEF Spec

(* The rows of an account keep their types.                                  *)
THEOREM TypeCorrect == Spec => []TypeOK
<1>1. IInv => TypeOK  BY DEF IInv
<1>. QED  BY <1>1, Invariant, PTL

(* However many logins, registrations, refreshes and changes of the password *)
(* overlap, a session that may still be used was issued for the password set *)
(* by the last accepted change (change_password, authenticate).              *)
THEOREM UsableIsCurrentHolds == Spec => []UsableIsCurrent
<1>1. IInv => UsableIsCurrent
  <2>. SUFFICES ASSUME IInv, NEW s \in Sessions, Usable(s)
                PROVE  sessions[s].changes = lastSet.changes
    BY DEF UsableIsCurrent
  <2>1. /\ sessions[s].version = sessions[s].changes + 1
        /\ sessions[s].version = user.version
    BY DEF Usable, IInv, SessionsCount
  <2>2. sessions[s].changes \in Nat /\ lastSet.changes \in Nat
    BY DEF IInv, TypeOK, SessionRow
  <2>3. user.version >= 1  BY <2>1, <2>2
  <2>4. user.version = lastSet.changes + 1
    BY <2>3 DEF IInv, VersionCounts, NoUser
  <2>. QED  BY <2>1, <2>2, <2>4
<1>. QED  BY <1>1, Invariant, PTL

(* A session that some caller was told is over stays revoked with all of its *)
(* tokens, whatever refresh or login was under way (refresh, revoke_session, *)
(* change_password).                                                         *)
THEOREM EndedIsOverHolds == Spec => []EndedIsOver
<1>1. IInv => EndedIsOver  BY DEF IInv
<1>. QED  BY <1>1, Invariant, PTL
-----------------------------------------------------------------------------
(* What a step may do to the family of a session.                            *)

Kept(s) == families'[s] = families[s] /\ sessions'[s].status = sessions[s].status

Over(s) ==
  /\ sessions'[s].status = "revoked"
  /\ DOMAIN families'[s] = DOMAIN families[s]
  /\ \A n \in DOMAIN families[s] : families'[s][n] = "revoked"

Opened(s) ==
  /\ sessions[s].status = "absent" /\ sessions'[s].status = "active"
  /\ families'[s] = <<"active">>

Rotated(s) ==
  /\ sessions[s].status = "active" /\ sessions'[s].status = "active"
  /\ \E n \in DOMAIN families[s] :
       /\ families[s][n] = "active"
       /\ families'[s] = Append([families[s] EXCEPT ![n] = "consumed"], "active")

Moved(s) == Kept(s) \/ Over(s) \/ Opened(s) \/ Rotated(s)

(* A family has tokens only once its session is there.                       *)
FamiliesBegin == \A s \in Sessions : sessions[s].status = "absent" => families[s] = <<>>

LEMMA RevokedFamilies ==
  ASSUME TypeOK, NEW gone \in SUBSET Sessions,
         sessions' = SessionsRevoked(gone), families' = TokensRevoked(gone),
         NEW s \in Sessions
  PROVE  Moved(s)
<1>1. CASE s \in gone
  <2>1. sessions[s] \in SessionRow  BY DEF TypeOK
  <2>2. sessions'[s] = [sessions[s] EXCEPT !.status = "revoked"]
    BY <1>1, RevocationTypes
  <2>3. sessions'[s].status = "revoked"  BY <2>1, <2>2, RevokedRow
  <2>4. families'[s] = [n \in DOMAIN families[s] |-> "revoked"]
    BY <1>1 DEF TokensRevoked
  <2>. QED  BY <2>3, <2>4 DEF Moved, Over
<1>2. CASE s \notin gone
  BY <1>2, RevocationTypes DEF Moved, Kept
<1>. QED  BY <1>1, <1>2

(* A session is issued under a fresh identity; those that go are others.     *)
LEMMA IssuedFamilies ==
  ASSUME TypeOK, NEW gone \in SUBSET Sessions, NEW q \in Sessions, sessions[q] = NoSession,
         NEW version, NEW changes,
         sessions' = Issued(SessionsRevoked(gone), q, version, changes),
         families' = [TokensRevoked(gone) EXCEPT ![q] = <<"active">>],
         NEW s \in Sessions
  PROVE  Moved(s)
<1>1. /\ SessionsRevoked(gone) \in [Sessions -> SessionRow]
      /\ TokensRevoked(gone) \in [Sessions -> Seq(Token)]
  BY RevocationTypes
<1>2. CASE s = q
  BY <1>1, <1>2 DEF Issued, NoSession, Moved, Opened
<1>3. CASE s # q
  <2>1. sessions'[s] = SessionsRevoked(gone)[s] /\ families'[s] = TokensRevoked(gone)[s]
    BY <1>1, <1>3 DEF Issued
  <2>2. CASE s \in gone
    <3>1. sessions[s] \in SessionRow  BY DEF TypeOK
    <3>2. sessions'[s] = [sessions[s] EXCEPT !.status = "revoked"]
      BY <2>1, <2>2, RevocationTypes
    <3>3. sessions'[s].status = "revoked"  BY <3>1, <3>2, RevokedRow
    <3>4. families'[s] = [n \in DOMAIN families[s] |-> "revoked"]
      BY <2>1, <2>2 DEF TokensRevoked
    <3>. QED  BY <3>3, <3>4 DEF Moved, Over
  <2>3. CASE s \notin gone
    BY <2>1, <2>3, RevocationTypes DEF Moved, Kept
  <2>. QED  BY <2>2, <2>3
<1>. QED  BY <1>2, <1>3

LEMMA FirstFamily ==
  ASSUME TypeOK, NEW q \in Sessions, sessions[q] = NoSession, NEW version, NEW changes,
         sessions' = Issued(sessions, q, version, changes),
         families' = [families EXCEPT ![q] = <<"active">>],
         NEW s \in Sessions
  PROVE  Moved(s)
<1>1. families \in [Sessions -> Seq(Token)] /\ sessions \in [Sessions -> SessionRow]
  BY DEF TypeOK, Token
<1>. QED  BY <1>1 DEF Issued, NoSession, Moved, Opened, Kept

LEMMA FamiliesMove ==
  ASSUME IInv, [Next]_vars, NEW s \in Sessions
  PROVE  Moved(s)
<1>0. TypeOK  BY DEF IInv
<1>1. CASE UNCHANGED <<sessions, families>>  BY <1>1 DEF Moved, Kept
<1>2. ASSUME NEW r \in Requests, EndLogout(r) PROVE Moved(s)
  <2>. DEFINE gone == {requests[r].target}
  <2>1. gone \in SUBSET Sessions  BY <1>2 DEF EndLogout, IInv, RequestsCount
  <2>2. sessions' = SessionsRevoked(gone) /\ families' = TokensRevoked(gone)
    BY <1>2 DEF EndLogout
  <2>. HIDE DEF gone
  <2>. QED  BY <1>0, <2>1, <2>2, RevokedFamilies
<1>3. ASSUME NEW q \in Sessions, NEW n \in 1..MaxRotations, Replay(q, n) PROVE Moved(s)
  <2>1. {q} \in SUBSET Sessions  OBVIOUS
  <2>. QED  BY <1>0, <1>3, <2>1, RevokedFamilies DEF Replay
<1>4. ASSUME NEW r \in Requests, NEW q \in Sessions, EndRegister(r, q) PROVE Moved(s)
  BY <1>0, <1>4, FirstFamily DEF EndRegister
<1>5. ASSUME NEW r \in Requests, NEW q \in Sessions, EndLogin(r, q) PROVE Moved(s)
  BY <1>0, <1>5, FirstFamily DEF EndLogin
<1>6. ASSUME NEW r \in Requests, NEW q \in Sessions, EndChange(r, q) PROVE Moved(s)
  <2>1. requests[r].active \in SUBSET Sessions  BY DEF IInv, TypeOK
  <2>. QED  BY <1>0, <1>6, <2>1, IssuedFamilies DEF EndChange
<1>7. ASSUME NEW q \in Sessions, Expire(q) PROVE Moved(s)
  BY <1>0, <1>7 DEF Expire, TypeOK, SessionRow, Moved, Kept
<1>8. ASSUME NEW q \in Sessions, NEW n \in 1..MaxRotations, Refresh(q, n) PROVE Moved(s)
  <2>1. CASE s = q  BY <1>0, <1>8, <2>1 DEF Refresh, Usable, TypeOK, Moved, Rotated
  <2>2. CASE s # q  BY <1>0, <1>8, <2>2 DEF Refresh, TypeOK, Moved, Kept
  <2>. QED  BY <2>1, <2>2
<1>9. ASSUME NEW r \in Requests, RequestStep(r) PROVE Moved(s)
  <2>1. ASSUME NEW p \in Passwords, BeginRegister(r, p) \/ BeginLogin(r, p) PROVE Moved(s)
    BY <1>1, <2>1 DEF BeginRegister, BeginLogin, tableVars
  <2>2. ASSUME NEW p \in Passwords, NEW q \in Passwords, BeginChange(r, p, q) PROVE Moved(s)
    BY <1>1, <2>2 DEF BeginChange, tableVars
  <2>3. ASSUME NEW q \in Sessions, Trust(r, q) \/ BeginRevoke(r, q) \/ BeginLogout(r, q)
        PROVE  Moved(s)
    BY <1>1, <2>3 DEF Trust, BeginRevoke, BeginLogout, tableVars
  <2>4. CASE Abandon(r)  BY <1>1, <2>4 DEF Abandon, tableVars
  <2>. QED  BY <1>2, <1>4, <1>5, <1>6, <1>9, <2>1, <2>2, <2>3, <2>4 DEF RequestStep
<1>10. ASSUME NEW p \in Passwords, ImportUser(p) PROVE Moved(s)
  BY <1>1, <1>10 DEF ImportUser
<1>11. CASE UNCHANGED vars  BY <1>1, <1>11 DEF vars
<1>. QED  BY <1>3, <1>7, <1>8, <1>9, <1>10, <1>11 DEF Next

(* The one token that may be exchanged is the last one, so that what takes   *)
(* its place is again the only one.                                          *)
LEMMA RotatedFamily ==
  ASSUME NEW f \in Seq(Token), NEW g, NEW n \in DOMAIN f, n = Len(f),
         \A m \in DOMAIN f : f[m] = "active" => m = Len(f),
         g = Append([f EXCEPT ![n] = "consumed"], "active")
  PROVE  /\ Len(g) = Len(f) + 1 /\ DOMAIN f \subseteq DOMAIN g
         /\ \A m \in DOMAIN g : g[m] = "active" => m = Len(g)
         /\ \A m \in DOMAIN f : f[m] # "active" => g[m] # "active"
<1>. DEFINE consumed == [f EXCEPT ![n] = "consumed"]
<1>1. Len(f) \in Nat /\ DOMAIN f = 1..Len(f)  BY LenProperties
<1>2. consumed \in Seq(Token) /\ Len(consumed) = Len(f)
  BY <1>1, ExceptSeq DEF Token
<1>3. \A m \in DOMAIN f : consumed[m] # "active"  BY <1>1
<1>4. "active" \in Token  BY DEF Token
<1>. HIDE DEF consumed
<1>5. /\ g \in Seq(Token) /\ Len(g) = Len(f) + 1 /\ DOMAIN g = 1..(Len(f) + 1)
      /\ \A m \in 1..Len(f) : g[m] = consumed[m]
  <2>1. g = Append(consumed, "active")  BY DEF consumed
  <2>. QED  BY <1>1, <1>2, <1>4, <2>1, AppendProperties
<1>. QED  BY <1>1, <1>3, <1>5

LEMMA FamilyKept ==
  ASSUME IInv, OneTokenWorks, FamiliesBegin, NEW s \in Sessions, Moved(s)
  PROVE  /\ sessions'[s].status = "absent" => families'[s] = <<>>
         /\ \A n \in DOMAIN families'[s] : families'[s][n] = "active" =>
              sessions'[s].status = "active" /\ n = Len(families'[s])
         /\ sessions[s].status = "revoked" => sessions'[s].status = "revoked"
         /\ \A n \in DOMAIN families[s] :
              /\ n \in DOMAIN families'[s]
              /\ families[s][n] # "active" => families'[s][n] # "active"
<1>1. families[s] \in Seq(Token)  BY DEF IInv, TypeOK, Token
<1>2. CASE Kept(s)  BY <1>2 DEF Kept, OneTokenWorks, FamiliesBegin
<1>3. CASE Over(s)  BY <1>3 DEF Over
<1>4. CASE Opened(s)
  <2>1. families[s] = <<>>  BY <1>4 DEF Opened, FamiliesBegin
  <2>2. DOMAIN families[s] = {}  BY <2>1
  <2>3. DOMAIN families'[s] = {1} /\ Len(families'[s]) = 1  BY <1>4 DEF Opened
  <2>. QED  BY <1>4, <2>2, <2>3 DEF Opened
<1>5. CASE Rotated(s)
  <2>1. PICK n \in DOMAIN families[s] :
          /\ families[s][n] = "active"
          /\ families'[s] = Append([families[s] EXCEPT ![n] = "consumed"], "active")
    BY <1>5 DEF Rotated
  <2>2. n = Len(families[s])
        /\ \A m \in DOMAIN families[s] : families[s][m] = "active" => m = Len(families[s])
    BY <2>1 DEF OneTokenWorks
  <2>3. sessions[s].status = "active" /\ sessions'[s].status = "active"  BY <1>5 DEF Rotated
  <2>. QED  BY <1>1, <2>1, <2>2, <2>3, RotatedFamily
<1>. QED  BY <1>2, <1>3, <1>4, <1>5 DEF Moved

LEMMA FamiliesInvariant == Spec => [](OneTokenWorks /\ FamiliesBegin)
<1>1. Init => OneTokenWorks /\ FamiliesBegin
  BY DEF Init, OneTokenWorks, FamiliesBegin
<1>2. IInv /\ OneTokenWorks /\ FamiliesBegin /\ [Next]_vars
        => (OneTokenWorks /\ FamiliesBegin)'
  <2>. SUFFICES ASSUME IInv, OneTokenWorks, FamiliesBegin, [Next]_vars
                PROVE  OneTokenWorks' /\ FamiliesBegin'
    OBVIOUS
  <2>. QED  BY FamiliesMove, FamilyKept DEF OneTokenWorks, FamiliesBegin
<1>. QED  BY <1>1, <1>2, Invariant, PTL DEF Spec

(* Of a family at most one token works, the newest, and only of an active    *)
(* session (refresh exchanges a token under the lock of its row).            *)
THEOREM OneTokenWorksHolds == Spec => []OneTokenWorks
BY FamiliesInvariant, PTL

(* A family forgets no token, no token that was used or revoked works again, *)
(* and a revoked session stays revoked (refresh, revoke_session).            *)
THEOREM SpentStaysSpentHolds == Spec => SpentStaysSpent
<1>1. IInv /\ OneTokenWorks /\ FamiliesBegin /\ [Next]_vars =>
        [\A s \in Sessions :
           /\ sessions[s].status = "revoked" => sessions'[s].status = "revoked"
           /\ \A n \in DOMAIN families[s] :
                /\ n \in DOMAIN families'[s]
                /\ families[s][n] # "active" => families'[s][n] # "active"]_vars
  BY FamiliesMove, FamilyKept
<1>. QED  BY <1>1, Invariant, FamiliesInvariant, PTL DEF Spec, SpentStaysSpent
=============================================================================
