---------------------------- MODULE ChatTurnProofs ---------------------------
(***************************************************************************)
(* What ChatTurn guarantees for any number of streams, requests, turns,    *)
(* deletions and crashes: of the pending action (ActionInv), of the        *)
(* answers that are stored (EchoInv, RowInv) and of the summaries          *)
(* (SummaryInv).                                                           *)
(***************************************************************************)
EXTENDS ChatTurn, SequenceTheorems, FiniteSetTheorems, WellFoundedInduction, TLAPS

(* The row lock is held by the request that has read the row and not yet     *)
(* deleted it; as long as it is held the row is there.                       *)
LockStands ==
    \A c \in Confirms : /\ reply[c] = "locked" <=> holder = c
                        /\ reply[c] = "locked" => action # "consumed"

(* A row that was not deleted was taken by nobody. *)
UntakenWhileStored == action # "consumed" => takes = <<>>

(* Only one request ever gets past the row, and it was in time. *)
OneTaker ==
    /\ takes = <<>> \/ \E c \in Confirms : takes = <<c>>
    /\ \A c \in Confirms :
          /\ takes = <<c>> => inTime[c] /\ reply[c] \in {"taken", "tool", "receipt", "over"}
          /\ reply[c] \in {"taken", "tool", "receipt"} => takes = <<c>>

(* The tool is run by the taker alone, after a yes, and then not again. *)
EffectsFollowConsent ==
    /\ effects \in {0, 1}
    /\ takes = <<>> => effects = 0
    /\ \A c \in Confirms :
          /\ reply[c] \in {"taken", "tool"} => effects = 0
          /\ reply[c] = "tool" => decision[c]
          /\ takes = <<c>> /\ effects = 1 => decision[c]

ActionInv ==
    ConfirmTypes /\ LockStands /\ UntakenWhileStored /\ OneTaker /\ EffectsFollowConsent

LEMMA ActionInvInit == Init => ActionInv
<1>. SUFFICES ASSUME Init PROVE ActionInv  OBVIOUS
<1>0. reply \in [Confirms -> {"idle", "over"}] /\ takes = <<>> /\ effects = 0
  BY DEF Init
<1>1. ConfirmTypes
  <2>1. reply \in [Confirms -> Replies]  BY <1>0 DEF Replies
  <2>2. takes \in Seq(Confirms) /\ effects \in Nat  BY <1>0
  <2>. QED  BY <2>1, <2>2 DEF Init, ConfirmTypes
<1>2. \A c \in Confirms : /\ reply[c] \in {"idle", "over"} /\ holder # c
                          /\ takes = <<>> /\ <<>> # <<c>> /\ effects = 0
  BY ChatAssumption DEF Init
<1>3. LockStands  BY <1>2 DEF LockStands
<1>4. takes = <<>> /\ effects = 0  BY DEF Init
<1>5. OneTaker  BY <1>2, <1>4 DEF OneTaker
<1>6. UntakenWhileStored /\ EffectsFollowConsent
  BY <1>2, <1>4 DEF UntakenWhileStored, EffectsFollowConsent
<1>. QED  BY <1>1, <1>3, <1>5, <1>6 DEF ActionInv

(* Whatever leaves the action and its requests alone leaves the invariant. *)
LEMMA ActionInvStutter ==
  ASSUME ActionInv, UNCHANGED <<actionVars, confirmVars>>
  PROVE  ActionInv'
BY DEF ActionInv, ConfirmTypes, LockStands, UntakenWhileStored, OneTaker,
       EffectsFollowConsent, actionVars, confirmVars

(* A stream touches the action only when its agent stores one. *)
LEMMA StreamsLeaveTheAction ==
  ASSUME NEW s \in Streams,
         \/ OpenQuery(s) \/ OpenRegenerate(s) \/ DriverStep(s) \/ Timeout(s) \/ Disconnect(s)
         \/ ReadMemory(s) \/ ReadTurns(s) \/ Summarise(s) \/ SummaryFails(s) \/ Say(s)
         \/ AgentEnds(s) \/ DetachedEnds(s)
  PROVE  UNCHANGED <<actionVars, confirmVars>>
<1>1. CASE DriverStep(s)
  BY <1>1 DEF DriverStep, Begin, Forward, Join, Joined, StoreTurn, StoreAnswer, StoreFails
<1>2. CASE OpenQuery(s) \/ OpenRegenerate(s) \/ Timeout(s) \/ Disconnect(s)
  BY <1>2 DEF OpenQuery, OpenRegenerate, Timeout, Disconnect
<1>3. CASE ReadMemory(s) \/ ReadTurns(s) \/ Summarise(s) \/ SummaryFails(s)
  BY <1>3 DEF ReadMemory, ReadTurns, Summarise, SummaryFails
<1>4. CASE Say(s) \/ AgentEnds(s) \/ DetachedEnds(s)
  BY <1>4 DEF Say, AgentEnds, DetachedEnds
<1>. QED  BY <1>1, <1>2, <1>3, <1>4

LEMMA AskConfirmationKeeps ==
  ASSUME ActionInv, NEW s \in Streams, AskConfirmation(s)
  PROVE  ActionInv'
BY DEF ActionInv, ConfirmTypes, LockStands, UntakenWhileStored, OneTaker,
       EffectsFollowConsent, AskConfirmation, confirmVars

LEMMA ExpireKeeps ==
  ASSUME ActionInv, Expire
  PROVE  ActionInv'
BY DEF ActionInv, ConfirmTypes, LockStands, UntakenWhileStored, OneTaker,
       EffectsFollowConsent, Expire, confirmVars

(* A crash gives up the lock and every request; what was consumed stays. *)
LEMMA CrashKeeps ==
  ASSUME ActionInv, Crash
  PROVE  ActionInv'
BY ChatAssumption
   DEF ActionInv, ConfirmTypes, Replies, LockStands, UntakenWhileStored, OneTaker,
       EffectsFollowConsent, Crash, Waiting

LEMMA AskKeeps ==
  ASSUME ActionInv, NEW c \in Confirms, NEW yes \in BOOLEAN, Ask(c, yes)
  PROVE  ActionInv'
BY DEF ActionInv, ConfirmTypes, Replies, LockStands, UntakenWhileStored, OneTaker,
       EffectsFollowConsent, Ask, actionVars

LEMMA LockKeeps ==
  ASSUME ActionInv, NEW c \in Confirms, Lock(c)
  PROVE  ActionInv'
BY ChatAssumption
   DEF ActionInv, ConfirmTypes, Replies, LockStands, UntakenWhileStored, OneTaker,
       EffectsFollowConsent, Lock, MayLock

(* The request deletes the row that it alone has locked. *)
LEMMA ConsumeKeeps ==
  ASSUME ActionInv, NEW c \in Confirms, Consume(c)
  PROVE  ActionInv'
<1>1. reply[c] = "locked" /\ holder = c /\ takes = <<>> /\ effects = 0
  BY DEF ActionInv, Consume, LockStands, UntakenWhileStored, EffectsFollowConsent
<1>2. \A d \in Confirms \ {c} : reply[d] \notin {"locked", "taken", "tool", "receipt"}
  BY <1>1 DEF ActionInv, LockStands, OneTaker
<1>3. takes' \in {<<>>, <<c>>} /\ (takes' = <<c>> <=> inTime[c])
  BY <1>1 DEF Consume
<1>4. reply' = [reply EXCEPT ![c] = IF inTime[c] THEN "taken" ELSE "over"]
  BY DEF Consume
<1>5. UNCHANGED <<expired, decision, inTime, effects>> /\ action' = "consumed" /\ holder' = Nobody
  BY DEF Consume
<1>6. \A d \in Confirms : <<d>> = <<c>> => d = c  OBVIOUS
<1>7. \A d \in Confirms : <<d>> # <<>>  OBVIOUS
<1>8. ConfirmTypes'
  <2>1. reply' \in [Confirms -> Replies]  BY <1>4 DEF ActionInv, ConfirmTypes, Replies
  <2>2. takes' \in Seq(Confirms)
    <3>1. <<>> \in Seq(Confirms) /\ <<c>> \in Seq(Confirms)  OBVIOUS
    <3>. QED  BY <1>3, <3>1
  <2>. QED  BY <1>5, <2>1, <2>2 DEF ActionInv, ConfirmTypes
<1>9. LockStands' /\ UntakenWhileStored'
  BY <1>2, <1>4, <1>5, ChatAssumption
     DEF ActionInv, ConfirmTypes, LockStands, UntakenWhileStored
<1>10. OneTaker'
  BY <1>2, <1>3, <1>4, <1>5, <1>6, <1>7 DEF ActionInv, ConfirmTypes, OneTaker
<1>11. EffectsFollowConsent'
  BY <1>1, <1>2, <1>4, <1>5 DEF ActionInv, ConfirmTypes, EffectsFollowConsent
<1>. QED  BY <1>8, <1>9, <1>10, <1>11 DEF ActionInv

LEMMA ResolveKeeps ==
  ASSUME ActionInv, NEW c \in Confirms, Resolve(c)
  PROVE  ActionInv'
BY DEF ActionInv, ConfirmTypes, Replies, LockStands, UntakenWhileStored, OneTaker,
       EffectsFollowConsent, Resolve, actionVars

(* The tool is run, or cut off: the request does not come back to it. *)
LEMMA ToolKeeps ==
  ASSUME ActionInv, NEW c \in Confirms, RunTool(c) \/ LeaveConfirm(c)
  PROVE  ActionInv'
<1>1. reply[c] \in {"tool", "receipt"} /\ takes = <<c>>
  BY DEF ActionInv, OneTaker, RunTool, LeaveConfirm
<1>2. \A d \in Confirms \ {c} : reply[d] \notin {"taken", "tool", "receipt"}
  BY <1>1 DEF ActionInv, OneTaker
<1>3. effects' \in {0, 1} /\ (effects' = 1 /\ effects = 0 => decision[c])
  BY <1>1 DEF ActionInv, EffectsFollowConsent, RunTool, LeaveConfirm
<1>4. \E next \in {"receipt", "over"} : reply' = [reply EXCEPT ![c] = next]
  BY DEF RunTool, LeaveConfirm
<1>5. UNCHANGED <<actionVars, decision, inTime, takes>>
  BY DEF RunTool, LeaveConfirm
<1>. QED
  BY <1>1, <1>2, <1>3, <1>4, <1>5
     DEF ActionInv, ConfirmTypes, Replies, LockStands, UntakenWhileStored, OneTaker,
         EffectsFollowConsent, actionVars

LEMMA AppendReceiptKeeps ==
  ASSUME ActionInv, NEW c \in Confirms, AppendReceipt(c)
  PROVE  ActionInv'
BY DEF ActionInv, ConfirmTypes, Replies, LockStands, UntakenWhileStored, OneTaker,
       EffectsFollowConsent, AppendReceipt, actionVars

LEMMA ActionInvNext == ActionInv /\ [Next]_vars => ActionInv'
<1>. SUFFICES ASSUME ActionInv, [Next]_vars PROVE ActionInv'  OBVIOUS
<1>1. CASE UNCHANGED vars
  BY <1>1, ActionInvStutter DEF vars
<1>2. ASSUME NEW s \in Streams,
             OpenQuery(s) \/ OpenRegenerate(s) \/ DriverStep(s) \/ Timeout(s)
               \/ Disconnect(s) \/ AgentStep(s)
      PROVE  ActionInv'
  BY <1>2, StreamsLeaveTheAction, ActionInvStutter, AskConfirmationKeeps DEF AgentStep
<1>3. ASSUME NEW c \in Confirms,
             (\E yes \in BOOLEAN : Ask(c, yes)) \/ ConfirmStep(c) \/ LeaveConfirm(c)
      PROVE  ActionInv'
  BY <1>3, AskKeeps, LockKeeps, ConsumeKeeps, ResolveKeeps, ToolKeeps, AppendReceiptKeeps
     DEF ConfirmStep
<1>4. CASE DeleteMessage \/ ClearSession
  BY <1>4, ActionInvStutter DEF DeleteMessage, ClearSession
<1>5. CASE Expire \/ Crash
  BY <1>5, ExpireKeeps, CrashKeeps
<1>. QED  BY <1>1, <1>2, <1>3, <1>4, <1>5 DEF Next

LEMMA ActionInvInvariant == Spec => []ActionInv
BY ActionInvInit, ActionInvNext, PTL DEF Spec

(* However many requests confirm or cancel a pending action, at any time and *)
(* under any crashes: it is consumed once at most, and carried out at most   *)
(* once, on a yes that came within the ten minutes (take_pending_action,     *)
(* confirm_agent_action).                                                    *)
THEOREM CarriedOutOnConsentHolds == Spec => []CarriedOutOnConsent
<1>1. ActionInv => CarriedOutOnConsent
  <2>. SUFFICES ASSUME ActionInv PROVE CarriedOutOnConsent  OBVIOUS
  <2>1. CASE takes = <<>>
    BY <2>1 DEF ActionInv, EffectsFollowConsent, CarriedOutOnConsent
  <2>2. ASSUME NEW c \in Confirms, takes = <<c>> PROVE CarriedOutOnConsent
    <3>1. Len(takes) = 1 /\ Range(takes) = {c}  BY <2>2 DEF Range
    <3>2. inTime[c] /\ (effects = 1 => decision[c]) /\ effects \in {0, 1}
      BY <2>2 DEF ActionInv, OneTaker, EffectsFollowConsent
    <3>. QED  BY <2>2, <3>1, <3>2 DEF CarriedOutOnConsent
  <2>. QED  BY <2>1, <2>2 DEF ActionInv, OneTaker
<1>. QED  BY <1>1, ActionInvInvariant, PTL
-----------------------------------------------------------------------------
(* The streams and what they show.                                           *)

(* Sequences of tokens. *)
LEMMA TokensNone ==
  ASSUME NEW a \in Seq(Int)
  PROVE  a \o <<>> = a /\ <<>> \o <<>> = <<>>
<1>1. a \o <<>> = a  BY ConcatEmptySeq
<1>2. <<>> \in Seq(Int)  OBVIOUS
<1>3. <<>> \o <<>> = <<>>  BY <1>2, ConcatEmptySeq
<1>. QED  BY <1>1, <1>3

LEMMA TokensAppended ==
  ASSUME NEW a \in Seq(Int), NEW b \in Seq(Int), NEW x \in Int
  PROVE  a \o Append(b, x) = Append(a \o b, x)
<1>1. <<x>> \in Seq(Int)  OBVIOUS
<1>2. a \o b \in Seq(Int)  BY ConcatProperties
<1>3. Append(b, x) = b \o <<x>>  BY AppendIsConcat
<1>4. Append(a \o b, x) = (a \o b) \o <<x>>  BY <1>2, AppendIsConcat
<1>5. (a \o b) \o <<x>> = a \o (b \o <<x>>)  BY <1>1, ConcatAssociative
<1>. QED  BY <1>3, <1>4, <1>5

LEMMA TokensForwarded ==
  ASSUME NEW a \in Seq(Int), NEW b \in Seq(Int), b # <<>>
  PROVE  Append(a, Head(b)) \o Tail(b) = a \o b
<1>1. Head(b) \in Int /\ Tail(b) \in Seq(Int)  BY HeadTailProperties
<1>2. <<Head(b)>> \in Seq(Int)  BY <1>1
<1>3. b = <<Head(b)>> \o Tail(b)
  <2>1. Len(b) \in Nat \ {0} /\ Head(b) = b[1]  BY EmptySeq
  <2>2. Tail(b) = SubSeq(b, 2, Len(b))  BY TailIsSubSeq
  <2>3. SubSeq(b, 1, Len(b)) = b  BY SubSeqFull
  <2>4. SubSeq(b, 1, Len(b)) = <<b[1]>> \o SubSeq(b, 1 + 1, Len(b))
    BY <2>1, SubSeqRecursiveFirst
  <2>. QED  BY <2>1, <2>2, <2>3, <2>4
<1>4. Append(a, Head(b)) = a \o <<Head(b)>>  BY <1>1, AppendIsConcat
<1>5. (a \o <<Head(b)>>) \o Tail(b) = a \o (<<Head(b)>> \o Tail(b))
  BY <1>1, <1>2, ConcatAssociative
<1>. QED  BY <1>3, <1>4, <1>5

(* What the client was shown and what is still queued make up the answer. *)
EchoAt(s) ==
    /\ pc[s] \in {"idle", "begin", "gone"} =>
          shown[s] = <<>> /\ queue[s] = <<>> /\ text[s] = <<>>
    /\ pc[s] = "wait" => shown[s] \o queue[s] = text[s]
    /\ pc[s] = "store" =>
          \/ agent[s] = "finished" /\ shown[s] = text[s]
          \/ agent[s] = "cancelled" /\ shown[s] = Append(text[s], Note)

EchoInv == StreamTypes /\ \A s \in Streams : EchoAt(s)

LEMMA EchoInit == Init => EchoInv
<1>. SUFFICES ASSUME Init PROVE EchoInv  OBVIOUS
<1>1. <<>> \in Seq(Int)  OBVIOUS
<1>2. StreamTypes  BY <1>1 DEF Init, StreamTypes, PcStates, AgentStates
<1>3. \A s \in Streams : EchoAt(s)  BY DEF Init, EchoAt
<1>. QED  BY <1>2, <1>3 DEF EchoInv

(* A step of one stream keeps what is said of all of them if it keeps it of *)
(* that one.                                                                *)
LEMMA EchoOfOne ==
  ASSUME EchoInv, NEW s \in Streams,
         /\ pc' = [pc EXCEPT ![s] = pc'[s]] /\ pc'[s] \in PcStates
         /\ agent' = [agent EXCEPT ![s] = agent'[s]] /\ agent'[s] \in AgentStates
         /\ shown' = [shown EXCEPT ![s] = shown'[s]] /\ shown'[s] \in Seq(Int)
         /\ queue' = [queue EXCEPT ![s] = queue'[s]] /\ queue'[s] \in Seq(Int)
         /\ text' = [text EXCEPT ![s] = text'[s]] /\ text'[s] \in Seq(Int),
         EchoAt(s)'
  PROVE  EchoInv'
<1>1. StreamTypes'  BY DEF EchoInv, StreamTypes
<1>2. \A r \in Streams \ {s} : EchoAt(r)'
  BY DEF EchoInv, StreamTypes, EchoAt
<1>. QED  BY <1>1, <1>2 DEF EchoInv

LEMMA EchoStutter ==
  ASSUME EchoInv, UNCHANGED <<pc, agent, shown, queue, text>>
  PROVE  EchoInv'
BY DEF EchoInv, StreamTypes, EchoAt

(* A stream that is over, or left by its client, carries nothing. *)
LEMMA ReleaseEmpties ==
  ASSUME EchoInv, NEW s \in Streams, Release(s)
  PROVE  /\ shown' = [shown EXCEPT ![s] = shown'[s]] /\ shown'[s] = <<>>
         /\ queue' = [queue EXCEPT ![s] = queue'[s]] /\ queue'[s] = <<>>
         /\ text' = [text EXCEPT ![s] = text'[s]] /\ text'[s] = <<>>
BY DEF EchoInv, StreamTypes, Release

LEMMA EchoEnds ==
  ASSUME EchoInv, NEW s \in Streams, Ends(s)
  PROVE  EchoInv'
<1>1. /\ pc' = [pc EXCEPT ![s] = pc'[s]] /\ pc'[s] = "idle"
      /\ agent' = [agent EXCEPT ![s] = agent'[s]] /\ agent'[s] = "none"
  BY DEF EchoInv, StreamTypes, Ends
<1>2. <<>> \in Seq(Int) /\ "idle" \in PcStates /\ "none" \in AgentStates
  BY DEF PcStates, AgentStates
<1>3. EchoAt(s)'  BY <1>1, ReleaseEmpties DEF Ends, EchoAt
<1>. QED  BY <1>1, <1>2, <1>3, ReleaseEmpties, EchoOfOne DEF Ends

LEMMA EchoOpens ==
  ASSUME EchoInv, NEW s \in Streams, OpenQuery(s) \/ OpenRegenerate(s)
  PROVE  EchoInv'
<1>1. /\ pc[s] = "idle"
      /\ pc' = [pc EXCEPT ![s] = pc'[s]] /\ pc'[s] \in {"wait", "begin"}
      /\ agent' = [agent EXCEPT ![s] = agent'[s]] /\ agent'[s] \in {agent[s], "start"}
      /\ UNCHANGED <<shown, queue, text>>
  BY DEF EchoInv, StreamTypes, OpenQuery, OpenRegenerate, agentVars
<1>2. <<>> \o <<>> = <<>>  OBVIOUS
<1>3. shown[s] = <<>> /\ queue[s] = <<>> /\ text[s] = <<>>
  BY <1>1 DEF EchoInv, EchoAt
<1>4. EchoAt(s)'  BY <1>1, <1>2, <1>3 DEF EchoAt
<1>5. /\ pc'[s] \in PcStates /\ agent'[s] \in AgentStates
      /\ shown'[s] \in Seq(Int) /\ queue'[s] \in Seq(Int) /\ text'[s] \in Seq(Int)
      /\ shown' = [shown EXCEPT ![s] = shown'[s]]
      /\ queue' = [queue EXCEPT ![s] = queue'[s]]
      /\ text' = [text EXCEPT ![s] = text'[s]]
  BY <1>1 DEF EchoInv, StreamTypes, PcStates, AgentStates
<1>. QED  BY <1>1, <1>4, <1>5, EchoOfOne

(* The head of the queue goes to the client: nothing is lost in between. *)
LEMMA EchoForward ==
  ASSUME EchoInv, NEW s \in Streams, Forward(s)
  PROVE  EchoInv'
<1>1. /\ pc[s] = "wait" /\ queue[s] # <<>>
      /\ shown[s] \in Seq(Int) /\ queue[s] \in Seq(Int) /\ text[s] \in Seq(Int)
      /\ shown' = [shown EXCEPT ![s] = shown'[s]]
      /\ queue' = [queue EXCEPT ![s] = queue'[s]]
      /\ shown'[s] = Append(shown[s], Head(queue[s])) /\ queue'[s] = Tail(queue[s])
      /\ UNCHANGED <<pc, agent, text>>
  BY DEF EchoInv, StreamTypes, Forward
<1>2. Head(queue[s]) \in Int /\ Tail(queue[s]) \in Seq(Int)
  BY <1>1, HeadTailProperties
<1>4. shown'[s] \o queue'[s] = shown[s] \o queue[s]
  BY <1>1, TokensForwarded
<1>5. EchoAt(s)'  BY <1>1, <1>4 DEF EchoInv, EchoAt
<1>6. shown'[s] \in Seq(Int)  BY <1>1, <1>2, AppendProperties
<1>. QED  BY <1>1, <1>2, <1>5, <1>6, EchoOfOne DEF EchoInv, StreamTypes

LEMMA EchoJoin ==
  ASSUME EchoInv, NEW s \in Streams, Join(s)
  PROVE  EchoInv'
<1>1. CASE Ends(s)  BY <1>1, EchoEnds
<1>2. CASE ~Ends(s)
  <2>1. /\ pc[s] = "wait" /\ queue[s] = <<>>
        /\ pc' = [pc EXCEPT ![s] = pc'[s]] /\ pc'[s] = "store"
        /\ \/ agent[s] = "finished" /\ shown' = shown
           \/ /\ agent[s] = "cancelled"
              /\ shown' = [shown EXCEPT ![s] = Append(@, Note)]
        /\ UNCHANGED <<agent, queue, text>>
    BY <1>2 DEF EchoInv, StreamTypes, Join, Joined, agentVars
  <2>2. shown[s] = text[s] /\ shown[s] \in Seq(Int)
    <3>1. shown[s] \in Seq(Int)  BY DEF EchoInv, StreamTypes
    <3>2. shown[s] \o queue[s] = text[s]  BY <2>1 DEF EchoInv, EchoAt
    <3>3. shown[s] \o <<>> = shown[s]  BY <3>1, TokensNone
    <3>. QED  BY <2>1, <3>1, <3>2, <3>3
  <2>3. Append(shown[s], Note) \in Seq(Int)  BY <2>2, AppendProperties DEF Note
  <2>4. /\ shown'[s] \in Seq(Int)
        /\ shown' = [shown EXCEPT ![s] = shown'[s]]
    BY <2>1, <2>2, <2>3 DEF EchoInv, StreamTypes
  <2>5. EchoAt(s)'  BY <2>1, <2>2 DEF EchoAt, EchoInv, StreamTypes
  <2>. QED
    BY <2>1, <2>4, <2>5, EchoOfOne DEF EchoInv, StreamTypes, PcStates
<1>. QED  BY <1>1, <1>2

(* The states of the agent do not matter while the client waits. *)
LEMMA EchoAgent ==
  ASSUME EchoInv, NEW s \in Streams, UNCHANGED <<pc, shown, queue, text>>,
         agent' = [agent EXCEPT ![s] = agent'[s]], agent'[s] \in AgentStates,
         pc[s] # "store"
  PROVE  EchoInv'
<1>1. EchoAt(s)'  BY DEF EchoInv, EchoAt
<1>. QED  BY <1>1, EchoOfOne DEF EchoInv, StreamTypes

LEMMA EchoDriver ==
  ASSUME EchoInv, NEW s \in Streams,
         DriverStep(s) \/ Timeout(s) \/ Disconnect(s)
  PROVE  EchoInv'
<1>1. CASE Begin(s)
  <2>1. CASE Ends(s)  BY <2>1, EchoEnds
  <2>2. CASE ~Ends(s)
    <3>1. /\ pc[s] = "begin" /\ pc' = [pc EXCEPT ![s] = pc'[s]] /\ pc'[s] = "wait"
          /\ agent' = [agent EXCEPT ![s] = agent'[s]] /\ agent'[s] = "running"
          /\ UNCHANGED <<shown, queue, text>>
      BY <1>1, <2>2 DEF EchoInv, StreamTypes, Begin
    <3>2. shown[s] = <<>> /\ queue[s] = <<>> /\ text[s] = <<>>
      BY <3>1 DEF EchoInv, EchoAt
    <3>3. <<>> \in Seq(Int)  OBVIOUS
    <3>4. EchoAt(s)'  BY <3>1, <3>2, <3>3, TokensNone DEF EchoAt
    <3>. QED
      BY <3>1, <3>4, EchoOfOne DEF EchoInv, StreamTypes, PcStates, AgentStates
  <2>. QED  BY <2>1, <2>2
<1>2. CASE Forward(s)  BY <1>2, EchoForward
<1>3. CASE Join(s)  BY <1>3, EchoJoin
<1>4. CASE StoreTurn(s) \/ StoreAnswer(s) \/ StoreFails(s)
  BY <1>4, EchoEnds DEF StoreTurn, StoreAnswer, StoreFails
<1>5. CASE Timeout(s)
  <2>1. /\ UNCHANGED <<pc, shown, queue, text>> /\ pc[s] = "wait"
        /\ agent' = [agent EXCEPT ![s] = agent'[s]] /\ agent'[s] = "cancelled"
    BY <1>5 DEF EchoInv, StreamTypes, Timeout, driverVars
  <2>. QED  BY <2>1, EchoAgent DEF AgentStates
<1>6. CASE Disconnect(s)
  <2>1. CASE Ends(s)  BY <2>1, EchoEnds
  <2>2. CASE ~Ends(s)
    <3>1. /\ Release(s) /\ agent' = agent
          /\ pc' = [pc EXCEPT ![s] = pc'[s]] /\ pc'[s] = "gone"
      BY <1>6, <2>2 DEF EchoInv, StreamTypes, Disconnect
    <3>2. EchoAt(s)'  BY <3>1, ReleaseEmpties DEF EchoAt
    <3>3. <<>> \in Seq(Int) /\ "gone" \in PcStates  BY DEF PcStates
    <3>. QED  BY <3>1, <3>2, <3>3, ReleaseEmpties, EchoOfOne DEF EchoInv, StreamTypes
  <2>. QED  BY <2>1, <2>2
<1>. QED  BY <1>1, <1>2, <1>3, <1>4, <1>5, <1>6 DEF DriverStep

(* What the agent says is queued and added to the answer at once. *)
LEMMA EchoSay ==
  ASSUME EchoInv, NEW s \in Streams, Say(s)
  PROVE  EchoInv'
<1>. DEFINE token == Len(text[s]) + 1
<1>1. /\ pc[s] = "wait"
      /\ shown[s] \in Seq(Int) /\ queue[s] \in Seq(Int) /\ text[s] \in Seq(Int)
      /\ text' = [text EXCEPT ![s] = text'[s]] /\ text'[s] = Append(text[s], token)
      /\ queue' = [queue EXCEPT ![s] = queue'[s]] /\ queue'[s] = Append(queue[s], token)
      /\ UNCHANGED <<pc, agent, shown>>
  BY DEF EchoInv, StreamTypes, Say, driverVars
<1>2. token \in Int  BY <1>1, LenProperties
<1>3. text'[s] \in Seq(Int) /\ queue'[s] \in Seq(Int)
  BY <1>1, <1>2, AppendProperties
<1>4. shown[s] \o queue'[s] = text'[s]
  <2>1. shown[s] \o queue[s] = text[s]  BY <1>1 DEF EchoInv, EchoAt
  <2>2. shown[s] \o Append(queue[s], token) = Append(shown[s] \o queue[s], token)
    BY <1>1, <1>2, TokensAppended
  <2>. QED  BY <1>1, <2>1, <2>2
<1>5. EchoAt(s)'  BY <1>1, <1>4 DEF EchoAt
<1>. QED  BY <1>1, <1>3, <1>5, EchoOfOne DEF EchoInv, StreamTypes

LEMMA EchoAgentStep ==
  ASSUME EchoInv, NEW s \in Streams, AgentStep(s)
  PROVE  EchoInv'
<1>1. CASE ReadMemory(s) \/ ReadTurns(s) \/ Summarise(s) \/ SummaryFails(s) \/ AgentEnds(s)
  <2>1. /\ UNCHANGED <<pc, shown, queue, text>>
        /\ agent[s] \in {"start", "turns", "summary", "running"}
        /\ agent' = [agent EXCEPT ![s] = agent'[s]] /\ agent'[s] \in AgentStates
    BY <1>1 DEF EchoInv, StreamTypes, AgentStates, ReadMemory, ReadTurns, Summarise,
       SummaryFails, AgentEnds, Busy, driverVars
  <2>2. pc[s] # "store"  BY <2>1 DEF EchoInv, EchoAt
  <2>. QED  BY <2>1, <2>2, EchoAgent
<1>2. CASE Say(s)  BY <1>2, EchoSay
<1>3. CASE AskConfirmation(s)
  BY <1>3, EchoStutter DEF AskConfirmation, driverVars, agentVars
<1>4. CASE DetachedEnds(s)  BY <1>4, EchoEnds DEF DetachedEnds
<1>. QED  BY <1>1, <1>2, <1>3, <1>4 DEF AgentStep

LEMMA EchoCrash ==
  ASSUME EchoInv, Crash
  PROVE  EchoInv'
<1>1. <<>> \in Seq(Int)  OBVIOUS
<1>2. StreamTypes'  BY <1>1 DEF Crash, StreamTypes, PcStates, AgentStates
<1>3. \A s \in Streams : EchoAt(s)'  BY DEF Crash, EchoAt
<1>. QED  BY <1>2, <1>3 DEF EchoInv

(* Requests, deletions and time leave the streams alone. *)
LEMMA OthersLeaveTheStreams ==
  ASSUME \/ UNCHANGED vars \/ Expire \/ DeleteMessage \/ ClearSession
         \/ \E c \in Confirms :
               (\E yes \in BOOLEAN : Ask(c, yes)) \/ ConfirmStep(c) \/ LeaveConfirm(c)
  PROVE  UNCHANGED <<driverVars, agentVars>>
<1>1. CASE UNCHANGED vars \/ Expire \/ DeleteMessage \/ ClearSession
  BY <1>1 DEF vars, Expire, DeleteMessage, ClearSession
<1>2. ASSUME NEW c \in Confirms,
             (\E yes \in BOOLEAN : Ask(c, yes)) \/ ConfirmStep(c) \/ LeaveConfirm(c)
      PROVE  UNCHANGED <<driverVars, agentVars>>
  BY <1>2 DEF Ask, ConfirmStep, LeaveConfirm, Lock, Consume, Resolve, RunTool, AppendReceipt
<1>. QED  BY <1>1, <1>2

LEMMA EchoNext == EchoInv /\ [Next]_vars => EchoInv'
<1>. SUFFICES ASSUME EchoInv, [Next]_vars PROVE EchoInv'  OBVIOUS
<1>1. ASSUME NEW s \in Streams,
             OpenQuery(s) \/ OpenRegenerate(s) \/ DriverStep(s) \/ Timeout(s)
               \/ Disconnect(s) \/ AgentStep(s)
      PROVE  EchoInv'
  BY <1>1, EchoOpens, EchoDriver, EchoAgentStep
<1>2. CASE Crash  BY <1>2, EchoCrash
<1>3. CASE UNCHANGED <<driverVars, agentVars>>
  BY <1>3, EchoStutter DEF driverVars, agentVars
<1>. QED  BY <1>1, <1>2, <1>3, OthersLeaveTheStreams DEF Next

LEMMA EchoInvariant == Spec => []EchoInv
BY EchoInit, EchoNext, PTL DEF Spec
-----------------------------------------------------------------------------
(* The messages of the session.                                              *)

(* Identities come from the column, and grow along the session. *)
RowInv ==
    /\ lastId \in Nat
    /\ rows \in Seq(Row)
    /\ \A i \in 1..Len(rows) : rows[i].id <= lastId
    /\ \A i, j \in 1..Len(rows) : i < j => rows[i].id < rows[j].id

LEMMA RowInit == Init => RowInv
<1>. SUFFICES ASSUME Init PROVE RowInv  OBVIOUS
<1>1. Past \in Nat /\ 2 * Past \in Nat  BY ChatAssumption
<1>2. \A i \in 1..2 * Past :
         rows[i] \in Row /\ rows[i].id = i
  <2>1. <<>> \in Seq(Int) /\ <<1>> \in Seq(Int)  OBVIOUS
  <2>. QED  BY <1>1, <2>1 DEF Init, Row, Message
<1>3. rows \in [1..2 * Past -> Row]  BY <1>2 DEF Init
<1>4. rows \in Seq(Row) /\ Len(rows) = 2 * Past
  <2>1. rows \in Seq(Row)  BY <1>1, <1>3, SeqDef
  <2>2. DOMAIN rows = 1..2 * Past  BY <1>3
  <2>3. DOMAIN rows = 1..Len(rows) /\ Len(rows) \in Nat  BY <2>1, LenProperties
  <2>. QED  BY <1>1, <2>1, <2>2, <2>3
<1>5. lastId = 2 * Past  BY DEF Init
<1>6. /\ \A i \in 1..Len(rows) : rows[i].id <= lastId
      /\ \A i, j \in 1..Len(rows) : i < j => rows[i].id < rows[j].id
  BY <1>1, <1>2, <1>4, <1>5
<1>. QED  BY <1>1, <1>4, <1>5, <1>6 DEF RowInv

(* The text a stream stores is one. *)
LEMMA AnswerType ==
  ASSUME EchoInv, NEW s \in Streams
  PROVE  Answer(s) \in Seq(Int)
<1>1. text[s] \in Seq(Int) /\ Note \in Int  BY DEF EchoInv, StreamTypes, Note
<1>2. Append(text[s], Note) \in Seq(Int)  BY <1>1, AppendProperties
<1>3. <<Sorry>> \in Seq(Int)  BY DEF Sorry
<1>. QED  BY <1>1, <1>2, <1>3 DEF Answer

(* A turn or a receipt goes to the end, with new identities. *)
LEMMA RowsAppended ==
  ASSUME RowInv, NEW more \in Seq(Row), rows' = rows \o more,
         lastId' = lastId + Len(more),
         \A k \in 1..Len(more) : more[k].id = lastId + k
  PROVE  /\ RowInv'
         /\ Len(rows') = Len(rows) + Len(more)
         /\ \A i \in 1..Len(rows) : rows'[i] = rows[i]
         /\ \A k \in 1..Len(more) : rows'[Len(rows) + k] = more[k]
<1>1. Len(rows) \in Nat /\ Len(more) \in Nat  BY LenProperties DEF RowInv
<1>2. /\ rows' \in Seq(Row) /\ Len(rows') = Len(rows) + Len(more)
      /\ \A i \in 1..Len(rows) + Len(more) :
            rows'[i] = IF i <= Len(rows) THEN rows[i] ELSE more[i - Len(rows)]
  BY ConcatProperties DEF RowInv
<1>3. \A i \in 1..Len(rows) : rows'[i] = rows[i]  BY <1>1, <1>2
<1>4. \A k \in 1..Len(more) : rows'[Len(rows) + k] = more[k]
  BY <1>1, <1>2
<1>5. \A i \in 1..Len(rows') :
         \/ i \in 1..Len(rows)
         \/ \E k \in 1..Len(more) : i = Len(rows) + k
  <2>. TAKE i \in 1..Len(rows')
  <2>1. CASE i <= Len(rows)  BY <1>1, <1>2, <2>1
  <2>2. CASE i > Len(rows)
    <3>1. i - Len(rows) \in 1..Len(more) /\ i = Len(rows) + (i - Len(rows))
      BY <1>1, <1>2, <2>2
    <3>. QED  BY <3>1
  <2>. QED  BY <1>1, <1>2, <2>1, <2>2
<1>6. \A i \in 1..Len(rows') : rows'[i].id <= lastId'
  <2>. SUFFICES ASSUME NEW i \in 1..Len(rows') PROVE rows'[i].id <= lastId'  OBVIOUS
  <2>1. CASE i \in 1..Len(rows)
    <3>1. rows[i] \in Row /\ rows[i].id <= lastId  BY <2>1, ElementOfSeq DEF RowInv
    <3>. QED  BY <1>1, <1>3, <2>1, <3>1 DEF RowInv, Row
  <2>2. ASSUME NEW k \in 1..Len(more), i = Len(rows) + k PROVE rows'[i].id <= lastId'
    BY <1>1, <1>4, <2>2 DEF RowInv
  <2>. QED  BY <1>5, <2>1, <2>2
<1>7. ASSUME NEW i \in 1..Len(rows'), NEW j \in 1..Len(rows'), i < j
      PROVE  rows'[i].id < rows'[j].id
  <2>1. CASE j \in 1..Len(rows)
    <3>1. i \in 1..Len(rows)  BY <1>1, <1>7, <2>1
    <3>. QED  BY <1>3, <1>7, <2>1, <3>1 DEF RowInv
  <2>2. ASSUME NEW k \in 1..Len(more), j = Len(rows) + k
        PROVE  rows'[i].id < rows'[j].id
    <3>1. rows'[j].id = lastId + k  BY <1>4, <2>2
    <3>2. CASE i \in 1..Len(rows)
      <4>1. rows[i] \in Row /\ rows[i].id <= lastId  BY <3>2, ElementOfSeq DEF RowInv
      <4>2. rows[i].id \in Nat /\ lastId \in Nat /\ k \in Nat \ {0}
        BY <1>1, <4>1 DEF Row, RowInv
      <4>3. rows[i].id < lastId + k  BY <4>1, <4>2
      <4>. QED  BY <1>3, <3>1, <3>2, <4>3
    <3>3. ASSUME NEW m \in 1..Len(more), i = Len(rows) + m
          PROVE  rows'[i].id < rows'[j].id
      <4>1. rows'[i].id = lastId + m /\ m < k  BY <1>1, <1>4, <1>7, <2>2, <3>3
      <4>. QED  BY <1>1, <3>1, <4>1 DEF RowInv
    <3>. QED  BY <1>5, <3>2, <3>3
  <2>. QED  BY <1>5, <2>1, <2>2
<1>8. lastId' \in Nat  BY <1>1 DEF RowInv
<1>. QED  BY <1>2, <1>3, <1>4, <1>6, <1>7, <1>8 DEF RowInv

(* What is left of a sequence from which the elements from i to k are cut out. *)
LEMMA Cut ==
  ASSUME NEW S, NEW seq \in Seq(S), NEW i \in 1..Len(seq), NEW k \in i..Len(seq)
  PROVE  LET cut == SubSeq(seq, 1, i - 1) \o SubSeq(seq, k + 1, Len(seq))
         IN  /\ cut \in Seq(S) /\ Len(cut) = Len(seq) - (k - i + 1)
             /\ \A m \in 1..Len(seq) - (k - i + 1) :
                   cut[m] = IF m < i THEN seq[m] ELSE seq[m + (k - i + 1)]
<1>1. Len(seq) \in Nat /\ \A m \in 1..Len(seq) : seq[m] \in S
  BY LenProperties, ElementOfSeq
<1>0. i \in Nat \ {0} /\ k \in Nat /\ i <= k /\ k <= Len(seq)  BY <1>1
<1>. DEFINE front == SubSeq(seq, 1, i - 1)
            back == SubSeq(seq, k + 1, Len(seq))
<1>2. /\ front \in Seq(S) /\ Len(front) = i - 1
      /\ \A m \in 1..i - 1 : front[m] = seq[m]
  <2>1. /\ front \in Seq(S) /\ Len(front) = IF 1 <= i - 1 THEN (i - 1) - 1 + 1 ELSE 0
        /\ \A m \in 1..(i - 1) - 1 + 1 : front[m] = seq[1 + m - 1]
    BY <1>1, SubSeqProperties
  <2>. QED  BY <1>1, <2>1
<1>3. /\ back \in Seq(S) /\ Len(back) = Len(seq) - k
      /\ \A m \in 1..Len(seq) - k : back[m] = seq[k + m]
  <2>1. /\ back \in Seq(S)
        /\ Len(back) = IF k + 1 <= Len(seq) THEN Len(seq) - (k + 1) + 1 ELSE 0
        /\ \A m \in 1..Len(seq) - (k + 1) + 1 : back[m] = seq[k + 1 + m - 1]
    BY <1>1, SubSeqProperties
  <2>. QED  BY <1>1, <2>1
<1>. HIDE DEF front, back
<1>. DEFINE joined == front \o back
<1>4. /\ joined \in Seq(S) /\ Len(joined) = Len(front) + Len(back)
      /\ \A m \in 1..Len(front) + Len(back) :
            joined[m] = IF m <= Len(front) THEN front[m] ELSE back[m - Len(front)]
  BY <1>2, <1>3, ConcatProperties
<1>. HIDE DEF joined
<1>6. Len(joined) = Len(seq) - (k - i + 1)
  <2>1. (i - 1) + (Len(seq) - k) = Len(seq) - (k - i + 1)  BY <1>0, <1>1
  <2>. QED  BY <1>2, <1>3, <1>4, <2>1
<1>7. \A m \in 1..Len(seq) - (k - i + 1) :
         joined[m] = IF m < i THEN seq[m] ELSE seq[m + (k - i + 1)]
  <2>. SUFFICES ASSUME NEW m \in 1..Len(seq) - (k - i + 1)
                PROVE  joined[m] = IF m < i THEN seq[m] ELSE seq[m + (k - i + 1)]
    OBVIOUS
  <2>1. m \in Nat \ {0} /\ m <= Len(seq) - (k - i + 1)  BY <1>0
  <2>2. m \in 1..Len(front) + Len(back)  BY <1>0, <1>2, <1>3, <2>1
  <2>3. CASE m < i
    <3>1. m \in 1..i - 1 /\ m <= Len(front)  BY <1>0, <1>2, <2>1, <2>3
    <3>. QED  BY <1>2, <1>4, <2>2, <2>3, <3>1
  <2>4. CASE ~(m < i)
    <3>1. /\ m - (i - 1) \in 1..Len(seq) - k /\ ~(m <= Len(front))
          /\ k + (m - (i - 1)) = m + (k - i + 1)
      BY <1>0, <1>2, <2>1, <2>4
    <3>. QED  BY <1>3, <1>4, <1>2, <2>2, <2>4, <3>1
  <2>. QED  BY <2>3, <2>4
<1>. QED  BY <1>4, <1>6, <1>7 DEF joined, front, back

(* A deletion leaves what is before the first doomed message and behind the *)
(* last one.                                                                *)
LEMMA RowsDeleted ==
  ASSUME RowInv, NEW i \in 1..Len(rows), NEW k \in i..Len(rows),
         rows' = SubSeq(rows, 1, i - 1) \o SubSeq(rows, k + 1, Len(rows)),
         lastId' = lastId
  PROVE  /\ RowInv'
         /\ Len(rows') = Len(rows) - (k - i + 1)
         /\ \A m \in 1..Len(rows') :
               rows'[m] = IF m < i THEN rows[m] ELSE rows[m + (k - i + 1)]
<1>1. rows \in Seq(Row) /\ Len(rows) \in Nat  BY LenProperties DEF RowInv
<1>0. i \in Nat \ {0} /\ k \in Nat /\ i <= k /\ k <= Len(rows)  BY <1>1
<1>. DEFINE cut == SubSeq(rows, 1, i - 1) \o SubSeq(rows, k + 1, Len(rows))
<1>3. /\ cut \in Seq(Row) /\ Len(cut) = Len(rows) - (k - i + 1)
      /\ \A m \in 1..Len(rows) - (k - i + 1) :
            cut[m] = IF m < i THEN rows[m] ELSE rows[m + (k - i + 1)]
  BY <1>1, Cut, Zenon
<1>2. rows' = cut  OBVIOUS
<1>. HIDE DEF cut
<1>4. /\ rows' \in Seq(Row) /\ Len(rows') = Len(rows) - (k - i + 1)
      /\ \A m \in 1..Len(rows) - (k - i + 1) :
            rows'[m] = IF m < i THEN rows[m] ELSE rows[m + (k - i + 1)]
  BY <1>2, <1>3
<1>5. Len(rows') = Len(rows) - (k - i + 1)  BY <1>4
<1>6. \A m \in 1..Len(rows) - (k - i + 1) :
         rows'[m] = IF m < i THEN rows[m] ELSE rows[m + (k - i + 1)]
  BY <1>4
<1>7. \A m \in 1..Len(rows) - (k - i + 1) : \E n \in 1..Len(rows) :
         /\ rows'[m] = rows[n]
         /\ n = IF m < i THEN m ELSE m + (k - i + 1)
  <2>. SUFFICES ASSUME NEW m \in 1..Len(rows) - (k - i + 1)
                PROVE  \E n \in 1..Len(rows) : /\ rows'[m] = rows[n]
                                              /\ n = IF m < i THEN m ELSE m + (k - i + 1)
    OBVIOUS
  <2>0. m \in Nat \ {0} /\ m <= Len(rows) - (k - i + 1)
    BY <1>0, <1>1
  <2>1. CASE m < i
    <3>1. m \in 1..Len(rows)  BY <1>0, <1>1, <2>0, <2>1
    <3>. QED  BY <1>6, <2>1, <3>1
  <2>2. CASE ~(m < i)
    <3>1. m + (k - i + 1) \in 1..Len(rows)  BY <1>0, <1>1, <2>0, <2>2
    <3>. QED  BY <1>6, <2>2, <3>1
  <2>. QED  BY <2>1, <2>2
<1>8. \A m \in 1..Len(rows) - (k - i + 1) : rows'[m].id <= lastId'
  BY <1>7 DEF RowInv
<1>9. ASSUME NEW m \in 1..Len(rows) - (k - i + 1), NEW n \in 1..Len(rows) - (k - i + 1), m < n
      PROVE  rows'[m].id < rows'[n].id
  <2>0. m \in Nat /\ n \in Nat  BY <1>0, <1>1
  <2>1. PICK p \in 1..Len(rows) : /\ rows'[m] = rows[p]
                                  /\ p = IF m < i THEN m ELSE m + (k - i + 1)
    BY <1>7
  <2>2. PICK q \in 1..Len(rows) : /\ rows'[n] = rows[q]
                                  /\ q = IF n < i THEN n ELSE n + (k - i + 1)
    BY <1>7
  <2>3. p < q  BY <1>0, <1>9, <2>0, <2>1, <2>2
  <2>. QED  BY <2>1, <2>2, <2>3 DEF RowInv
<1>. QED  BY <1>4, <1>5, <1>6, <1>8, <1>9 DEF RowInv

(* Another regeneration of an answer changes its text and nothing else. *)
LEMMA RowsReplaced ==
  ASSUME RowInv, NEW i \in 1..Len(rows), NEW words \in Seq(Int), NEW s \in Streams,
         rows' = [rows EXCEPT ![i].text = words, ![i].by = s], lastId' = lastId
  PROVE  /\ RowInv' /\ Len(rows') = Len(rows)
         /\ \A j \in 1..Len(rows) : /\ rows'[j].id = rows[j].id
                                    /\ rows'[j].role = rows[j].role
                                    /\ j # i => rows'[j] = rows[j]
         /\ rows'[i].text = words /\ rows'[i].by = s
<1>1. rows[i] \in Row /\ rows \in [1..Len(rows) -> Row] /\ Len(rows) \in Nat
  BY ElementOfSeq, LenProperties DEF RowInv
<1>. DEFINE new == [rows[i] EXCEPT !.text = words, !.by = s]
<1>2. /\ new \in Row /\ new.id = rows[i].id /\ new.role = rows[i].role
      /\ new.text = words /\ new.by = s
  BY <1>1 DEF Row
<1>3. rows' = [rows EXCEPT ![i] = new]  BY <1>1
<1>. HIDE DEF new
<1>4. /\ rows' \in Seq(Row) /\ Len(rows') = Len(rows)
      /\ \A j \in 1..Len(rows) : rows'[j] = IF j = i THEN new ELSE rows[j]
  <2>1. /\ [rows EXCEPT ![i] = new] \in Seq(Row)
        /\ Len([rows EXCEPT ![i] = new]) = Len(rows)
        /\ \A j \in 1..Len(rows) :
              [rows EXCEPT ![i] = new][j] = IF j = i THEN new ELSE rows[j]
    BY <1>2, ExceptSeq DEF RowInv
  <2>. QED  BY <1>3, <2>1
<1>5. \A j \in 1..Len(rows) : /\ rows'[j].id = rows[j].id
                              /\ rows'[j].role = rows[j].role
                              /\ j # i => rows'[j] = rows[j]
  BY <1>2, <1>4
<1>6. /\ \A j \in 1..Len(rows) : rows'[j].id <= lastId'
      /\ \A j, k \in 1..Len(rows) : j < k => rows'[j].id < rows'[k].id
  BY <1>5 DEF RowInv
<1>. QED  BY <1>2, <1>4, <1>5, <1>6 DEF RowInv

(* The steps that touch the messages. *)
RowStep ==
    \/ \E s \in Streams : StoreTurn(s) \/ StoreAnswer(s)
    \/ \E c \in Confirms : AppendReceipt(c)
    \/ DeleteMessage \/ ClearSession

LEMMA OthersLeaveTheRows == [Next]_vars => RowStep \/ UNCHANGED <<rows, lastId>>
<1>. SUFFICES ASSUME [Next]_vars PROVE RowStep \/ UNCHANGED <<rows, lastId>>  OBVIOUS
<1>1. CASE UNCHANGED vars  BY <1>1 DEF vars, rowVars
<1>2. ASSUME NEW s \in Streams, OpenQuery(s) \/ OpenRegenerate(s) \/ Timeout(s) \/ Disconnect(s)
      PROVE  UNCHANGED <<rows, lastId>>
  BY <1>2 DEF OpenQuery, OpenRegenerate, Timeout, Disconnect, rowVars
<1>3. ASSUME NEW s \in Streams, DriverStep(s)
      PROVE  RowStep \/ UNCHANGED <<rows, lastId>>
  BY <1>3 DEF DriverStep, Begin, Forward, Join, Joined, StoreFails, RowStep, rowVars
<1>4. ASSUME NEW s \in Streams, AgentStep(s) PROVE UNCHANGED <<rows, lastId>>
  BY <1>4 DEF AgentStep, ReadMemory, ReadTurns, Summarise, SummaryFails, Say,
     AskConfirmation, AgentEnds, DetachedEnds, rowVars
<1>5. ASSUME NEW c \in Confirms,
             (\E yes \in BOOLEAN : Ask(c, yes)) \/ ConfirmStep(c) \/ LeaveConfirm(c)
      PROVE  RowStep \/ UNCHANGED <<rows, lastId>>
  BY <1>5 DEF Ask, ConfirmStep, LeaveConfirm, Lock, Consume, Resolve, RunTool, RowStep, rowVars
<1>6. CASE DeleteMessage \/ ClearSession  BY <1>6 DEF RowStep
<1>7. CASE Expire \/ Crash  BY <1>7 DEF Expire, Crash, rowVars
<1>. QED  BY <1>1, <1>2, <1>3, <1>4, <1>5, <1>6, <1>7 DEF Next

LEMMA TurnType ==
  ASSUME EchoInv, RowInv, NEW s \in Streams
  PROVE  /\ TurnOf(s) \in Seq(Row) /\ Len(TurnOf(s)) = 2
         /\ TurnOf(s)[1] = Message(lastId + 1, "user", s, <<>>)
         /\ TurnOf(s)[2] = Message(lastId + 2, "assistant", s, Answer(s))
<1>1. /\ Message(lastId + 1, "user", s, <<>>) \in Row
      /\ Message(lastId + 2, "assistant", s, Answer(s)) \in Row
  <2>1. lastId + 1 \in Nat \ {0} /\ lastId + 2 \in Nat \ {0}  BY DEF RowInv
  <2>2. <<>> \in Seq(Int) /\ Answer(s) \in Seq(Int)  BY AnswerType
  <2>. QED  BY <2>1, <2>2 DEF Message, Row
<1>. QED  BY <1>1 DEF TurnOf

LEMMA StoreTurnRows ==
  ASSUME EchoInv, RowInv, NEW s \in Streams, StoreTurn(s)
  PROVE  /\ RowInv' /\ lastId' = lastId + 2
         /\ Len(rows') = Len(rows) + 2
         /\ \A i \in 1..Len(rows) : rows'[i] = rows[i]
         /\ rows'[Len(rows) + 1] = Message(lastId + 1, "user", s, <<>>)
         /\ rows'[Len(rows) + 2] = Message(lastId + 2, "assistant", s, Answer(s))
<1>. DEFINE more == TurnOf(s)
<1>1. /\ more \in Seq(Row) /\ Len(more) = 2
      /\ more[1] = Message(lastId + 1, "user", s, <<>>)
      /\ more[2] = Message(lastId + 2, "assistant", s, Answer(s))
  BY TurnType
<1>2. rows' = rows \o more /\ lastId' = lastId + 2  BY DEF StoreTurn
<1>. HIDE DEF more
<1>3. \A k \in 1..Len(more) : more[k].id = lastId + k
  <2>1. \A k \in 1..2 : k = 1 \/ k = 2  OBVIOUS
  <2>. QED  BY <1>1, <2>1 DEF Message
<1>4. lastId' = lastId + Len(more)  BY <1>1, <1>2
<1>5. /\ RowInv' /\ Len(rows') = Len(rows) + Len(more)
      /\ \A i \in 1..Len(rows) : rows'[i] = rows[i]
      /\ \A k \in 1..Len(more) : rows'[Len(rows) + k] = more[k]
  BY <1>1, <1>2, <1>3, <1>4, RowsAppended
<1>6. 1 \in 1..Len(more) /\ 2 \in 1..Len(more)  BY <1>1
<1>. QED  BY <1>1, <1>2, <1>5, <1>6

LEMMA AppendReceiptRows ==
  ASSUME RowInv, NEW c \in Confirms, AppendReceipt(c)
  PROVE  \/ UNCHANGED <<rows, lastId>>
         \/ /\ RowInv' /\ lastId' = lastId + 1
            /\ Len(rows') = Len(rows) + 1
            /\ \A i \in 1..Len(rows) : rows'[i] = rows[i]
            /\ rows'[Len(rows) + 1] = Message(lastId + 1, "assistant", c, <<Receipt>>)
<1>. SUFFICES ASSUME ~UNCHANGED <<rows, lastId>>
              PROVE  /\ RowInv' /\ lastId' = lastId + 1
                     /\ Len(rows') = Len(rows) + 1
                     /\ \A i \in 1..Len(rows) : rows'[i] = rows[i]
                     /\ rows'[Len(rows) + 1]
                          = Message(lastId + 1, "assistant", c, <<Receipt>>)
  OBVIOUS
<1>. DEFINE new == Message(lastId + 1, "assistant", c, <<Receipt>>)
            more == <<new>>
<1>1. new \in Row /\ new.id = lastId + 1
  <2>1. lastId + 1 \in Nat \ {0} /\ <<Receipt>> \in Seq(Int)  BY DEF RowInv, Receipt
  <2>. QED  BY <2>1 DEF Message, Row
<1>2. rows' = Append(rows, new) /\ lastId' = lastId + 1  BY DEF AppendReceipt
<1>. HIDE DEF new
<1>3. more \in Seq(Row) /\ Len(more) = 1 /\ more[1] = new  BY <1>1
<1>4. rows' = rows \o more  BY <1>1, <1>2, AppendIsConcat DEF RowInv
<1>. HIDE DEF more
<1>5. \A k \in 1..Len(more) : more[k].id = lastId + k
  <2>1. \A k \in 1..1 : k = 1  OBVIOUS
  <2>. QED  BY <1>1, <1>3, <2>1
<1>6. lastId' = lastId + Len(more)  BY <1>2, <1>3
<1>7. /\ RowInv' /\ Len(rows') = Len(rows) + Len(more)
      /\ \A i \in 1..Len(rows) : rows'[i] = rows[i]
      /\ \A k \in 1..Len(more) : rows'[Len(rows) + k] = more[k]
  BY <1>3, <1>4, <1>5, <1>6, RowsAppended
<1>8. 1 \in 1..Len(more)  BY <1>3
<1>. QED  BY <1>2, <1>3, <1>7, <1>8 DEF new

LEMMA DeleteMessageRows ==
  ASSUME RowInv, DeleteMessage
  PROVE  /\ RowInv' /\ lastId' = lastId
         /\ \E i \in 1..Len(rows) : \E k \in i..Len(rows) :
               /\ Len(rows') = Len(rows) - (k - i + 1)
               /\ \A m \in 1..Len(rows') :
                     rows'[m] = IF m < i THEN rows[m] ELSE rows[m + (k - i + 1)]
<1>1. rows \in Seq(Row) /\ Len(rows) \in Nat /\ DOMAIN rows = 1..Len(rows)
  BY LenProperties DEF RowInv
<1>2. PICK i \in 1..Len(rows), mode \in {"single", "pair", "after"} :
         rows' = SubSeq(rows, 1, i - 1) \o SubSeq(rows, LastDoomed(i, mode) + 1, Len(rows))
  BY <1>1 DEF DeleteMessage
<1>. DEFINE k == LastDoomed(i, mode)
<1>3. k \in i..Len(rows)  BY <1>1 DEF LastDoomed
<1>4. lastId' = lastId  BY DEF DeleteMessage
<1>5. rows' = SubSeq(rows, 1, i - 1) \o SubSeq(rows, k + 1, Len(rows))  BY <1>2
<1>. HIDE DEF k
<1>. QED  BY <1>3, <1>4, <1>5, RowsDeleted

LEMMA RowNext == EchoInv /\ RowInv /\ [Next]_vars => RowInv'
<1>. SUFFICES ASSUME EchoInv, RowInv, [Next]_vars PROVE RowInv'  OBVIOUS
<1>1. CASE UNCHANGED <<rows, lastId>>  BY <1>1 DEF RowInv
<1>2. ASSUME NEW s \in Streams, StoreTurn(s) PROVE RowInv'  BY <1>2, StoreTurnRows
<1>3. ASSUME NEW s \in Streams, StoreAnswer(s) PROVE RowInv'
  <2>1. PICK i \in 1..Len(rows) :
           /\ rows' = [rows EXCEPT ![i].text = Answer(s), ![i].by = s]
           /\ lastId' = lastId
    BY <1>3 DEF StoreAnswer
  <2>. QED  BY <2>1, AnswerType, RowsReplaced
<1>4. ASSUME NEW c \in Confirms, AppendReceipt(c) PROVE RowInv'
  BY <1>1, <1>4, AppendReceiptRows
<1>5. CASE DeleteMessage  BY <1>5, DeleteMessageRows
<1>6. CASE ClearSession
  <2>1. rows' = <<>> /\ lastId' = lastId  BY <1>6 DEF ClearSession
  <2>. QED  BY <2>1 DEF RowInv
<1>. QED  BY <1>1, <1>2, <1>3, <1>4, <1>5, <1>6, OthersLeaveTheRows DEF RowStep

LEMMA RowInvariant == Spec => []RowInv
BY RowInit, RowNext, EchoInvariant, PTL DEF Spec

(* A message of the next state is an old one or one of those just stored. *)
LEMMA StoredBy ==
  ASSUME EchoInv, RowInv, [Next]_vars,
         NEW r \in Range(rows'), r \notin Range(rows),
         NEW s \in Streams, r.by = s, r.role = "assistant"
  PROVE  pc[s] = "store" /\ r.text = Answer(s)
<1>0. /\ rows \in Seq(Row) /\ Len(rows) \in Nat /\ DOMAIN rows = 1..Len(rows)
      /\ \A i \in 1..Len(rows) : rows[i] \in Range(rows)
  BY LenProperties DEF RowInv, Range
<1>1. RowInv'  BY RowNext
<1>2. PICK n \in 1..Len(rows') : r = rows'[n]
  <2>1. DOMAIN rows' = 1..Len(rows')  BY <1>1, LenProperties DEF RowInv
  <2>. QED  BY <2>1 DEF Range
<1>3. ~UNCHANGED <<rows, lastId>>  OBVIOUS
<1>4. ASSUME NEW t \in Streams, StoreTurn(t)
      PROVE  pc[s] = "store" /\ r.text = Answer(s)
  <2>1. /\ Len(rows') = Len(rows) + 2
        /\ \A i \in 1..Len(rows) : rows'[i] = rows[i]
        /\ rows'[Len(rows) + 1] = Message(lastId + 1, "user", t, <<>>)
        /\ rows'[Len(rows) + 2] = Message(lastId + 2, "assistant", t, Answer(t))
    BY <1>4, StoreTurnRows
  <2>2. n \notin 1..Len(rows)  BY <1>0, <1>2, <2>1
  <2>3. n = Len(rows) + 1 \/ n = Len(rows) + 2  BY <1>0, <2>1, <2>2
  <2>4. r = Message(lastId + 2, "assistant", t, Answer(t))
    BY <1>2, <2>1, <2>3 DEF Message
  <2>. QED  BY <1>4, <2>4 DEF Message, StoreTurn
<1>5. ASSUME NEW t \in Streams, StoreAnswer(t)
      PROVE  pc[s] = "store" /\ r.text = Answer(s)
  <2>1. PICK i \in 1..Len(rows) :
           /\ pc[t] = "store"
           /\ rows' = [rows EXCEPT ![i].text = Answer(t), ![i].by = t]
           /\ lastId' = lastId
    BY <1>5 DEF StoreAnswer
  <2>2. /\ Len(rows') = Len(rows)
        /\ \A j \in 1..Len(rows) : j # i => rows'[j] = rows[j]
        /\ rows'[i].text = Answer(t) /\ rows'[i].by = t
    BY <2>1, AnswerType, RowsReplaced
  <2>3. n = i  BY <1>0, <1>2, <2>2
  <2>. QED  BY <1>2, <2>1, <2>2, <2>3
<1>6. ASSUME NEW c \in Confirms, AppendReceipt(c) PROVE FALSE
  <2>1. /\ Len(rows') = Len(rows) + 1
        /\ \A i \in 1..Len(rows) : rows'[i] = rows[i]
        /\ rows'[Len(rows) + 1] = Message(lastId + 1, "assistant", c, <<Receipt>>)
    BY <1>3, <1>6, AppendReceiptRows
  <2>2. n \notin 1..Len(rows)  BY <1>0, <1>2, <2>1
  <2>3. r.by = c  BY <1>0, <1>2, <2>1, <2>2 DEF Message
  <2>. QED  BY <2>3, ChatAssumption
<1>7. ASSUME DeleteMessage PROVE FALSE
  <2>0. PICK i \in 1..Len(rows) : \E k \in i..Len(rows) :
           /\ Len(rows') = Len(rows) - (k - i + 1)
           /\ \A m \in 1..Len(rows') :
                 rows'[m] = IF m < i THEN rows[m] ELSE rows[m + (k - i + 1)]
    BY <1>7, DeleteMessageRows
  <2>1. PICK k \in i..Len(rows) :
           /\ Len(rows') = Len(rows) - (k - i + 1)
           /\ \A m \in 1..Len(rows') :
                 rows'[m] = IF m < i THEN rows[m] ELSE rows[m + (k - i + 1)]
    BY <2>0
  <2>. DEFINE at == IF n < i THEN n ELSE n + (k - i + 1)
  <2>2. /\ i \in Nat \ {0} /\ k \in Nat /\ i <= k /\ k <= Len(rows)
        /\ n \in Nat \ {0} /\ n <= Len(rows) - (k - i + 1)
    <3>1. Len(rows') \in Nat  BY <1>1, LenProperties DEF RowInv
    <3>2. n \in Nat \ {0} /\ n <= Len(rows')  BY <3>1
    <3>. QED  BY <1>0, <2>1, <3>2
  <2>3. at \in 1..Len(rows)  BY <1>0, <2>2
  <2>4. r = rows[at]  BY <1>2, <2>1
  <2>. QED  BY <1>0, <2>3, <2>4
<1>8. ASSUME ClearSession PROVE FALSE
  <2>1. rows' = <<>>  BY <1>8 DEF ClearSession
  <2>. QED  BY <2>1 DEF Range
<1>. QED
  BY <1>3, <1>4, <1>5, <1>6, <1>7, <1>8, OthersLeaveTheRows DEF RowStep

(* Whatever the interleaving of tokens, time limit, disconnect, deletions and *)
(* other streams, the answer that is stored is what the client was shown,     *)
(* except for the apology of an agent that said nothing (drive_sse_stream).   *)
THEOREM StoredIsShownHolds == Spec => StoredIsShown
<1>. DEFINE Kept ==
        \A r \in Range(rows') : \A s \in Streams :
            r \notin Range(rows) /\ r.by = s /\ r.role = "assistant"
              => r.text = shown[s] \/ (shown[s] = <<>> /\ r.text = <<Sorry>>)
<1>1. EchoInv /\ RowInv /\ [Next]_vars => [Kept]_vars
  <2>. SUFFICES ASSUME EchoInv, RowInv, [Next]_vars,
                       NEW r \in Range(rows'), NEW s \in Streams,
                       r \notin Range(rows), r.by = s, r.role = "assistant"
                PROVE  r.text = shown[s] \/ (shown[s] = <<>> /\ r.text = <<Sorry>>)
    OBVIOUS
  <2>1. pc[s] = "store" /\ r.text = Answer(s)  BY StoredBy
  <2>2. \/ agent[s] = "finished" /\ shown[s] = text[s]
        \/ agent[s] = "cancelled" /\ shown[s] = Append(text[s], Note)
    BY <2>1 DEF EchoInv, EchoAt
  <2>. QED  BY <2>1, <2>2 DEF Answer
<1>. QED  BY <1>1, EchoInvariant, RowInvariant, PTL DEF Spec, StoredIsShown
-----------------------------------------------------------------------------
(* The summaries.                                                            *)

(* A summary reaches no further than the identities given so far, and covers *)
(* every answer up to its boundary.                                          *)
Complete(summary) ==
    /\ summary.upTo <= lastId
    /\ \A a \in Answers : a <= summary.upTo => a \in summary.of

SummaryInv ==
    /\ memory \in Summary /\ Complete(memory)
    /\ context \in [Streams -> Summary] /\ \A s \in Streams : Complete(context[s])

(* The rows that make an answer. *)
LEMMA AnswerRows ==
  ASSUME RowInv, NEW a
  PROVE  a \in Answers <=>
           \E i \in 2..Len(rows) :
              /\ rows[i].id = a /\ rows[i].role = "assistant"
              /\ rows[i - 1].role = "user" /\ rows[i - 1].id = rows[i].id - 1
BY DEF Answers

LEMMA AnswersAreKnown ==
  ASSUME RowInv
  PROVE  \A a \in Answers : a \in Nat \ {0} /\ a <= lastId
<1>1. \A i \in 1..Len(rows) : rows[i] \in Row  BY ElementOfSeq DEF RowInv
<1>2. Len(rows) \in Nat  BY LenProperties DEF RowInv
<1>3. \A i \in 2..Len(rows) : i \in 1..Len(rows)  BY <1>2
<1>. SUFFICES ASSUME NEW a \in Answers PROVE a \in Nat \ {0} /\ a <= lastId
  OBVIOUS
<1>4. PICK i \in 2..Len(rows) : rows[i].id = a  BY AnswerRows
<1>5. rows[i] \in Row /\ rows[i].id <= lastId  BY <1>1, <1>3 DEF RowInv
<1>. QED  BY <1>4, <1>5 DEF Row

(* No summary reaches an answer that is new. *)
LEMMA NewAnswersAreBeyond ==
  ASSUME EchoInv, RowInv, [Next]_vars
  PROVE  /\ lastId' \in Nat /\ lastId <= lastId'
         /\ \A a \in Answers' : a \in Nat \ {0}
         /\ \A a \in Answers' : a \in Answers \/ a > lastId
<1>0. Len(rows) \in Nat /\ lastId \in Nat /\ \A i \in 1..Len(rows) : rows[i] \in Row
  BY LenProperties, ElementOfSeq DEF RowInv
<1>1. RowInv'  BY RowNext
<1>2. /\ Len(rows') \in Nat /\ lastId' \in Nat /\ \A i \in 1..Len(rows') : rows'[i] \in Row
  BY <1>1, LenProperties, ElementOfSeq DEF RowInv
<1>3. ASSUME NEW a \in Answers'
      PROVE  \E i \in 2..Len(rows') :
                /\ rows'[i].id = a /\ rows'[i].role = "assistant"
                /\ rows'[i - 1].role = "user" /\ rows'[i - 1].id = rows'[i].id - 1
  BY <1>3 DEF Answers
<1>4. ASSUME UNCHANGED <<rows, lastId>>
      PROVE  lastId <= lastId' /\ \A a \in Answers' : a \in Answers \/ a > lastId
  BY <1>0, <1>4 DEF Answers
<1>5. ASSUME NEW more \in Nat, Len(rows') = Len(rows) + more,
             lastId <= lastId',
             \A i \in 1..Len(rows) : rows'[i] = rows[i],
             \A k \in 1..more : rows'[Len(rows) + k].id > lastId
      PROVE  /\ lastId <= lastId'
             /\ \A a \in Answers' : a \in Answers \/ a > lastId
  <2>. SUFFICES ASSUME NEW a \in Answers' PROVE a \in Answers \/ a > lastId
    BY <1>5
  <2>1. PICK i \in 2..Len(rows') :
           /\ rows'[i].id = a /\ rows'[i].role = "assistant"
           /\ rows'[i - 1].role = "user" /\ rows'[i - 1].id = rows'[i].id - 1
    BY <1>3
  <2>2. CASE i <= Len(rows)
    <3>1. i \in 1..Len(rows) /\ i - 1 \in 1..Len(rows) /\ i \in 2..Len(rows)
      BY <1>0, <1>2, <2>2
    <3>. QED  BY <1>5, <2>1, <3>1, AnswerRows
  <2>3. CASE i > Len(rows)
    <3>1. i - Len(rows) \in 1..more /\ i = Len(rows) + (i - Len(rows))
      BY <1>0, <1>2, <1>5, <2>3
    <3>. QED  BY <1>5, <2>1, <3>1
  <2>. QED  BY <1>0, <1>2, <2>2, <2>3
<1>6. ASSUME NEW s \in Streams, StoreTurn(s)
      PROVE  lastId <= lastId' /\ \A a \in Answers' : a \in Answers \/ a > lastId
  <2>1. /\ lastId' = lastId + 2 /\ Len(rows') = Len(rows) + 2
        /\ \A i \in 1..Len(rows) : rows'[i] = rows[i]
        /\ rows'[Len(rows) + 1] = Message(lastId + 1, "user", s, <<>>)
        /\ rows'[Len(rows) + 2] = Message(lastId + 2, "assistant", s, Answer(s))
    BY <1>6, StoreTurnRows
  <2>2. \A k \in 1..2 : rows'[Len(rows) + k].id > lastId
    <3>1. \A k \in 1..2 : k = 1 \/ k = 2  OBVIOUS
    <3>2. rows'[Len(rows) + 1].id = lastId + 1 /\ rows'[Len(rows) + 2].id = lastId + 2
      BY <2>1 DEF Message
    <3>. QED  BY <1>0, <3>1, <3>2
  <2>3. lastId <= lastId'  BY <1>0, <2>1
  <2>. QED  BY <1>5, <2>1, <2>2, <2>3
<1>7. ASSUME NEW s \in Streams, StoreAnswer(s)
      PROVE  lastId <= lastId' /\ \A a \in Answers' : a \in Answers \/ a > lastId
  <2>1. PICK j \in 1..Len(rows) :
           /\ rows' = [rows EXCEPT ![j].text = Answer(s), ![j].by = s]
           /\ lastId' = lastId
    BY <1>7 DEF StoreAnswer
  <2>2. /\ Len(rows') = Len(rows)
        /\ \A i \in 1..Len(rows) : rows'[i].id = rows[i].id /\ rows'[i].role = rows[i].role
    BY <2>1, AnswerType, RowsReplaced
  <2>3. ASSUME NEW a \in Answers' PROVE a \in Answers
    <3>1. PICK i \in 2..Len(rows') :
             /\ rows'[i].id = a /\ rows'[i].role = "assistant"
             /\ rows'[i - 1].role = "user" /\ rows'[i - 1].id = rows'[i].id - 1
      BY <1>3, <2>3
    <3>2. i \in 1..Len(rows) /\ i - 1 \in 1..Len(rows) /\ i \in 2..Len(rows)
      BY <1>0, <2>2
    <3>. QED  BY <2>2, <3>1, <3>2, AnswerRows
  <2>. QED  BY <1>0, <2>1, <2>3
<1>8. ASSUME NEW c \in Confirms, AppendReceipt(c), ~UNCHANGED <<rows, lastId>>
      PROVE  lastId <= lastId' /\ \A a \in Answers' : a \in Answers \/ a > lastId
  <2>1. /\ lastId' = lastId + 1 /\ Len(rows') = Len(rows) + 1
        /\ \A i \in 1..Len(rows) : rows'[i] = rows[i]
        /\ rows'[Len(rows) + 1] = Message(lastId + 1, "assistant", c, <<Receipt>>)
    BY <1>8, AppendReceiptRows
  <2>2. \A k \in 1..1 : rows'[Len(rows) + k].id > lastId
    <3>1. \A k \in 1..1 : k = 1  OBVIOUS
    <3>2. rows'[Len(rows) + 1].id = lastId + 1  BY <2>1 DEF Message
    <3>. QED  BY <1>0, <3>1, <3>2
  <2>3. lastId <= lastId'  BY <1>0, <2>1
  <2>. QED  BY <1>5, <2>1, <2>2, <2>3
<1>9. ASSUME DeleteMessage
      PROVE  lastId <= lastId' /\ \A a \in Answers' : a \in Answers \/ a > lastId
  <2>1. lastId' = lastId  BY <1>9, DeleteMessageRows
  <2>2. PICK i \in 1..Len(rows) : \E k \in i..Len(rows) :
           /\ Len(rows') = Len(rows) - (k - i + 1)
           /\ \A m \in 1..Len(rows') :
                 rows'[m] = IF m < i THEN rows[m] ELSE rows[m + (k - i + 1)]
    BY <1>9, DeleteMessageRows
  <2>3. PICK k \in i..Len(rows) :
           /\ Len(rows') = Len(rows) - (k - i + 1)
           /\ \A m \in 1..Len(rows') :
                 rows'[m] = IF m < i THEN rows[m] ELSE rows[m + (k - i + 1)]
    BY <2>2
  <2>4. i \in Nat \ {0} /\ k \in Nat /\ i <= k /\ k <= Len(rows)  BY <1>0
  <2>5. ASSUME NEW a \in Answers' PROVE a \in Answers
    <3>1. PICK m \in 2..Len(rows') :
             /\ rows'[m].id = a /\ rows'[m].role = "assistant"
             /\ rows'[m - 1].role = "user" /\ rows'[m - 1].id = rows'[m].id - 1
      BY <1>3, <2>5
    <3>2. /\ m \in Nat /\ 2 <= m /\ m <= Len(rows) - (k - i + 1)
          /\ m \in 1..Len(rows') /\ m - 1 \in 1..Len(rows')
      BY <1>2, <2>3
    <3>3. CASE m < i
      <4>1. rows'[m] = rows[m] /\ rows'[m - 1] = rows[m - 1]
        BY <2>3, <2>4, <3>2, <3>3
      <4>2. m \in 2..Len(rows)  BY <1>0, <2>4, <3>2, <3>3
      <4>. QED  BY <3>1, <4>1, <4>2, AnswerRows
    <3>4. CASE m > i
      <4>. DEFINE n == m + (k - i + 1)
      <4>1. rows'[m] = rows[n] /\ rows'[m - 1] = rows[(m - 1) + (k - i + 1)]
        BY <2>3, <2>4, <3>2, <3>4
      <4>2. n \in 2..Len(rows) /\ (m - 1) + (k - i + 1) = n - 1
        BY <1>0, <2>4, <3>2, <3>4
      <4>. HIDE DEF n
      <4>. QED  BY <3>1, <4>1, <4>2, AnswerRows
    <3>5. CASE m = i      \* what was deleted lies between the two
      <4>. DEFINE n == m + (k - i + 1)
      <4>1. rows'[m] = rows[n] /\ rows'[m - 1] = rows[m - 1]
        BY <2>3, <2>4, <3>2, <3>5
      <4>2. n \in 1..Len(rows) /\ m \in 1..Len(rows) /\ m - 1 \in 1..Len(rows)
            /\ m - 1 < m /\ m < n
        BY <1>0, <2>4, <3>2, <3>5
      <4>. HIDE DEF n
      <4>3. rows[m - 1].id < rows[m].id /\ rows[m].id < rows[n].id
        BY <4>2 DEF RowInv
      <4>4. rows[m - 1].id \in Nat /\ rows[m].id \in Nat /\ rows[n].id \in Nat
        BY <1>0, <4>2 DEF Row
      <4>. QED  BY <3>1, <4>1, <4>3, <4>4
    <3>. QED  BY <2>4, <3>2, <3>3, <3>4, <3>5
  <2>. QED  BY <1>0, <2>1, <2>5
<1>10. ASSUME ClearSession
       PROVE  lastId <= lastId' /\ \A a \in Answers' : a \in Answers \/ a > lastId
  <2>1. rows' = <<>> /\ lastId' = lastId  BY <1>10 DEF ClearSession
  <2>2. Len(rows') = 0  BY <2>1
  <2>3. Answers' = {}  BY <1>3, <2>2
  <2>. QED  BY <1>0, <2>1, <2>3
<1>11. lastId' \in Nat  BY <1>2
<1>12. ASSUME RowStep
       PROVE  lastId <= lastId' /\ \A a \in Answers' : a \in Answers \/ a > lastId
  BY <1>4, <1>6, <1>7, <1>8, <1>9, <1>10, <1>12 DEF RowStep
<1>13. ASSUME NEW a \in Answers' PROVE a \in Nat \ {0}
  <2>1. PICK i \in 2..Len(rows') : rows'[i].id = a  BY <1>3, <1>13
  <2>2. i \in 1..Len(rows')  BY <1>2
  <2>. QED  BY <1>2, <2>1, <2>2 DEF Row
<1>. QED  BY <1>4, <1>11, <1>12, <1>13, OthersLeaveTheRows

(* Largest finds the largest of some numbers below a bound. *)
LEMMA LargestIsLargest ==
  ASSUME NEW S \in SUBSET Nat, S # {}, NEW n \in Nat, \A x \in S : x <= n
  PROVE  Largest(S) \in S /\ \A b \in S : b <= Largest(S)
<1>. DEFINE below == {n - x : x \in S}
            R == OpToRel(<, Nat)
<1>1. below \subseteq Nat /\ below # {}
  <2>1. \A x \in S : x \in Nat /\ n - x \in Nat  OBVIOUS
  <2>. QED  BY <2>1
<1>2. IsWellFoundedOn(R, Nat)  BY NatLessThanWellFounded
<1>. HIDE DEF R
<1>3. PICK y \in below : \A z \in below : ~(<<z, y>> \in R)  BY <1>1, <1>2, WFMin, Zenon
<1>4. PICK a \in S : y = n - a  OBVIOUS
<1>5. ASSUME NEW b \in S PROVE b <= a
  <2>1. n - b \in below /\ ~(<<n - b, y>> \in R)  BY <1>3
  <2>2. n - b \in Nat /\ y \in Nat  BY <1>1, <2>1
  <2>3. ~(n - b < y)  BY <2>1, <2>2 DEF R, OpToRel
  <2>. QED  BY <1>4, <2>2, <2>3
<1>6. \E c \in S : \A b \in S : b <= c  BY <1>5
<1>. QED  BY <1>6 DEF Largest

LEMMA TurnsAreKnown ==
  ASSUME RowInv
  PROVE  /\ Turns \in SUBSET Nat /\ IsFiniteSet(Turns) /\ Answers \subseteq Turns
         /\ \A a \in Turns : a <= lastId
<1>0. Len(rows) \in Nat /\ lastId \in Nat /\ \A i \in 1..Len(rows) : rows[i] \in Row
  BY LenProperties, ElementOfSeq DEF RowInv
<1>1. ASSUME NEW a \in Turns PROVE a \in Nat /\ a <= lastId
  <2>1. PICK i \in 1..Len(rows) - 1 : rows[i + 1].id = a  BY <1>1 DEF Turns
  <2>2. i + 1 \in 1..Len(rows)  BY <1>0
  <2>3. rows[i + 1] \in Row /\ rows[i + 1].id <= lastId  BY <1>0, <2>2 DEF RowInv
  <2>. QED  BY <2>1, <2>3 DEF Row
<1>2. Turns \in SUBSET (0..lastId)  BY <1>0, <1>1
<1>3. IsFiniteSet(Turns)
  <2>1. IsFiniteSet(0..lastId)  BY <1>0, FS_Interval
  <2>. QED  BY <1>2, <2>1, FS_Subset
<1>4. ASSUME NEW a \in Answers PROVE a \in Turns
  <2>1. PICK i \in 2..Len(rows) :
           /\ rows[i].id = a /\ rows[i].role = "assistant" /\ rows[i - 1].role = "user"
    BY <1>4, AnswerRows
  <2>2. i - 1 \in 1..Len(rows) - 1 /\ (i - 1) + 1 = i  BY <1>0
  <2>. QED  BY <2>1, <2>2 DEF Turns
<1>. QED  BY <1>1, <1>3, <1>4

(* What is older than the newest turns is below all of them. *)
LEMMA OlderIsBelow ==
  ASSUME RowInv, NEW a \in Turns, NEW m \in Older, a <= m
  PROVE  a \in Older
<1>1. Turns \in SUBSET Nat /\ IsFiniteSet(Turns)  BY TurnsAreKnown
<1>2. m \in Turns /\ m \notin Newest(Turns)  BY DEF Older
<1>. DEFINE beyond(x) == {b \in Turns : b > x}
<1>3. beyond(m) \subseteq beyond(a)
  <2>1. ASSUME NEW b \in Turns, b > m PROVE b > a
    <3>1. a \in Nat /\ b \in Nat /\ m \in Nat  BY <1>1, <1>2
    <3>. QED  BY <2>1, <3>1
  <2>. QED  BY <2>1
<1>4. IsFiniteSet(beyond(a))  BY <1>1, FS_Subset
<1>5. /\ Cardinality(beyond(m)) <= Cardinality(beyond(a))
      /\ Cardinality(beyond(m)) \in Nat /\ Cardinality(beyond(a)) \in Nat
  BY <1>3, <1>4, FS_Subset, FS_CardinalityType
<1>6. ~(Cardinality(beyond(m)) < Recent)  BY <1>2 DEF Newest
<1>7. Recent \in Nat  BY ChatAssumption
<1>8. ~(Cardinality(beyond(a)) < Recent)  BY <1>5, <1>6, <1>7
<1>. QED  BY <1>8 DEF Older, Newest

(* The summary that is made next covers every answer up to its boundary. *)
LEMMA ReachesIsComplete ==
  ASSUME RowInv, SummaryInv, NEW s \in Streams, Older # {}
  PROVE  Reaches(s) \in Summary /\ Complete(Reaches(s))
<1>0. /\ context[s] \in Summary
      /\ \A a \in Answers : a <= context[s].upTo => a \in context[s].of
  BY DEF SummaryInv, Complete
<1>1. Turns \in SUBSET Nat /\ Answers \subseteq Turns /\ \A a \in Turns : a <= lastId
  BY TurnsAreKnown
<1>2. Older \in SUBSET Nat /\ lastId \in Nat /\ \A x \in Older : x <= lastId
  BY <1>1 DEF Older, RowInv
<1>3. Largest(Older) \in Older /\ \A b \in Older : b <= Largest(Older)
  BY <1>2, LargestIsLargest
<1>4. /\ Reaches(s).upTo = Largest(Older)
      /\ Reaches(s).of = context[s].of \cup {a \in Older : a > context[s].upTo}
      /\ Reaches(s) = [upTo |-> Largest(Older),
                       of |-> context[s].of \cup {a \in Older : a > context[s].upTo}]
  BY DEF Reaches
<1>5. Reaches(s) \in Summary  BY <1>0, <1>2, <1>3, <1>4 DEF Summary
<1>6. ASSUME NEW a \in Answers, a <= Largest(Older)
      PROVE  a \in context[s].of \cup {x \in Older : x > context[s].upTo}
  <2>1. a \in Older  BY <1>1, <1>3, <1>6, OlderIsBelow
  <2>2. a \in Nat /\ context[s].upTo \in Nat  BY <1>0, <1>2, <2>1 DEF Summary
  <2>3. CASE a <= context[s].upTo  BY <1>0, <2>3
  <2>4. CASE a > context[s].upTo  BY <2>1, <2>4
  <2>. QED  BY <2>2, <2>3, <2>4
<1>. QED  BY <1>2, <1>3, <1>4, <1>5, <1>6 DEF Complete

LEMMA SummaryInit == Init /\ RowInv => SummaryInv
<1>. SUFFICES ASSUME Init, RowInv PROVE SummaryInv  OBVIOUS
<1>1. /\ memory = NoSummary /\ context = [s \in Streams |-> NoSummary]
      /\ NoSummary \in Summary /\ NoSummary.upTo = 0 /\ lastId \in Nat
  BY DEF Init, NoSummary, Summary, RowInv
<1>2. Complete(NoSummary)  BY <1>1, AnswersAreKnown DEF Complete
<1>. QED  BY <1>1, <1>2 DEF SummaryInv

(* Where the summaries of the next state come from. *)
Moves ==
    /\ memory' \in {memory, NoSummary} \cup {context[s] : s \in Streams}
    /\ DOMAIN context' = Streams /\ context' = [s \in Streams |-> context'[s]]
    /\ \A s \in Streams :
          \/ context'[s] \in {context[s], memory, NoSummary}
          \/ Older # {} /\ context'[s] = Reaches(s)

LEMMA EndsMoves ==
  ASSUME SummaryInv, NEW s \in Streams, Ends(s) \/ context' = context, memory' = memory
  PROVE  Moves
BY DEF SummaryInv, Ends, Moves

LEMMA SummariesMove ==
  ASSUME SummaryInv, [Next]_vars
  PROVE  Moves
<1>1. CASE UNCHANGED <<memory, context>>  BY <1>1 DEF SummaryInv, Moves
<1>2. ASSUME NEW s \in Streams, OpenQuery(s) \/ OpenRegenerate(s) \/ Timeout(s)
      PROVE  Moves
  BY <1>1, <1>2 DEF OpenQuery, OpenRegenerate, Timeout, rowVars, agentVars
<1>3. ASSUME NEW s \in Streams, DriverStep(s) PROVE Moves
  BY <1>3, EndsMoves DEF DriverStep, Begin, Forward, Join, Joined, StoreTurn, StoreAnswer,
     StoreFails, rowVars, agentVars
<1>4. ASSUME NEW s \in Streams, Disconnect(s) \/ DetachedEnds(s) PROVE Moves
  BY <1>4, EndsMoves DEF Disconnect, DetachedEnds, rowVars
<1>5. ASSUME NEW s \in Streams, Say(s) \/ AskConfirmation(s) \/ AgentEnds(s) PROVE Moves
  BY <1>1, <1>5 DEF Say, AskConfirmation, AgentEnds, rowVars, agentVars
<1>6. ASSUME NEW s \in Streams, ReadMemory(s) PROVE Moves
  BY <1>6 DEF ReadMemory, SummaryInv, Moves
<1>7. ASSUME NEW s \in Streams, ReadTurns(s) PROVE Moves
  BY <1>7 DEF ReadTurns, SummaryInv, Moves, rowVars
<1>8. ASSUME NEW s \in Streams, Summarise(s) \/ SummaryFails(s) PROVE Moves
  BY <1>8 DEF Summarise, SummaryFails, Remembered, SummaryInv, Moves
<1>9. ASSUME NEW c \in Confirms,
             (\E yes \in BOOLEAN : Ask(c, yes)) \/ ConfirmStep(c) \/ LeaveConfirm(c)
      PROVE  Moves
  BY <1>1, <1>9 DEF Ask, ConfirmStep, LeaveConfirm, Lock, Consume, Resolve, RunTool,
     AppendReceipt, rowVars, agentVars
<1>10. CASE Expire \/ DeleteMessage
  BY <1>1, <1>10 DEF Expire, DeleteMessage, rowVars, agentVars
<1>11. CASE ClearSession \/ Crash
  BY <1>11 DEF ClearSession, Crash, agentVars, rowVars, SummaryInv, Moves
<1>12. CASE UNCHANGED vars  BY <1>1, <1>12 DEF vars, rowVars, agentVars
<1>. QED
  BY <1>2, <1>3, <1>4, <1>5, <1>6, <1>7, <1>8, <1>9, <1>10, <1>11, <1>12
     DEF Next, AgentStep

LEMMA SummaryNext == EchoInv /\ RowInv /\ SummaryInv /\ [Next]_vars => SummaryInv'
<1>. SUFFICES ASSUME EchoInv, RowInv, SummaryInv, [Next]_vars PROVE SummaryInv'
  OBVIOUS
<1>. DEFINE Covers(m) == m.upTo <= lastId' /\ \A a \in Answers' : a <= m.upTo => a \in m.of
<1>1. /\ lastId \in Nat /\ lastId' \in Nat /\ lastId <= lastId'
      /\ \A a \in Answers' : a \in Answers \/ a > lastId
  BY NewAnswersAreBeyond DEF RowInv
<1>2. \A a \in Answers' : a \in Nat \ {0}  BY NewAnswersAreBeyond
<1>3. ASSUME NEW m \in Summary, Complete(m) PROVE Covers(m)
  <2>1. m.upTo \in Nat /\ m.upTo <= lastId  BY <1>3 DEF Complete, Summary
  <2>2. ASSUME NEW a \in Answers', a <= m.upTo PROVE a \in m.of
    <3>1. a \in Nat  BY <1>2
    <3>2. a \in Answers  BY <1>1, <2>1, <2>2, <3>1
    <3>. QED  BY <1>3, <2>2, <3>2 DEF Complete
  <2>. QED  BY <1>1, <2>1, <2>2
<1>4. NoSummary \in Summary /\ Covers(NoSummary)
  BY <1>1, <1>2 DEF NoSummary, Summary
<1>5. memory \in Summary /\ Complete(memory)  BY DEF SummaryInv
<1>6. \A s \in Streams : context[s] \in Summary /\ Complete(context[s])
  BY DEF SummaryInv
<1>7. Moves  BY SummariesMove
<1>8. memory' \in Summary /\ Covers(memory')
  BY <1>3, <1>4, <1>5, <1>6, <1>7 DEF Moves
<1>9. ASSUME NEW s \in Streams PROVE context'[s] \in Summary /\ Covers(context'[s])
  <2>1. CASE context'[s] \in {context[s], memory, NoSummary}
    BY <1>3, <1>4, <1>5, <1>6, <2>1
  <2>2. CASE Older # {} /\ context'[s] = Reaches(s)
    BY <1>3, <2>2, ReachesIsComplete
  <2>. QED  BY <1>7, <2>1, <2>2 DEF Moves
<1>10. context' \in [Streams -> Summary]  BY <1>7, <1>9 DEF Moves
<1>. QED  BY <1>8, <1>9, <1>10 DEF SummaryInv, Complete

LEMMA SummaryInvariant == Spec => []SummaryInv
BY RowInit, SummaryInit, SummaryNext, EchoInvariant, RowInvariant, PTL DEF Spec

(* However the summaries of overlapping turns overwrite each other, whatever *)
(* is deleted, added or lost meanwhile, and however many turns there are, an *)
(* answer at or before the boundary of a summary is covered by it            *)
(* (get_context_with_summary, update_session_summary).                       *)
THEOREM NothingForgottenHolds == Spec => []NothingForgotten
<1>1. SummaryInv => NothingForgotten  BY DEF SummaryInv, Complete, NothingForgotten
<1>. QED  BY <1>1, SummaryInvariant, PTL
-----------------------------------------------------------------------------
(* Types: what the invariants above say, and the rest of the variables.      *)

RestTyped ==
    /\ session \in BOOLEAN
    /\ target \in [Streams -> Nat]
    /\ opened \in 0..MaxTurns /\ upsets \in 0..MaxUpsets
    /\ crashes \in 0..MaxCrashes /\ said \in 0..MaxTokens

LEMMA RestInit == Init => RestTyped
BY ChatAssumption DEF Init, RestTyped

LEMMA RestNext == RowInv /\ RestTyped /\ [Next]_vars => RestTyped'
<1>. SUFFICES ASSUME RowInv, RestTyped, [Next]_vars PROVE RestTyped'
  OBVIOUS
<1>0. {MaxTurns, MaxUpsets, MaxCrashes, MaxTokens} \subseteq Nat
  BY ChatAssumption
<1>1. ASSUME NEW s \in Streams, OpenRegenerate(s)
      PROVE  RestTyped'
  <2>1. PICK r \in Range(rows) :
           target' = [target EXCEPT ![s] = r.id] /\ opened < MaxTurns /\ opened' = opened + 1
    BY <1>1 DEF OpenRegenerate
  <2>2. r.id \in Nat
    <3>1. rows \in Seq(Row)
      BY DEF RowInv
    <3>2. DOMAIN rows = 1..Len(rows)
      BY <3>1, LenProperties
    <3>3. r \in Row
      BY <3>1, <3>2, ElementOfSeq DEF Range
    <3>. QED  BY <3>3 DEF Row
  <2>. QED  BY <1>0, <1>1, <2>1, <2>2 DEF OpenRegenerate, RestTyped, rowVars
<1>2. ASSUME NEW s \in Streams, Ends(s), UNCHANGED <<session, bounds>>
      PROVE  RestTyped'
  <2>1. target' = [target EXCEPT ![s] = 0]
    BY <1>2 DEF Ends, Release
  <2>. QED  BY <1>2, <2>1 DEF RestTyped, bounds
<1>3. ASSUME session' \in {session, TRUE}, UNCHANGED <<target, bounds>>
      PROVE  RestTyped'
  BY <1>3 DEF RestTyped, bounds
<1>4. ASSUME NEW s \in Streams, OpenQuery(s)
      PROVE  RestTyped'
  BY <1>0, <1>4 DEF OpenQuery, RestTyped
<1>5. ASSUME NEW s \in Streams, Timeout(s)
      PROVE  RestTyped'
  BY <1>3, <1>5 DEF Timeout, rowVars, driverVars
<1>6. ASSUME NEW s \in Streams, Disconnect(s)
      PROVE  RestTyped'
  <2>1. target' = [target EXCEPT ![s] = 0] /\ UNCHANGED <<session, bounds>>
    BY <1>6 DEF Disconnect, Ends, Release, rowVars
  <2>. QED  BY <2>1 DEF RestTyped, bounds
<1>7. ASSUME NEW s \in Streams, DriverStep(s)
      PROVE  RestTyped'
  <2>1. CASE Begin(s)
    BY <1>2, <1>3, <2>1 DEF Begin, rowVars
  <2>2. CASE Forward(s)
    BY <1>3, <2>2 DEF Forward, rowVars
  <2>3. CASE Join(s)
    BY <1>2, <1>3, <2>3 DEF Join, Joined, rowVars
  <2>4. CASE StoreTurn(s)
    <3>1. target' = [target EXCEPT ![s] = 0] /\ session' = TRUE /\ UNCHANGED bounds
      BY <2>4 DEF StoreTurn, Ends, Release
    <3>. QED  BY <3>1 DEF RestTyped, bounds
  <2>5. CASE StoreAnswer(s)
    BY <1>2, <2>5 DEF StoreAnswer
  <2>6. CASE StoreFails(s)
    BY <1>2, <2>6 DEF StoreFails, rowVars
  <2>. QED  BY <1>7, <2>1, <2>2, <2>3, <2>4, <2>5, <2>6 DEF DriverStep
<1>8. ASSUME NEW s \in Streams, AgentStep(s)
      PROVE  RestTyped'
  <2>1. CASE ReadMemory(s) \/ ReadTurns(s) \/ Summarise(s) \/ SummaryFails(s)
               \/ AskConfirmation(s) \/ AgentEnds(s)
    BY <1>3, <2>1 DEF ReadMemory, ReadTurns, Summarise, SummaryFails, AskConfirmation,
       AgentEnds, rowVars, driverVars
  <2>2. CASE Say(s)
    BY <1>0, <2>2 DEF Say, RestTyped, rowVars, driverVars
  <2>3. CASE DetachedEnds(s)
    BY <1>2, <2>3 DEF DetachedEnds, rowVars
  <2>. QED  BY <1>8, <2>1, <2>2, <2>3 DEF AgentStep
<1>9. ASSUME NEW c \in Confirms,
             (\E yes \in BOOLEAN : Ask(c, yes)) \/ ConfirmStep(c) \/ LeaveConfirm(c)
      PROVE  RestTyped'
  BY <1>3, <1>9 DEF Ask, ConfirmStep, Lock, Consume, Resolve, RunTool, AppendReceipt,
     LeaveConfirm, rowVars, driverVars
<1>10. CASE Expire
  BY <1>3, <1>10 DEF Expire, rowVars, driverVars
<1>11. CASE DeleteMessage \/ ClearSession
  <2>1. /\ session' \in {session, FALSE} /\ upsets < MaxUpsets /\ upsets' = upsets + 1
        /\ UNCHANGED <<target, opened, crashes, said>>
    BY <1>11 DEF DeleteMessage, ClearSession, driverVars
  <2>2. session' \in BOOLEAN
    BY <2>1 DEF RestTyped
  <2>3. upsets' \in 0..MaxUpsets
    BY <1>0, <2>1 DEF RestTyped
  <2>. QED  BY <2>1, <2>2, <2>3 DEF RestTyped
<1>12. CASE Crash
  BY <1>0, <1>12 DEF Crash, RestTyped, rowVars
<1>13. CASE UNCHANGED vars
  BY <1>3, <1>13 DEF vars, rowVars, driverVars
<1>. QED
  BY <1>1, <1>4, <1>5, <1>6, <1>7, <1>8, <1>9, <1>10, <1>11, <1>12, <1>13 DEF Next

(* Every variable keeps to its type: no step leaves a stream, a request or   *)
(* a row in a state the code has no name for (drive_sse_stream,              *)
(* confirm_agent_action).                                                    *)
THEOREM ChatTyped == Spec => []TypeOK
<1>1. RowInv /\ EchoInv /\ SummaryInv /\ ActionInv /\ RestTyped => TypeOK
  BY DEF RowInv, EchoInv, SummaryInv, ActionInv, RestTyped, TypeOK
<1>2. Spec => []RestTyped
  BY RestInit, RestNext, RowInvariant, PTL DEF Spec
<1>. QED  BY <1>1, <1>2, RowInvariant, EchoInvariant, SummaryInvariant, ActionInvInvariant, PTL
=============================================================================
