------------------------------ MODULE ChatTurn ------------------------------
(***************************************************************************)
(* One chat session of one user: the streamed turns (router/chat.py,       *)
(* agent/streaming.py, agent/runtime/sse_driver.py), the summary that      *)
(* stands in for the older turns (agent/context_builder.py), the messages  *)
(* (services/database_session_manager.py) and a high risk action that     *)
(* waits for its confirmation (agent/tool_guard.py,                        *)
(* services/pending_action_store.py).                                      *)
(*                                                                         *)
(* A stream is two tasks: the driver, a generator that lives as long as    *)
(* the client's connection, and the agent, a task of its own that outlives *)
(* it.  They share a queue.  Only the response events are modelled; a text *)
(* is the sequence of its tokens.  Each database transaction is one step.  *)
(***************************************************************************)
EXTENDS Integers, FiniteSets, Sequences, Functions

CONSTANTS
    Streams,    \* connections that may carry a streamed turn
    Confirms,   \* requests to confirm or to cancel the pending action
    Recent,     \* turns handed over word for word (the code's 6)
    Past,       \* turns the session starts with
    MaxTokens,  \* bound: tokens of all answers
    MaxTurns,   \* bound: turns asked for
    MaxUpsets,  \* bound: deletions
    MaxCrashes  \* bound: ends of the process

Nobody == "nobody"

ASSUME ChatAssumption ==
    /\ Streams \cap Confirms = {} /\ Nobody \notin Confirms
    /\ {Recent, MaxTokens, MaxTurns} \subseteq Nat \ {0}
    /\ {Past, MaxUpsets, MaxCrashes} \subseteq Nat

VARIABLES
    session,    \* the row of chat_sessions exists
    rows,       \* its messages, by id
    lastId,     \* the identity column of chat_messages
    memory,     \* metadata: boundary and the answers its summary covers
    pc, target, shown,  \* the driver of each stream
    agent, queue, text, context,    \* the agent task of each stream
    action, expired, holder,    \* the row of pending_actions, its row lock
    reply, decision, inTime,    \* the confirm requests
    takes, effects,     \* what consumed the action; how often it was carried out
    opened, upsets, crashes, said   \* the bounds' counters

rowVars == <<session, rows, lastId, memory>>
driverVars == <<pc, target, shown>>
agentVars == <<agent, queue, text, context>>
actionVars == <<action, expired, holder>>
confirmVars == <<reply, decision, inTime, takes, effects>>
bounds == <<opened, upsets, crashes, said>>
vars == <<rowVars, driverVars, agentVars, actionVars, confirmVars, bounds>>

(* Texts other than the tokens 1, 2, ... of an answer. *)
Sorry == -1     \* "抱歉，我无法理解您的请求。"
Note == -2      \* "[本次任务已停止…]"
Receipt == -3

NoSummary == [upTo |-> 0, of |-> {}]

Largest(ids) == CHOOSE a \in ids : \A b \in ids : b <= a

Message(id, role, by, words) == [id |-> id, role |-> role, by |-> by, text |-> words]

(* The answers whose question stands right before them. *)
Turns ==
    {rows[i + 1].id : i \in {j \in 1..Len(rows) - 1 :
        rows[j].role = "user" /\ rows[j + 1].role = "assistant"}}

Newest(ids) == {a \in ids : Cardinality({b \in ids : b > a}) < Recent}

Busy(s) == agent[s] \in {"start", "turns", "summary", "running"}
Open(s) == pc[s] \in {"begin", "wait", "store"}
Waiting(c) == reply[c] \in {"asked", "locked", "taken", "tool", "receipt"}

(* A session at rest; its one action may be stored or settled, and some of *)
(* the requests answered.                                                  *)
Init ==
    /\ session = TRUE
    /\ rows = [i \in 1..2 * Past |->
                IF i % 2 = 1 THEN Message(i, "user", Nobody, <<>>)
                             ELSE Message(i, "assistant", Nobody, <<1>>)]
    /\ lastId = 2 * Past
    /\ memory = NoSummary
    /\ pc = [s \in Streams |-> "idle"]
    /\ target = [s \in Streams |-> 0]
    /\ shown = [s \in Streams |-> <<>>]
    /\ agent = [s \in Streams |-> "none"]
    /\ queue = [s \in Streams |-> <<>>]
    /\ text = [s \in Streams |-> <<>>]
    /\ context = [s \in Streams |-> NoSummary]
    /\ action \in {"none", "waiting", "consumed"} /\ expired = FALSE /\ holder = Nobody
    /\ reply \in [Confirms -> {"idle", "over"}]
    /\ decision = [c \in Confirms |-> FALSE]
    /\ inTime = [c \in Confirms |-> FALSE]
    /\ takes = <<>> /\ effects = 0
    /\ opened \in 0..MaxTurns /\ upsets \in 0..MaxUpsets
    /\ crashes \in 0..MaxCrashes /\ said \in 0..MaxTokens

-----------------------------------------------------------------------------
(* The driver: query_stream, regenerate_session_message_stream and         *)
(* drive_sse_stream.                                                       *)

(* prepare_agent_run commits the session's row before the stream starts. *)
OpenQuery(s) ==
    /\ pc[s] = "idle" /\ opened < MaxTurns
    /\ opened' = opened + 1
    /\ session' = TRUE
    /\ pc' = [pc EXCEPT ![s] = "wait"]
    /\ agent' = [agent EXCEPT ![s] = "start"]
    /\ UNCHANGED <<rows, lastId, memory, target, shown, queue, text, context,
                   actionVars, confirmVars, upsets, crashes, said>>

(* get_regenerate_payload: the message is an answer with a question before it. *)
CanRegenerate(id) ==
    \E i \in 1..Len(rows) :
        /\ rows[i].id = id /\ rows[i].role = "assistant"
        /\ \E j \in 1..i - 1 : rows[j].role = "user"

OpenRegenerate(s) ==
    \E r \in Range(rows) :
        /\ pc[s] = "idle" /\ opened < MaxTurns
        /\ CanRegenerate(r.id)
        /\ opened' = opened + 1
        /\ pc' = [pc EXCEPT ![s] = "begin"]
        /\ target' = [target EXCEPT ![s] = r.id]
        /\ UNCHANGED <<rowVars, shown, agentVars, actionVars, confirmVars, upsets, crashes, said>>

(* The stream is over, or its client is gone: nothing of it is kept. *)
Release(s) ==
    /\ target' = [target EXCEPT ![s] = 0]
    /\ shown' = [shown EXCEPT ![s] = <<>>]
    /\ queue' = [queue EXCEPT ![s] = <<>>]
    /\ text' = [text EXCEPT ![s] = <<>>]

Ends(s) ==
    /\ Release(s)
    /\ pc' = [pc EXCEPT ![s] = "idle"]
    /\ agent' = [agent EXCEPT ![s] = "none"]
    /\ context' = [context EXCEPT ![s] = NoSummary]

(* The generator reads the payload a second time, outside the error handling *)
(* of the driver: an answer deleted meanwhile breaks the connection off.     *)
Begin(s) ==
    /\ pc[s] = "begin"
    /\ IF CanRegenerate(target[s])
       THEN /\ pc' = [pc EXCEPT ![s] = "wait"]
            /\ agent' = [agent EXCEPT ![s] = "running"]
            /\ UNCHANGED <<target, shown, queue, text, context>>
       ELSE Ends(s)
    /\ UNCHANGED <<rowVars, actionVars, confirmVars, bounds>>

(* One event goes from the queue to the client, in the loop or after it. *)
Forward(s) ==
    /\ pc[s] = "wait" /\ queue[s] # <<>>
    /\ shown' = [shown EXCEPT ![s] = Append(@, Head(queue[s]))]
    /\ queue' = [queue EXCEPT ![s] = Tail(@)]
    /\ UNCHANGED <<rowVars, pc, target, agent, text, context, actionVars,
                   confirmVars, bounds>>

(* Fault: the limit is noticed, the task is not cancelled. *)
TimeoutOnly(s) == pc[s] = "wait" /\ Busy(s) /\ UNCHANGED vars

(* The loop finds max_runtime_seconds exceeded while the agent still works. *)
Timeout(s) ==
    /\ pc[s] = "wait" /\ Busy(s)
    /\ agent' = [agent EXCEPT ![s] = "cancelled"]
    /\ UNCHANGED <<rowVars, driverVars, queue, text, context, actionVars,
                   confirmVars, bounds>>

(* await agent_task, for an agent that has ended. *)
Joined(s) ==
    /\ \/ /\ agent[s] = "failed"    \* error and done are sent, nothing is stored
          /\ Ends(s)
       \/ /\ agent[s] = "finished"
          /\ pc' = [pc EXCEPT ![s] = "store"]
          /\ UNCHANGED <<target, shown, agentVars>>
       \/ /\ agent[s] = "cancelled"
          /\ pc' = [pc EXCEPT ![s] = "store"]
          /\ shown' = [shown EXCEPT ![s] = Append(@, Note)]
          /\ UNCHANGED <<target, agentVars>>
    /\ UNCHANGED <<rowVars, actionVars, confirmVars, bounds>>

(* Fault: what the queue still holds is not sent. *)
JoinAtOnce(s) == pc[s] = "wait" /\ ~Busy(s) /\ Joined(s)

Join(s) == pc[s] = "wait" /\ ~Busy(s) /\ queue[s] = <<>> /\ Joined(s)

(* agent_result_holder["response"]. *)
Answer(s) ==
    IF agent[s] = "cancelled" THEN Append(text[s], Note)
    ELSE IF text[s] = <<>> THEN <<Sorry>> ELSE text[s]

TurnOf(s) ==
    <<Message(lastId + 1, "user", s, <<>>), Message(lastId + 2, "assistant", s, Answer(s))>>

(* add_message makes the session anew if it was deleted meanwhile. *)
StoreTurn(s) ==
    /\ pc[s] = "store" /\ target[s] = 0
    /\ session' = TRUE
    /\ rows' = rows \o TurnOf(s)
    /\ lastId' = lastId + 2
    /\ Ends(s)
    /\ UNCHANGED <<memory, actionVars, confirmVars, bounds>>

(* update_message_content *)
StoreAnswer(s) ==
    \E i \in 1..Len(rows) :
        /\ pc[s] = "store" /\ target[s] = rows[i].id
        /\ rows' = [rows EXCEPT ![i].text = Answer(s), ![i].by = s]
        /\ Ends(s)
        /\ UNCHANGED <<session, lastId, memory, actionVars, confirmVars, bounds>>

(* on_success raises: the message is gone, or the database fails. *)
StoreFails(s) ==
    /\ pc[s] = "store"
    /\ Ends(s)
    /\ UNCHANGED <<rowVars, actionVars, confirmVars, bounds>>

DriverStep(s) ==
    Begin(s) \/ Forward(s) \/ Join(s) \/ StoreTurn(s) \/ StoreAnswer(s) \/ StoreFails(s)

(* The client goes away: the generator is closed where it stands.  Nothing *)
(* cancels the agent, which works on with nobody to watch the time.        *)
Disconnect(s) ==
    /\ Open(s)
    /\ IF Busy(s)
       THEN /\ Release(s)
            /\ pc' = [pc EXCEPT ![s] = "gone"]
            /\ UNCHANGED <<agent, context>>
       ELSE Ends(s)
    /\ UNCHANGED <<rowVars, actionVars, confirmVars, bounds>>

-----------------------------------------------------------------------------
(* The agent task: build_query_context, stream_agent_events, GuardedTool.  *)

(* get_history makes a missing session; a history too long for the budget  *)
(* goes the way of the summary, whose metadata are read next.              *)
ReadMemory(s) ==
    /\ agent[s] = "start"
    /\ session' = TRUE
    /\ \/ /\ Cardinality(Turns) > Recent
          /\ agent' = [agent EXCEPT ![s] = "turns"]
          /\ context' = [context EXCEPT ![s] = memory]
       \/ agent' = [agent EXCEPT ![s] = "running"] /\ UNCHANGED context
    /\ UNCHANGED <<rows, lastId, memory, driverVars, queue, text, actionVars,
                   confirmVars, bounds>>

Older == Turns \ Newest(Turns)

(* What the summary will cover: what it did, and the older turns beyond. *)
Reaches(s) ==
    [upTo |-> IF Older = {} THEN context[s].upTo ELSE Largest(Older),
     of |-> context[s].of \cup {a \in Older : a > context[s].upTo}]

(* get_history_with_ids, in a transaction of its own. *)
ReadTurns(s) ==
    LET fresh == {a \in Older : a > context[s].upTo}
    IN  /\ agent[s] = "turns"
        /\ agent' = [agent EXCEPT ![s] = IF fresh = {} THEN "running" ELSE "summary"]
        /\ context' = [context EXCEPT ![s] = IF fresh = {} THEN NoSummary ELSE Reaches(s)]
        /\ UNCHANGED <<rowVars, driverVars, queue, text, actionVars, confirmVars,
                       bounds>>

(* Fault: the boundary never moves back, whatever the summary covers. *)
RememberedForward(s) ==
    [upTo |-> IF memory.upTo > context[s].upTo THEN memory.upTo ELSE context[s].upTo,
     of |-> context[s].of]

(* update_session_summary writes the summary and its boundary together. *)
Remembered(s) == context[s]

Summarise(s) ==
    /\ agent[s] = "summary"
    /\ memory' = IF session THEN Remembered(s) ELSE memory
    /\ agent' = [agent EXCEPT ![s] = "running"]
    /\ context' = [context EXCEPT ![s] = NoSummary]
    /\ UNCHANGED <<session, rows, lastId, driverVars, queue, text, actionVars,
                   confirmVars, bounds>>

(* The model call or the update fails: back to the trimmed history. *)
SummaryFails(s) ==
    /\ agent[s] = "summary"
    /\ session' = TRUE
    /\ agent' = [agent EXCEPT ![s] = "running"]
    /\ context' = [context EXCEPT ![s] = NoSummary]
    /\ UNCHANGED <<rows, lastId, memory, driverVars, queue, text, actionVars,
                   confirmVars, bounds>>

(* A token of the answer is queued.  What an agent says to nobody is left out. *)
Say(s) ==
    /\ agent[s] = "running" /\ pc[s] = "wait" /\ said < MaxTokens
    /\ said' = said + 1
    /\ text' = [text EXCEPT ![s] = Append(@, Len(@) + 1)]
    /\ queue' = [queue EXCEPT ![s] = Append(@, Len(text[s]) + 1)]
    /\ UNCHANGED <<rowVars, driverVars, agent, context, actionVars, confirmVars,
                   opened, upsets, crashes>>

(* A guarded tool stores the action instead of carrying it out. *)
AskConfirmation(s) ==
    /\ agent[s] = "running" /\ action = "none"
    /\ action' = "waiting"
    /\ UNCHANGED <<rowVars, driverVars, agentVars, expired, holder, confirmVars,
                   bounds>>

AgentEnds(s) ==
    /\ \/ Busy(s) /\ agent' = [agent EXCEPT ![s] = "failed"]
       \/ agent[s] = "running" /\ agent' = [agent EXCEPT ![s] = "finished"]
    /\ Open(s)
    /\ UNCHANGED <<rowVars, driverVars, queue, text, context, actionVars, confirmVars,
                   bounds>>

(* The end of an agent whose client is gone is noticed by nobody. *)
DetachedEnds(s) ==
    /\ pc[s] = "gone"
    /\ Ends(s)
    /\ UNCHANGED <<rowVars, actionVars, confirmVars, bounds>>

AgentStep(s) ==
    ReadMemory(s) \/ ReadTurns(s) \/ Summarise(s) \/ SummaryFails(s) \/ Say(s)
        \/ AskConfirmation(s) \/ AgentEnds(s) \/ DetachedEnds(s)

-----------------------------------------------------------------------------
(* confirm_agent_action, take_pending_action and                           *)
(* get_confirm_action_stream_response.                                     *)

(* A request arrives; the clock is read before the row is. *)
Ask(c, yes) ==
    /\ reply[c] = "idle" /\ action # "none"
    /\ reply' = [reply EXCEPT ![c] = "asked"]
    /\ decision' = [decision EXCEPT ![c] = yes]
    /\ inTime' = [inTime EXCEPT ![c] = ~expired]
    /\ UNCHANGED <<rowVars, driverVars, agentVars, actionVars, takes, effects, bounds>>

(* Fault: the row is read without FOR UPDATE. *)
MayRead(c) == TRUE

MayLock(c) == holder = Nobody

(* SELECT ... FOR UPDATE; a row that is no longer there is answered with 410. *)
Lock(c) ==
    /\ reply[c] = "asked" /\ MayLock(c)
    /\ IF action = "consumed"
       THEN reply' = [reply EXCEPT ![c] = "over"] /\ UNCHANGED holder
       ELSE reply' = [reply EXCEPT ![c] = "locked"] /\ holder' = c
    /\ UNCHANGED <<rowVars, driverVars, agentVars, action, expired, decision, inTime,
                   takes, effects, bounds>>

(* The row is deleted and the lock given back; what had expired is 410. *)
Consume(c) ==
    /\ reply[c] = "locked"
    /\ action' = "consumed" /\ holder' = Nobody
    /\ IF inTime[c]
       THEN /\ reply' = [reply EXCEPT ![c] = "taken"]
            /\ takes' = Append(takes, c)
       ELSE reply' = [reply EXCEPT ![c] = "over"] /\ UNCHANGED takes
    /\ UNCHANGED <<rowVars, driverVars, agentVars, expired, decision, inTime, effects,
                   bounds>>

(* resolve_confirmed_tool: a binding that has gone stale is 410. *)
Resolve(c) ==
    /\ reply[c] = "taken"
    /\ \E next \in IF decision[c] THEN {"tool", "over"} ELSE {"receipt"} :
           reply' = [reply EXCEPT ![c] = next]
    /\ UNCHANGED <<rowVars, driverVars, agentVars, actionVars, decision, inTime, takes,
                   effects, bounds>>

(* The tool returns, fails or runs into its own timeout, done or not. *)
RunTool(c) ==
    /\ reply[c] = "tool"
    /\ effects' \in {effects, effects + 1}
    /\ reply' = [reply EXCEPT ![c] = "receipt"]
    /\ UNCHANGED <<rowVars, driverVars, agentVars, actionVars, decision, inTime, takes,
                   bounds>>

(* append_assistant_message; its failure is only logged. *)
AppendReceipt(c) ==
    /\ reply[c] = "receipt"
    /\ reply' = [reply EXCEPT ![c] = "over"]
    /\ \/ /\ session
          /\ rows' = Append(rows, Message(lastId + 1, "assistant", c, <<Receipt>>))
          /\ lastId' = lastId + 1
       \/ UNCHANGED <<rows, lastId>>
    /\ UNCHANGED <<session, memory, driverVars, agentVars, actionVars, decision, inTime,
                   takes, effects, bounds>>

ConfirmStep(c) ==
    Lock(c) \/ Consume(c) \/ Resolve(c) \/ RunTool(c) \/ AppendReceipt(c)

(* The client leaves the result's stream: the tool is cut off, done or not. *)
LeaveConfirm(c) ==
    /\ reply[c] \in {"tool", "receipt"}
    /\ effects' \in IF reply[c] = "tool" THEN {effects, effects + 1} ELSE {effects}
    /\ reply' = [reply EXCEPT ![c] = "over"]
    /\ UNCHANGED <<rowVars, driverVars, agentVars, actionVars, decision, inTime, takes,
                   bounds>>

(* The ten minutes are over. *)
Expire ==
    /\ action = "waiting" /\ ~expired
    /\ expired' = TRUE
    /\ UNCHANGED <<rowVars, driverVars, agentVars, action, holder, confirmVars, bounds>>

-----------------------------------------------------------------------------
(* The user's deletions, and the end of the process.                       *)

(* delete_message removes the i-th message, and those up to the last doomed: *)
(* all that follow, or the answer to a question.                             *)
LastDoomed(i, mode) ==
    CASE mode = "after" -> Len(rows)
      [] mode = "pair" /\ rows[i].role = "user" /\ i < Len(rows)
            -> IF rows[i + 1].role = "assistant" THEN i + 1 ELSE i
      [] OTHER -> i

DeleteMessage ==
    \E i \in DOMAIN rows, mode \in {"single", "pair", "after"} :
        /\ upsets < MaxUpsets
        /\ upsets' = upsets + 1
        /\ rows' = SubSeq(rows, 1, i - 1) \o SubSeq(rows, LastDoomed(i, mode) + 1, Len(rows))
        /\ UNCHANGED <<session, lastId, memory, driverVars, agentVars, actionVars,
                       confirmVars, opened, crashes, said>>

ClearSession ==
    /\ session /\ upsets < MaxUpsets
    /\ upsets' = upsets + 1
    /\ session' = FALSE /\ rows' = <<>> /\ memory' = NoSummary
    /\ UNCHANGED <<lastId, driverVars, agentVars, actionVars, confirmVars, opened, crashes, said>>

(* The process dies: connections, tasks and row locks go, the tables stay. *)
Crash ==
    /\ crashes < MaxCrashes
    /\ crashes' = crashes + 1
    /\ pc' = [s \in Streams |-> "idle"]
    /\ target' = [s \in Streams |-> 0]
    /\ shown' = [s \in Streams |-> <<>>]
    /\ agent' = [s \in Streams |-> "none"]
    /\ queue' = [s \in Streams |-> <<>>]
    /\ text' = [s \in Streams |-> <<>>]
    /\ context' = [s \in Streams |-> NoSummary]
    /\ holder' = Nobody
    /\ reply' = [c \in Confirms |-> IF Waiting(c) THEN "over" ELSE reply[c]]
    /\ UNCHANGED <<rowVars, action, expired, decision, inTime, takes, effects, opened, upsets, said>>

Next ==
    \/ \E s \in Streams :
          OpenQuery(s) \/ OpenRegenerate(s) \/ DriverStep(s) \/ Timeout(s)
            \/ Disconnect(s) \/ AgentStep(s)
    \/ \E c \in Confirms :
          (\E yes \in BOOLEAN : Ask(c, yes)) \/ ConfirmStep(c) \/ LeaveConfirm(c)
    \/ Expire \/ DeleteMessage \/ ClearSession \/ Crash

Spec == Init /\ [][Next]_vars

(* The event loop runs a connected driver, whose clock gets to the limit   *)
(* if nothing else ends the wait.  Nothing is assumed of the agent: it may *)
(* hang.                                                                   *)
Fairness == \A s \in Streams : WF_vars(DriverStep(s)) /\ WF_vars(Timeout(s))

FairSpec == Spec /\ Fairness

-----------------------------------------------------------------------------
(* Where a driver, an agent task and a confirm request are. *)
PcStates == {"idle", "begin", "wait", "store", "gone"}
AgentStates == {"none", "start", "turns", "summary", "running", "finished", "failed", "cancelled"}
Replies == {"idle", "asked", "locked", "taken", "tool", "receipt", "over"}

Row == [id : Nat \ {0}, role : {"user", "assistant"},
        by : Streams \cup Confirms \cup {Nobody}, text : Seq(Int)]
Summary == [upTo : Nat, of : SUBSET Nat]

StreamTypes ==
    /\ pc \in [Streams -> PcStates]
    /\ agent \in [Streams -> AgentStates]
    /\ shown \in [Streams -> Seq(Int)]
    /\ queue \in [Streams -> Seq(Int)]
    /\ text \in [Streams -> Seq(Int)]

(* The columns of pending_actions, and the requests. *)
ConfirmTypes ==
    /\ action \in {"none", "waiting", "consumed"} /\ expired \in BOOLEAN
    /\ holder \in Confirms \cup {Nobody}
    /\ reply \in [Confirms -> Replies]
    /\ decision \in [Confirms -> BOOLEAN] /\ inTime \in [Confirms -> BOOLEAN]
    /\ takes \in Seq(Confirms) /\ effects \in Nat

(* The types of the tables, the streams and the requests.  Texts are        *)
(* sequences of tokens, which stand for what the model wrote.              *)
TypeOK ==
    /\ session \in BOOLEAN /\ rows \in Seq(Row) /\ lastId \in Nat
    /\ memory \in Summary /\ context \in [Streams -> Summary]
    /\ target \in [Streams -> Nat]
    /\ StreamTypes /\ ConfirmTypes
    /\ opened \in 0..MaxTurns /\ upsets \in 0..MaxUpsets
    /\ crashes \in 0..MaxCrashes /\ said \in 0..MaxTokens

(* Whatever requests race, expire, are cut off or lost in a crash, a high  *)
(* risk action is consumed by one request at most, and carried out at most *)
(* once, only when that one said yes within the ten minutes               *)
(* (take_pending_action, confirm_agent_action).                            *)
CarriedOutOnConsent ==
    /\ Len(takes) <= 1
    /\ effects > 0 => /\ effects = 1
                      /\ \A c \in Range(takes) : decision[c] /\ inTime[c]
                      /\ takes # <<>>

(* What a turn leaves in the session is what its client was shown, token by *)
(* token and with the note of a timeout, except that an agent that said     *)
(* nothing leaves an apology nobody was shown (drive_sse_stream).           *)
StoredIsShown ==
    [][\A r \in Range(rows') : \A s \in Streams :
          r \notin Range(rows) /\ r.by = s /\ r.role = "assistant"
            => r.text = shown[s] \/ (shown[s] = <<>> /\ r.text = <<Sorry>>)]_vars

(* The answers that stand right behind the question they were stored with. *)
Answers ==
    {rows[i].id : i \in {j \in 2..Len(rows) :
        /\ rows[j - 1].role = "user" /\ rows[j].role = "assistant"
        /\ rows[j - 1].id = rows[j].id - 1}}

(* A summary, stored or being made, covers every answer up to its boundary, *)
(* so that the turns beyond it and the recent ones complete the history:    *)
(* however the summaries of concurrent turns overwrite each other and       *)
(* whatever is deleted meanwhile, the agent is given every question that    *)
(* still has its own answer under the next id (get_context_with_summary,    *)
(* update_session_summary).                                                 *)
NothingForgotten ==
    \A summary \in {memory} \cup {context[s] : s \in Streams} :
        \A a \in Answers : a <= summary.upTo => a \in summary.of

(* A connected client's stream ends, even if the agent hangs, fails, or    *)
(* its answer cannot be stored (drive_sse_stream).                         *)
StreamsEnd == \A s \in Streams : Open(s) ~> ~Open(s)
=============================================================================
