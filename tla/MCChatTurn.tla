----------------------------- MODULE MCChatTurn -----------------------------
(* Two connections and two confirm requests on one session of three turns. *)
EXTENDS ChatTurn

CONSTANTS s1, s2, c1, c2

MCStreams == {s1, s2}
MCConfirms == {c1, c2}

(* The whole is too large; these situations are exhausted, each on its own. *)
(* Turns and their summaries overlap, while the user deletes messages. *)
Overlap ==
    /\ action = "consumed" /\ reply = [c \in Confirms |-> "over"]
    /\ opened = 0 /\ upsets = 0 /\ crashes = MaxCrashes /\ said = MaxTokens

(* One turn, its answer and its action, under a crash. *)
OneTurn ==
    /\ action = "none" /\ reply = [c \in Confirms |-> IF c = c1 THEN "idle" ELSE "over"]
    /\ opened = MaxTurns - 1 /\ upsets = MaxUpsets /\ crashes = 0 /\ said = 0

(* Two requests race for one action, a crash between any two steps. *)
TwoRequests ==
    /\ action = "waiting" /\ reply = [c \in Confirms |-> "idle"]
    /\ opened = MaxTurns /\ upsets = 0 /\ crashes = 0 /\ said = MaxTokens

MCInit == Init /\ (Overlap \/ OneTurn \/ TwoRequests)

MCSpec == MCInit /\ [][Next]_vars /\ Fairness
=============================================================================
