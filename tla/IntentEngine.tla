------------------------------ MODULE IntentEngine ------------------------------
(***************************************************************************)
(* The rolling conversation buffer of IntentEngine (intent/engine.py): the *)
(* tool-use loop of run(), the trimming of the buffer, and the Messages    *)
(* API that accepts or rejects what the buffer holds.                      *)
(*                                                                         *)
(* A message keeps its kind and the identity of its tool use: a user       *)
(* "text", the "results" of a tool use, an assistant "reply" without tool  *)
(* use, a tool use "call" to be executed, a "cut": a response that         *)
(* contains a tool use but stopped for another reason (max_tokens), or an  *)
(* "empty" one, with no content, which the gateway shows as "(keine        *)
(* Antwort)" and the buffer keeps like any other.                          *)
(***************************************************************************)
EXTENDS Naturals, Sequences, FiniteSets, FiniteSetsExt

CONSTANTS Turns,          \* the calls of run() on this engine
          MaxIterations,  \* max_tool_iterations (6)
          MaxBuffer       \* max_buffer_messages (20)

ASSUME MaxIterationsAssumption == MaxIterations \in Nat \ {0}
ASSUME MaxBufferAssumption == MaxBuffer \in Nat \ {0}

VARIABLES
    buffer,   \* _buffer
    pc,       \* where each turn stands
    iter,     \* the iteration each turn is in
    valid,    \* whether the buffer sent with the turn's request is acceptable
    outcome,  \* how each turn ended
    overlapped  \* ghost: two turns were in progress together

vars == <<buffer, pc, iter, valid, outcome, overlapped>>

UserKinds == {"text", "results"}
AssistantKinds == {"reply", "call", "cut", "empty"}
Message == [kind : UserKinds \union AssistantKinds, turn : Turns, iter : 0 .. MaxIterations]
FromUser(m) == m.kind \in UserKinds

Running(t) == pc[t] \in {"asking", "executing"}

(***************************************************************************)
(* _trim_buffer: keep the newest messages, then drop leading assistant     *)
(* messages.                                                               *)
(***************************************************************************)
Newest(b) == SubSeq(b, Len(b) - MaxBuffer + 1, Len(b))

FromFirstUser(b) ==
    LET user == {i \in DOMAIN b : FromUser(b[i])}
    IN  IF user = {} THEN << >> ELSE SubSeq(b, Min(user), Len(b))

TrimOldest(b) ==   \* mutant: the oldest messages are kept
    IF Len(b) <= MaxBuffer THEN b ELSE SubSeq(b, 1, MaxBuffer)

Trim(b) == IF Len(b) <= MaxBuffer THEN b ELSE FromFirstUser(Newest(b))

(***************************************************************************)
(* What the Messages API accepts: a user message first, each tool use      *)
(* answered by the next message, each result right after its tool use, and *)
(* content in every message but an assistant's that is last.               *)
(***************************************************************************)
Answers(r, m) == r.kind = "results" /\ r.turn = m.turn /\ r.iter = m.iter
ToolUse(m) == m.kind \in {"call", "cut"}

Accepted(b) ==
    /\ b # << >>
    /\ FromUser(b[1])
    /\ \A i \in DOMAIN b :
         /\ ToolUse(b[i]) => i < Len(b) /\ Answers(b[i + 1], b[i])
         /\ b[i].kind = "results" => i > 1 /\ ToolUse(b[i - 1]) /\ Answers(b[i], b[i - 1])
         /\ b[i].kind = "empty" => i = Len(b)

-------------------------------------------------------------------------------
Init ==
    /\ buffer = << >>
    /\ pc = [t \in Turns |-> "idle"]
    /\ iter = [t \in Turns |-> 0]
    /\ valid = [t \in Turns |-> FALSE]
    /\ outcome = [t \in Turns |-> "none"]
    /\ overlapped = FALSE

(***************************************************************************)
(* The loop sends the whole buffer. The API judges it as it is sent, not   *)
(* as another turn leaves it meanwhile.                                    *)
(***************************************************************************)
Ask(t) ==
    /\ pc' = [pc EXCEPT ![t] = "asking"]
    /\ iter' = [iter EXCEPT ![t] = @ + 1]
    /\ valid' = [valid EXCEPT ![t] = Accepted(buffer')]
    /\ UNCHANGED outcome

BeginTrimmed(t) ==   \* mutant: the user's message trims the buffer as well
    /\ pc[t] = "idle"
    /\ buffer' = Trim(Append(buffer, [kind |-> "text", turn |-> t, iter |-> 0]))
    /\ overlapped' = (overlapped \/ \E u \in Turns : Running(u))
    /\ Ask(t)

(***************************************************************************)
(* run(): the user's message is appended (and nothing trimmed), and the    *)
(* first request is sent. Nothing keeps another turn from being under way. *)
(***************************************************************************)
Begin(t) ==
    /\ pc[t] = "idle"
    /\ buffer' = Append(buffer, [kind |-> "text", turn |-> t, iter |-> 0])
    /\ overlapped' = (overlapped \/ \E u \in Turns : Running(u))
    /\ Ask(t)

RespondUntrimmed(t, kind) ==   \* mutant: only the tools' results trim the buffer
    /\ pc[t] = "asking"
    /\ valid[t]
    /\ buffer' = Append(buffer, [kind |-> kind, turn |-> t, iter |-> iter[t]])
    /\ IF kind = "call"
       THEN pc' = [pc EXCEPT ![t] = "executing"] /\ UNCHANGED outcome
       ELSE pc' = [pc EXCEPT ![t] = "done"] /\ outcome' = [outcome EXCEPT ![t] = "answered"]
    /\ UNCHANGED <<iter, valid, overlapped>>

(***************************************************************************)
(* messages.create returns: the response is appended and the buffer        *)
(* trimmed. A stop reason other than tool_use ends the turn.               *)
(***************************************************************************)
Respond(t, kind) ==
    /\ pc[t] = "asking"
    /\ valid[t]
    /\ buffer' = Trim(Append(buffer, [kind |-> kind, turn |-> t, iter |-> iter[t]]))
    /\ IF kind = "call"
       THEN pc' = [pc EXCEPT ![t] = "executing"] /\ UNCHANGED outcome
       ELSE pc' = [pc EXCEPT ![t] = "done"] /\ outcome' = [outcome EXCEPT ![t] = "answered"]
    /\ UNCHANGED <<iter, valid, overlapped>>

RequestRetried(t) ==   \* mutant: a rejected request is sent again as it is
    /\ pc[t] = "asking"
    /\ valid[t]
    /\ pc' = [pc EXCEPT ![t] = "done"]
    /\ outcome' = [outcome EXCEPT ![t] = "failed"]
    /\ UNCHANGED <<buffer, iter, valid, overlapped>>

(***************************************************************************)
(* messages.create raises, because the API is unreachable or rejects the   *)
(* buffer: the exception leaves run() and the buffer stays as it is.       *)
(***************************************************************************)
RequestFails(t) ==
    /\ pc[t] = "asking"
    /\ pc' = [pc EXCEPT ![t] = "done"]
    /\ outcome' = [outcome EXCEPT ![t] = "failed"]
    /\ UNCHANGED <<buffer, iter, valid, overlapped>>

ToolsRanForLoop(t) ==   \* mutant: after the last iteration the results are dropped,
    /\ pc[t] = "executing"   \* and the loop runs once more than it may
    /\ IF iter[t] <= MaxIterations
       THEN /\ buffer' = Trim(Append(buffer, [kind |-> "results", turn |-> t, iter |-> iter[t]]))
            /\ Ask(t)
       ELSE /\ pc' = [pc EXCEPT ![t] = "done"]
            /\ outcome' = [outcome EXCEPT ![t] = "capped"]
            /\ UNCHANGED <<buffer, iter, valid>>
    /\ UNCHANGED overlapped

ToolsRanUnanswered(t) ==   \* mutant: at the cap the results are not appended
    /\ pc[t] = "executing"
    /\ \/ /\ iter[t] < MaxIterations
          /\ buffer' = Trim(Append(buffer, [kind |-> "results", turn |-> t, iter |-> iter[t]]))
          /\ Ask(t)
       \/ /\ iter[t] = MaxIterations
          /\ pc' = [pc EXCEPT ![t] = "done"]
          /\ outcome' = [outcome EXCEPT ![t] = "capped"]
          /\ UNCHANGED <<buffer, iter, valid>>
    /\ UNCHANGED overlapped

(***************************************************************************)
(* All tools of the response have run; their results are appended and the  *)
(* buffer trimmed. After the last iteration IntentEngineError is raised.   *)
(***************************************************************************)
ToolsRan(t) ==
    /\ pc[t] = "executing"
    /\ buffer' = Trim(Append(buffer, [kind |-> "results", turn |-> t, iter |-> iter[t]]))
    /\ \/ iter[t] < MaxIterations /\ Ask(t)
       \/ /\ iter[t] = MaxIterations
          /\ pc' = [pc EXCEPT ![t] = "done"]
          /\ outcome' = [outcome EXCEPT ![t] = "capped"]
          /\ UNCHANGED <<iter, valid>>
    /\ UNCHANGED overlapped

(***************************************************************************)
(* reset(), used between turns (by the tests only; the gateway drops the   *)
(* engine instead).                                                        *)
(***************************************************************************)
Reset ==
    /\ \A t \in Turns : ~ Running(t)
    /\ buffer # << >>
    /\ buffer' = << >>
    /\ UNCHANGED <<pc, iter, valid, outcome, overlapped>>

Turn(t) == \/ Begin(t) \/ RequestFails(t) \/ ToolsRan(t)
           \/ \E kind \in AssistantKinds : Respond(t, kind)

Next == Reset \/ \E t \in Turns : Turn(t)

Spec == Init /\ [][Next]_vars

(***************************************************************************)
(* Fairness: a request is answered or raises (the SDK's timeout), and tool *)
(* handlers return (send_command has a timeout of its own).                *)
(***************************************************************************)
Fairness ==
    \A t \in Turns :
        /\ WF_vars(RequestFails(t) \/ \E kind \in AssistantKinds : Respond(t, kind))
        /\ WF_vars(ToolsRan(t))

FairSpec == Spec /\ Fairness

-------------------------------------------------------------------------------
(***************************************************************************)
(* The type invariant.                                                     *)
(***************************************************************************)
TypeOK ==
    /\ buffer \in Seq(Message)
    /\ pc \in [Turns -> {"idle", "asking", "executing", "done"}]
    /\ iter \in [Turns -> 0 .. MaxIterations]
    /\ valid \in [Turns -> BOOLEAN]
    /\ overlapped \in BOOLEAN
    /\ outcome \in [Turns -> {"none", "answered", "failed", "capped"}]

(***************************************************************************)
(* A rejection is for ever: once the API would reject the buffer with one  *)
(* more text, and no turn is left whose response or results could trim it, *)
(* no later turn, failed or not, makes the conversation acceptable again;  *)
(* only reset() does. Nothing but a response or results trims, and a       *)
(* rejected request gets no response. Overlapping turns are no exception.  *)
(***************************************************************************)
CanTrim(t) == pc[t] = "executing" \/ (pc[t] = "asking" /\ valid[t])

Rejected == /\ \A t \in Turns : ~ CanTrim(t)
            /\ \A t \in Turns :
                  ~ Accepted(Append(buffer, [kind |-> "text", turn |-> t, iter |-> 0]))

RejectionIsPermanent == [][Rejected => Rejected' \/ buffer' = << >>]_vars

(***************************************************************************)
(* While turns do not overlap, trimming harms the head of the buffer only: *)
(* every result except a first message follows the tool use it answers,    *)
(* and every executed tool use is followed by its result unless it is      *)
(* still being executed, also after failed and capped turns.               *)
(***************************************************************************)
ResultsFollowCalls ==
    ~ overlapped =>
        \A i \in DOMAIN buffer :
            /\ buffer[i].kind = "results" /\ i > 1 => Answers(buffer[i], buffer[i - 1])
            /\ buffer[i].kind = "call" =>
                  \/ i < Len(buffer) /\ Answers(buffer[i + 1], buffer[i])
                  \/ i = Len(buffer) /\ pc[buffer[i].turn] = "executing"

(***************************************************************************)
(* While turns do not overlap, the API rejects a request for three reasons *)
(* only: the tool use its first results answer was trimmed away, or a      *)
(* response cut off in a tool use, or an empty one, is still in the        *)
(* buffer.                                                                 *)
(***************************************************************************)
RejectionsExplained ==
    ~ overlapped =>
        \A t \in Turns : pc[t] = "asking" /\ ~ valid[t] =>
            buffer[1].kind = "results" \/ \E i \in DOMAIN buffer : buffer[i].kind \in {"cut", "empty"}

(***************************************************************************)
(* Only failed requests make the buffer outgrow its maximum: beyond it     *)
(* there is at most the message of the turn in progress and one per        *)
(* request that failed.                                                    *)
(***************************************************************************)
GrowsByFailuresOnly ==
    Len(buffer) <= MaxBuffer + Cardinality({t \in Turns : outcome[t] = "failed" \/ Running(t)})

(***************************************************************************)
(* Every turn ends: in an answer, an API error, or at the iteration cap.   *)
(***************************************************************************)
TurnsEnd == \A t \in Turns : Running(t) ~> pc[t] = "done"

(***************************************************************************)
(* What the comment in _trim_buffer says (engine.py:303): the buffer is    *)
(* trimmed "so Anthropic's validator is happy"; a request never starts     *)
(* with the results of a tool use that was trimmed away.                   *)
(***************************************************************************)
ValidatorHappyWithHead ==
    ~ overlapped => \A t \in Turns : pc[t] = "asking" => buffer[1].kind # "results"
===============================================================================
