-------------------------------- MODULE Gateway --------------------------------
(***************************************************************************)
(* The confirmation flow of one user: Gateway (gateway/core.py), its       *)
(* ConfirmationGate (gateway/confirmation.py), the Telegram handlers that  *)
(* call it (gateway/telegram_bot.py), the part of IntentEngine that asks   *)
(* the gate (intent/engine.py), and the audit log entry of each turn.      *)
(*                                                                         *)
(* aiogram handles every update in a task of its own, so the turns of one  *)
(* user interleave at each await: at the requests to Claude, at the tools  *)
(* and at the audit log. Everything between two awaits is one step. What   *)
(* Claude asks for is arbitrary. An engine and its gate are created        *)
(* together and dropped together by /reset; they share a number here.      *)
(***************************************************************************)
EXTENDS Naturals, FiniteSets

CONSTANTS Updates,     \* the messages and button clicks of the user
          Actions,     \* tool calls, identified by action_id
          Guarded,     \* those whose tool requires_confirmation
          TTL,         \* life of an approval (ttl_s, 300 s)
          MaxTime,     \* bound on the clock
          MaxEngines,  \* bound on the engines created, one more than resets
          MaxUses      \* bound on the tool calls of one turn

ASSUME GuardedAssumption == Guarded \subseteq Actions
ASSUME TimeAssumption == TTL \in Nat /\ MaxTime \in Nat
ASSUME BoundsAssumption == MaxEngines \in Nat \ {0} /\ MaxUses \in Nat

Engines == 1 .. MaxEngines
Times == 0 .. MaxTime
Never == MaxTime + 1

VARIABLES
    now,        \* time.monotonic()
    pc, kind,   \* where the handler of each update stands, what it handles
    held,       \* the engine a turn runs on
    uses,       \* the tool calls a turn has made
    deferred,   \* ghost: the actions the gate deferred in a turn
    executed,   \* the actions a turn executed (its tool_calls)
    offered,    \* pending_actions of the turn's GatewayResponse
    buttons,    \* the updates whose reply carries a Yes/No keyboard
    audited,    \* the entry of each turn in the audit log
    current,    \* _engines and _gates: the user's engine and gate, 0 for none
    made,       \* the number of engines created so far
    inTurn,     \* _pending_in_turn of each engine
    approved,   \* _approved of each gate: the time of the approval or Never
    denied,     \* _denied of each gate
    pending,    \* _pending_actions
    grants,     \* ghost: how often Yes was applied to an action, per gate
    lastGrant,  \* ghost: when that happened last
    refused,    \* ghost: the actions whose latest decision is No, per gate
    runs,       \* ghost: how often an action was executed, per engine
    overlapped  \* ghost: two turns of the user were in progress together

turnVars == <<pc, kind, held, uses, deferred, executed, offered, buttons, audited>>
userVars == <<current, made, inTurn, approved, denied, pending>>
ghostVars == <<grants, lastGrant, refused, runs, overlapped>>
vars == <<now, turnVars, userVars, ghostVars>>

Busy(u) == pc[u] \in {"running", "auditing"}

Init ==
    /\ now = 0
    /\ pc = [u \in Updates |-> "idle"]
    /\ kind = [u \in Updates |-> "none"]
    /\ held = [u \in Updates |-> 0]
    /\ uses = [u \in Updates |-> 0]
    /\ deferred = [u \in Updates |-> {}]
    /\ executed = [u \in Updates |-> {}]
    /\ offered = [u \in Updates |-> {}]
    /\ buttons = {}
    /\ audited = [u \in Updates |-> "none"]
    /\ current = 0 /\ made = 0
    /\ inTurn = [e \in Engines |-> {}]
    /\ approved = [e \in Engines |-> [a \in Guarded |-> Never]]
    /\ denied = [e \in Engines |-> {}]
    /\ pending = {}
    /\ grants = [e \in Engines |-> [a \in Guarded |-> 0]]
    /\ lastGrant = [e \in Engines |-> [a \in Guarded |-> Never]]
    /\ refused = [e \in Engines |-> {}]
    /\ runs = [e \in Engines |-> [a \in Guarded |-> 0]]
    /\ overlapped = FALSE

-------------------------------------------------------------------------------
StartTurnKeepingDeferrals(u, e, k) ==   \* mutant: run() keeps _pending_in_turn
    /\ pc' = [pc EXCEPT ![u] = "running"]
    /\ kind' = [kind EXCEPT ![u] = k]
    /\ held' = [held EXCEPT ![u] = e]
    /\ overlapped' = (overlapped \/ \E v \in Updates : Busy(v))
    /\ UNCHANGED inTurn

(***************************************************************************)
(* _run_turn up to its first await, on engine e: run() forgets the         *)
(* deferrals of the engine's turn before.                                  *)
(***************************************************************************)
StartTurn(u, e, k) ==
    /\ pc' = [pc EXCEPT ![u] = "running"]
    /\ kind' = [kind EXCEPT ![u] = k]
    /\ held' = [held EXCEPT ![u] = e]
    /\ inTurn' = [inTurn EXCEPT ![e] = {}]
    /\ overlapped' = (overlapped \/ \E v \in Updates : Busy(v))

(***************************************************************************)
(* _get_or_create_engine: the first turn, and the first after /reset, runs *)
(* on a new engine, with a new gate.                                       *)
(***************************************************************************)
OnEngine(u, k) ==
    \/ /\ current # 0
       /\ StartTurn(u, current, k)
       /\ UNCHANGED <<current, made>>
    \/ /\ current = 0
       /\ made < MaxEngines
       /\ made' = made + 1
       /\ current' = made'
       /\ StartTurn(u, made', k)

(***************************************************************************)
(* handle_text, for an allowed user whose message is not refused.          *)
(***************************************************************************)
Text(u) ==
    /\ pc[u] = "idle"
    /\ OnEngine(u, "text")
    /\ UNCHANGED <<now, uses, deferred, executed, offered, buttons, audited,
                   approved, denied, pending, grants, lastGrant, refused, runs>>

(***************************************************************************)
(* A click on any keyboard ever sent, when nothing is pending or the gate  *)
(* is gone: "Keine offene Aktion", and nothing changes.                    *)
(***************************************************************************)
IdleClick(u) ==
    /\ pc[u] = "idle"
    /\ buttons # {}
    /\ pending = {} \/ current = 0
    /\ pc' = [pc EXCEPT ![u] = "done"]
    /\ kind' = [kind EXCEPT ![u] = "click"]
    /\ UNCHANGED <<now, held, uses, deferred, executed, offered, buttons, audited,
                   userVars, ghostVars>>

ClickKeepsPending(u, k) ==   \* mutant: a decided action stays pending
    /\ pc[u] = "idle"
    /\ buttons # {}
    /\ pending # {} /\ current # 0
    /\ OnEngine(u, k)
    /\ UNCHANGED <<now, uses, deferred, executed, offered, buttons, audited, pending, runs>>

(***************************************************************************)
(* on_confirmation_callback: a click on any keyboard applies to all the    *)
(* actions pending now. They are no longer pending, and one more turn runs.*)
(***************************************************************************)
Click(u, k) ==
    /\ pc[u] = "idle"
    /\ buttons # {}
    /\ pending # {} /\ current # 0
    /\ pending' = {}
    /\ OnEngine(u, k)
    /\ UNCHANGED <<now, uses, deferred, executed, offered, buttons, audited, runs>>

(***************************************************************************)
(* ConfirmationGate.approve: the approvals are stamped with the time.      *)
(***************************************************************************)
Stamp(f) ==
    [f EXCEPT ![current] = [a \in Guarded |-> IF a \in pending THEN now ELSE @[a]]]

(***************************************************************************)
(* confirm_action marks the actions in the gate.                           *)
(***************************************************************************)
Yes(u) ==
    /\ Click(u, "yes")
    /\ approved' = Stamp(approved)
    /\ lastGrant' = Stamp(lastGrant)
    /\ grants' = [grants EXCEPT ![current] =
                    [a \in Guarded |-> IF a \in pending THEN @[a] + 1 ELSE @[a]]]
    /\ refused' = [refused EXCEPT ![current] = @ \ pending]
    /\ UNCHANGED denied

No(u) ==
    /\ Click(u, "no")
    /\ denied' = [denied EXCEPT ![current] = @ \union pending]
    /\ refused' = [refused EXCEPT ![current] = @ \union pending]
    /\ UNCHANGED <<approved, grants, lastGrant>>

-------------------------------------------------------------------------------
(***************************************************************************)
(* ConfirmationGate.decide first drops the approvals older than the TTL.   *)
(***************************************************************************)
Unexpired(e) == approved[e]   \* mutant: approvals do not expire

Fresh(e) == [a \in Guarded |-> IF approved[e][a] # Never /\ approved[e][a] + TTL < now
                               THEN Never ELSE approved[e][a]]

(***************************************************************************)
(* Claude asks for an action: _execute runs it, or asks the gate first.    *)
(* The gate denies, approves or defers, and uses up the marker it found.   *)
(***************************************************************************)
RunsTool(u) == /\ pc[u] = "running"
               /\ uses[u] < MaxUses
               /\ uses' = [uses EXCEPT ![u] = @ + 1]

UseFree(u, a) ==
    /\ RunsTool(u)
    /\ a \notin Guarded
    /\ executed' = [executed EXCEPT ![u] = @ \union {a}]
    /\ UNCHANGED <<now, pc, kind, held, deferred, offered, buttons, audited,
                   userVars, ghostVars>>

Deny(u, a) ==
    /\ RunsTool(u)
    /\ a \in Guarded /\ a \in denied[held[u]]
    /\ denied' = [denied EXCEPT ![held[u]] = @ \ {a}]
    /\ approved' = [approved EXCEPT ![held[u]] = Fresh(held[u])]
    /\ UNCHANGED <<now, pc, kind, held, deferred, executed, offered, buttons, audited,
                   current, made, inTurn, pending, ghostVars>>

ApproveAndKeep(u, a) ==   \* mutant: the approval is not used up
    /\ RunsTool(u)
    /\ a \in Guarded /\ a \notin denied[held[u]]
    /\ Fresh(held[u])[a] # Never
    /\ approved' = [approved EXCEPT ![held[u]] = Fresh(held[u])]
    /\ executed' = [executed EXCEPT ![u] = @ \union {a}]
    /\ runs' = [runs EXCEPT ![held[u]][a] = @ + 1]
    /\ UNCHANGED <<now, pc, kind, held, deferred, offered, buttons, audited,
                   current, made, inTurn, denied, pending,
                   grants, lastGrant, refused, overlapped>>

Approve(u, a) ==
    /\ RunsTool(u)
    /\ a \in Guarded /\ a \notin denied[held[u]]
    /\ Fresh(held[u])[a] # Never
    /\ approved' = [approved EXCEPT ![held[u]] = [Fresh(held[u]) EXCEPT ![a] = Never]]
    /\ executed' = [executed EXCEPT ![u] = @ \union {a}]
    /\ runs' = [runs EXCEPT ![held[u]][a] = @ + 1]
    /\ UNCHANGED <<now, pc, kind, held, deferred, offered, buttons, audited,
                   current, made, inTurn, denied, pending,
                   grants, lastGrant, refused, overlapped>>

Defer(u, a) ==
    /\ RunsTool(u)
    /\ a \in Guarded /\ a \notin denied[held[u]]
    /\ Fresh(held[u])[a] = Never
    /\ approved' = [approved EXCEPT ![held[u]] = Fresh(held[u])]
    /\ inTurn' = [inTurn EXCEPT ![held[u]] = @ \union {a}]
    /\ deferred' = [deferred EXCEPT ![u] = @ \union {a}]
    /\ UNCHANGED <<now, pc, kind, held, executed, offered, buttons, audited,
                   current, made, denied, pending, ghostVars>>

AnswerOffersAll(u) ==   \* mutant: executed actions are offered as well
    /\ pc[u] = "running"
    /\ pc' = [pc EXCEPT ![u] = "auditing"]
    /\ offered' = [offered EXCEPT ![u] = inTurn[held[u]] \union executed[u]]
    /\ pending' = pending \union offered'[u]
    /\ UNCHANGED <<now, kind, held, uses, deferred, executed, buttons, audited,
                   current, made, inTurn, approved, denied, ghostVars>>

(***************************************************************************)
(* run() returns an answer: what the engine lists as deferred becomes      *)
(* pending for the user, whatever engine the user has by now.              *)
(***************************************************************************)
Answer(u) ==
    /\ pc[u] = "running"
    /\ pc' = [pc EXCEPT ![u] = "auditing"]
    /\ offered' = [offered EXCEPT ![u] = inTurn[held[u]]]
    /\ pending' = pending \union inTurn[held[u]]
    /\ UNCHANGED <<now, kind, held, uses, deferred, executed, buttons, audited,
                   current, made, inTurn, approved, denied, ghostVars>>

(***************************************************************************)
(* append_turn: one line for the turn, with the calls it lists or without. *)
(***************************************************************************)
Audit(u, entry) == audited' = [audited EXCEPT ![u] = entry]

(***************************************************************************)
(* on_text attaches a keyboard to a reply with pending actions; the reply  *)
(* to a click never has one.                                               *)
(***************************************************************************)
Keyboard(u) == IF kind[u] = "text" /\ offered[u] # {} THEN {u} ELSE {}

(***************************************************************************)
(* The turn is written to the audit log and the reply is sent.             *)
(***************************************************************************)
Reply(u) ==
    /\ pc[u] = "auditing"
    /\ pc' = [pc EXCEPT ![u] = "done"]
    /\ Audit(u, "with calls")
    /\ buttons' = buttons \union Keyboard(u)
    /\ UNCHANGED <<now, kind, held, uses, deferred, executed, offered, userVars, ghostVars>>

(***************************************************************************)
(* IntentEngineError (the iteration cap): the audit entry has no calls.    *)
(***************************************************************************)
EngineError(u) ==
    /\ pc[u] = "running"
    /\ pc' = [pc EXCEPT ![u] = "done"]
    /\ Audit(u, "without calls")
    /\ UNCHANGED <<now, kind, held, uses, deferred, executed, offered, buttons,
                   userVars, ghostVars>>

(***************************************************************************)
(* Any other exception, such as an error of the Anthropic client or of the *)
(* disk the audit log is on, leaves _run_turn: no entry and no reply.      *)
(***************************************************************************)
TurnRaises(u) ==
    /\ Busy(u)
    /\ pc' = [pc EXCEPT ![u] = "done"]
    /\ UNCHANGED <<now, kind, held, uses, deferred, executed, offered, buttons, audited,
                   userVars, ghostVars>>

(***************************************************************************)
(* /reset: reset_user drops the engine, the gate and the pending actions;  *)
(* turns in progress keep the engine they hold.                            *)
(***************************************************************************)
Reset ==
    /\ current # 0 \/ pending # {}
    /\ made < MaxEngines
    /\ current' = 0
    /\ pending' = {}
    /\ UNCHANGED <<now, turnVars, made, inTurn, approved, denied, ghostVars>>

(***************************************************************************)
(* The process ends and is started again: engines, gates and pending       *)
(* actions were only in memory, turns in progress are gone without an      *)
(* entry in the log. The keyboards are still in the chat. An update that   *)
(* Telegram delivers a second time is one more update here.                *)
(***************************************************************************)
Restart ==
    /\ made \in 1 .. (MaxEngines - 1)
    /\ current' = 0
    /\ pending' = {}
    /\ pc' = [u \in Updates |-> IF Busy(u) THEN "done" ELSE pc[u]]
    /\ UNCHANGED <<now, kind, held, uses, deferred, executed, offered, buttons, audited,
                   made, inTurn, approved, denied, ghostVars>>

Tick == /\ now < MaxTime
        /\ now' = now + 1
        /\ UNCHANGED <<turnVars, userVars, ghostVars>>

Handle(u) ==
    \/ Text(u) \/ IdleClick(u) \/ Yes(u) \/ No(u)
    \/ Answer(u) \/ Reply(u) \/ EngineError(u) \/ TurnRaises(u)
    \/ \E a \in Actions : UseFree(u, a) \/ Deny(u, a) \/ Approve(u, a) \/ Defer(u, a)

Next == Reset \/ Restart \/ Tick \/ \E u \in Updates : Handle(u)

Spec == Init /\ [][Next]_vars

-------------------------------------------------------------------------------
(***************************************************************************)
(* The type invariant.                                                     *)
(***************************************************************************)
TypeOK ==
    /\ now \in Times
    /\ pc \in [Updates -> {"idle", "running", "auditing", "done"}]
    /\ kind \in [Updates -> {"none", "text", "yes", "no", "click"}]
    /\ held \in [Updates -> 0 .. MaxEngines]
    /\ uses \in [Updates -> 0 .. MaxUses]
    /\ deferred \in [Updates -> SUBSET Guarded]
    /\ executed \in [Updates -> SUBSET Actions]
    /\ offered \in [Updates -> SUBSET Guarded]
    /\ buttons \in SUBSET Updates
    /\ audited \in [Updates -> {"none", "with calls", "without calls"}]
    /\ current \in 0 .. MaxEngines /\ made \in 0 .. MaxEngines
    /\ inTurn \in [Engines -> SUBSET Guarded]
    /\ approved \in [Engines -> [Guarded -> Times \union {Never}]]
    /\ denied \in [Engines -> SUBSET Guarded]
    /\ pending \in SUBSET Guarded
    /\ grants \in [Engines -> [Guarded -> Nat]]
    /\ lastGrant \in [Engines -> [Guarded -> Times \union {Never}]]
    /\ refused \in [Engines -> SUBSET Guarded]
    /\ runs \in [Engines -> [Guarded -> Nat]]
    /\ overlapped \in BOOLEAN

(***************************************************************************)
(* A Yes executes an action at most once: of a guarded action there are    *)
(* never more executions on an engine than the user said Yes to it since   *)
(* that engine exists, however many turns consult the gate at once. So an  *)
(* approval is not used twice, and none survives /reset into a new engine. *)
(***************************************************************************)
OneRunPerYes ==
    \A e \in Engines, a \in Guarded : runs[e][a] <= grants[e][a]

(***************************************************************************)
(* Turns, engines, gates, keyboards, expiry, /reset and restarts together  *)
(* implement Consent: whenever a guarded action is executed the user has   *)
(* an unused Yes to it in the same conversation, and the latest one is no  *)
(* older than the TTL, so that a forgotten approval executes nothing later.*)
(***************************************************************************)
UserConsent == INSTANCE Consent WITH Conversations <- Engines, Actions <- Guarded,
                                     clock <- now, yeses <- grants, latest <- lastGrant

ImplementsConsent == UserConsent!Spec

(***************************************************************************)
(* While the turns of the user do not overlap, No is final: an action does *)
(* not run once the user's latest decision on it is No, even if an earlier *)
(* Yes was not used, until the user says Yes again.                        *)
(***************************************************************************)
NoIsFinal ==
    [][\A e \in Engines, a \in Guarded :
          runs'[e][a] > runs[e][a] /\ ~ overlapped => a \notin refused[e]]_vars

(***************************************************************************)
(* While they do not overlap, a turn offers for confirmation exactly what  *)
(* the gate deferred in it: nothing is lost, and nothing of an earlier     *)
(* turn that was denied or cancelled is offered again.                     *)
(***************************************************************************)
OffersOwnDeferrals ==
    ~ overlapped => \A u \in Updates : pc[u] = "auditing" => offered[u] = deferred[u]

(***************************************************************************)
(* What the engine tells Claude about a deferred action (engine.py:255):   *)
(* "The user will see Yes/No buttons". Every turn that answered after the  *)
(* gate deferred an action carries a keyboard.                             *)
(***************************************************************************)
DeferralsGetButtons ==
    ~ overlapped =>
        \A u \in Updates : audited[u] = "with calls" /\ deferred[u] # {} => u \in buttons

(***************************************************************************)
(* What the audit log says of itself (audit.py:3): "every action initiated *)
(* via the assistant is recorded" and the log is the source of truth for   *)
(* what the system did. A finished turn's executed actions are in it.      *)
(***************************************************************************)
ExecutedIsAudited ==
    \A u \in Updates : pc[u] = "done" /\ executed[u] # {} => audited[u] = "with calls"
===============================================================================
