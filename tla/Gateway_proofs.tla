----------------------------- MODULE Gateway_proofs -----------------------------
(***************************************************************************)
(* Gateway implements Consent, for any updates and actions, any TTL and    *)
(* any bounds: a Yes executes an action at most once, and not late.        *)
(***************************************************************************)
EXTENDS Gateway, TLAPS

(***************************************************************************)
(* What makes it so: a turn in progress has an engine; an approval in the  *)
(* gate is one Yes that was not used, and carries the time of the latest.  *)
(***************************************************************************)
Held == \A u \in Updates : Busy(u) => held[u] \in Engines

Unused(e, a) == IF approved[e][a] = Never THEN 0 ELSE 1

Credit == \A e \in Engines, a \in Guarded : runs[e][a] + Unused(e, a) <= grants[e][a]

Stamped == \A e \in Engines, a \in Guarded :
              approved[e][a] # Never => approved[e][a] = lastGrant[e][a]

Inv == TypeOK /\ Held /\ Credit /\ Stamped

-------------------------------------------------------------------------------
LEMMA Numbers ==
  TypeOK => /\ 0 \in 0 .. MaxEngines
            /\ Engines \subseteq 0 .. MaxEngines
            /\ now \in Nat /\ now <= MaxTime /\ MaxTime \in Nat
            /\ MaxUses \in Nat
            /\ uses \in [Updates -> 0 .. MaxUses]
<1> SUFFICES ASSUME TypeOK PROVE /\ 0 \in 0 .. MaxEngines
                                 /\ Engines \subseteq 0 .. MaxEngines
                                 /\ now \in Nat /\ now <= MaxTime /\ MaxTime \in Nat
                                 /\ MaxUses \in Nat
                                 /\ uses \in [Updates -> 0 .. MaxUses]
  OBVIOUS
<1>1. now \in Times /\ uses \in [Updates -> 0 .. MaxUses]
  BY DEF TypeOK
<1> QED
  BY <1>1, BoundsAssumption, TimeAssumption DEF Engines, Times

LEMMA NeverIsNoTime == Never \notin Times /\ Never \in Nat
BY TimeAssumption DEF Never, Times

(***************************************************************************)
(* decide looks at the approvals of the gate that are still fresh.         *)
(***************************************************************************)
LEMMA FreshApprovals ==
  ASSUME TypeOK, NEW e \in Engines
  PROVE  /\ Fresh(e) \in [Guarded -> Times \union {Never}]
         /\ \A a \in Guarded : Fresh(e)[a] # Never => /\ Fresh(e)[a] = approved[e][a]
                                                      /\ now <= approved[e][a] + TTL
<1>1. approved[e] \in [Guarded -> Times \union {Never}]
  BY DEF TypeOK
<1>2. now \in Nat /\ TTL \in Nat
  <2>1. now \in Times
    BY DEF TypeOK
  <2> QED
    BY <2>1, TimeAssumption DEF Times
<1>3. ASSUME NEW a \in Guarded
      PROVE  /\ Fresh(e)[a] \in Times \union {Never}
             /\ Fresh(e)[a] # Never => /\ Fresh(e)[a] = approved[e][a]
                                       /\ now <= approved[e][a] + TTL
  <2>1. approved[e][a] \in Nat
    BY <1>1, NeverIsNoTime DEF Times
  <2>2. Fresh(e)[a] = IF approved[e][a] # Never /\ approved[e][a] + TTL < now
                      THEN Never ELSE approved[e][a]
    BY DEF Fresh
  <2> QED
    BY <1>1, <1>2, <2>1, <2>2
<1> QED
  BY <1>3 DEF Fresh

(***************************************************************************)
(* What a turn does when it starts: it gets the engine the user has.       *)
(***************************************************************************)
LEMMA OnEngineEffect ==
  ASSUME TypeOK, NEW u \in Updates, NEW k \in {"text", "yes", "no"}, OnEngine(u, k)
  PROVE  \E e \in Engines :
            /\ current' = e
            /\ current # 0 => e = current
            /\ made' \in 0 .. MaxEngines
            /\ pc' = [pc EXCEPT ![u] = "running"]
            /\ kind' = [kind EXCEPT ![u] = k]
            /\ held' = [held EXCEPT ![u] = e]
            /\ inTurn' = [inTurn EXCEPT ![e] = {}]
            /\ overlapped' \in BOOLEAN
<1> DEFINE Started(e) ==
      /\ pc' = [pc EXCEPT ![u] = "running"]
      /\ kind' = [kind EXCEPT ![u] = k]
      /\ held' = [held EXCEPT ![u] = e]
      /\ inTurn' = [inTurn EXCEPT ![e] = {}]
      /\ overlapped' \in BOOLEAN
<1>a. ASSUME NEW e, StartTurn(u, e, k) PROVE Started(e)
  BY <1>a DEF StartTurn
<1>b. current \in 0 .. MaxEngines /\ made \in 0 .. MaxEngines /\ MaxEngines \in Nat \ {0}
  BY BoundsAssumption DEF TypeOK
<1>1. CASE current # 0
  <2>1. current \in Engines /\ StartTurn(u, current, k) /\ UNCHANGED <<current, made>>
    BY <1>1, <1>b DEF OnEngine, Engines
  <2> QED
    BY <1>a, <1>b, <2>1
<1>2. CASE current = 0
  <2>1. made' = made + 1 /\ made' \in Engines /\ current' = made' /\ StartTurn(u, made', k)
    BY <1>2, <1>b DEF OnEngine, Engines
  <2>2. made' \in 0 .. MaxEngines
    BY <2>1, <1>b DEF Engines
  <2> QED
    BY <1>a, <1>2, <2>1, <2>2
<1> QED
  BY <1>1, <1>2

LEMMA StartHolds ==
  ASSUME TypeOK, Held, NEW u \in Updates, NEW e \in Engines,
         pc' = [pc EXCEPT ![u] = "running"], held' = [held EXCEPT ![u] = e]
  PROVE  Held'
BY DEF TypeOK, Held, Busy

LEMMA InvInit == Init => Inv
<1> SUFFICES ASSUME Init PROVE Inv
  OBVIOUS
<1>1. 0 \in Times /\ 0 \in 0 .. MaxEngines /\ 0 \in 0 .. MaxUses
  BY BoundsAssumption, TimeAssumption DEF Times
<1>2. TypeOK
  BY <1>1 DEF Init, TypeOK
<1>3. Held
  BY DEF Init, Held, Busy
<1>4. Credit /\ Stamped
  BY DEF Init, Credit, Stamped, Unused
<1> QED
  BY <1>2, <1>3, <1>4 DEF Inv

(***************************************************************************)
(* A step that leaves gates and history alone keeps what they tell.        *)
(***************************************************************************)
LEMMA GatesAlone ==
  ASSUME Credit, Stamped, UNCHANGED <<approved, grants, lastGrant, runs>>
  PROVE  Credit' /\ Stamped'
BY DEF Credit, Stamped, Unused

(***************************************************************************)
(* So does one that drops approvals that are no longer fresh, and one that *)
(* uses up an approval to execute its action.                              *)
(***************************************************************************)
LEMMA GatesDecide ==
  ASSUME Inv, NEW e \in Engines, UNCHANGED <<grants, lastGrant>>,
         \/ /\ approved' = [approved EXCEPT ![e] = Fresh(e)]
            /\ UNCHANGED runs
         \/ \E a \in Guarded :
               /\ Fresh(e)[a] # Never
               /\ approved' = [approved EXCEPT ![e] = [Fresh(e) EXCEPT ![a] = Never]]
               /\ runs' = [runs EXCEPT ![e][a] = @ + 1]
  PROVE  /\ approved' \in [Engines -> [Guarded -> Times \union {Never}]]
         /\ runs' \in [Engines -> [Guarded -> Nat]]
         /\ Credit' /\ Stamped'
<1>1. /\ approved \in [Engines -> [Guarded -> Times \union {Never}]]
      /\ runs \in [Engines -> [Guarded -> Nat]]
      /\ grants \in [Engines -> [Guarded -> Nat]]
  BY DEF Inv, TypeOK
<1>2. /\ Fresh(e) \in [Guarded -> Times \union {Never}]
      /\ \A a \in Guarded : Fresh(e)[a] # Never => Fresh(e)[a] = approved[e][a]
  BY FreshApprovals DEF Inv
<1>3. Credit /\ Stamped
  BY DEF Inv
<1>4. CASE approved' = [approved EXCEPT ![e] = Fresh(e)] /\ UNCHANGED runs
  <2>1. approved' \in [Engines -> [Guarded -> Times \union {Never}]]
    BY <1>1, <1>2, <1>4
  <2>2. \A d \in Engines, a \in Guarded :
           approved'[d][a] # Never => approved'[d][a] = approved[d][a]
    BY <1>1, <1>2, <1>4
  <2>3. Credit'
    <3> SUFFICES ASSUME NEW d \in Engines, NEW a \in Guarded
                 PROVE  runs[d][a] + Unused(d, a)' <= grants[d][a]
      BY <1>4 DEF Credit
    <3>1. runs[d][a] + Unused(d, a) <= grants[d][a] /\ runs[d][a] \in Nat /\ grants[d][a] \in Nat
      BY <1>1, <1>3 DEF Credit
    <3>2. Unused(d, a)' <= Unused(d, a) /\ Unused(d, a)' \in {0, 1} /\ Unused(d, a) \in {0, 1}
      BY <2>2 DEF Unused
    <3> QED
      BY <3>1, <3>2
  <2>4. Stamped'
    BY <1>3, <2>2 DEF Stamped
  <2> QED
    BY <1>1, <1>4, <2>1, <2>3, <2>4
<1>5. ASSUME NEW b \in Guarded,
             Fresh(e)[b] # Never,
             approved' = [approved EXCEPT ![e] = [Fresh(e) EXCEPT ![b] = Never]],
             runs' = [runs EXCEPT ![e][b] = @ + 1]
      PROVE  /\ approved' \in [Engines -> [Guarded -> Times \union {Never}]]
             /\ runs' \in [Engines -> [Guarded -> Nat]]
             /\ Credit' /\ Stamped'
  <2>1. approved' \in [Engines -> [Guarded -> Times \union {Never}]]
    BY <1>1, <1>2, <1>5
  <2>2. runs' \in [Engines -> [Guarded -> Nat]]
    BY <1>1, <1>5
  <2>3. /\ \A d \in Engines, a \in Guarded :
              approved'[d][a] # Never => approved'[d][a] = approved[d][a]
        /\ approved'[e][b] = Never
        /\ approved[e][b] # Never
    BY <1>1, <1>2, <1>5
  <2>4. Credit'
    <3> SUFFICES ASSUME NEW d \in Engines, NEW a \in Guarded
                 PROVE  runs'[d][a] + Unused(d, a)' <= grants[d][a]
      BY DEF Credit
    <3>1. runs[d][a] + Unused(d, a) <= grants[d][a] /\ runs[d][a] \in Nat /\ grants[d][a] \in Nat
      BY <1>1, <1>3 DEF Credit
    <3>2. Unused(d, a)' <= Unused(d, a) /\ Unused(d, a)' \in {0, 1} /\ Unused(d, a) \in {0, 1}
      BY <2>3 DEF Unused
    <3>3. d = e /\ a = b => Unused(d, a)' = 0 /\ Unused(d, a) = 1
      BY <2>3 DEF Unused
    <3>4. runs'[d][a] = IF d = e /\ a = b THEN runs[d][a] + 1 ELSE runs[d][a]
      BY <1>1, <1>5
    <3> QED
      BY <3>1, <3>2, <3>3, <3>4
  <2>5. Stamped'
    BY <1>3, <2>3 DEF Stamped
  <2> QED
    BY <2>1, <2>2, <2>4, <2>5
<1> QED
  BY <1>4, <1>5

(***************************************************************************)
(* A Yes adds one approval per action asked for, stamped with its time.    *)
(***************************************************************************)
LEMMA GatesApprove ==
  ASSUME Inv, current \in Engines, UNCHANGED runs,
         approved' = Stamp(approved), lastGrant' = Stamp(lastGrant),
         grants' = [grants EXCEPT ![current] =
                      [a \in Guarded |-> IF a \in pending THEN @[a] + 1 ELSE @[a]]]
  PROVE  /\ approved' \in [Engines -> [Guarded -> Times \union {Never}]]
         /\ lastGrant' \in [Engines -> [Guarded -> Times \union {Never}]]
         /\ grants' \in [Engines -> [Guarded -> Nat]]
         /\ Credit' /\ Stamped'
<1>1. /\ approved \in [Engines -> [Guarded -> Times \union {Never}]]
      /\ lastGrant \in [Engines -> [Guarded -> Times \union {Never}]]
      /\ runs \in [Engines -> [Guarded -> Nat]]
      /\ grants \in [Engines -> [Guarded -> Nat]]
      /\ now \in Times
  BY DEF Inv, TypeOK
<1>2. Credit /\ Stamped
  BY DEF Inv
<1>3. /\ approved' \in [Engines -> [Guarded -> Times \union {Never}]]
      /\ lastGrant' \in [Engines -> [Guarded -> Times \union {Never}]]
      /\ grants' \in [Engines -> [Guarded -> Nat]]
  BY <1>1 DEF Stamp
<1>4. \A d \in Engines, a \in Guarded :
         IF d = current /\ a \in pending
         THEN /\ approved'[d][a] = now /\ lastGrant'[d][a] = now
              /\ grants'[d][a] = grants[d][a] + 1
         ELSE /\ approved'[d][a] = approved[d][a] /\ lastGrant'[d][a] = lastGrant[d][a]
              /\ grants'[d][a] = grants[d][a]
  BY <1>1 DEF Stamp
<1>5. Credit'
  <2> SUFFICES ASSUME NEW d \in Engines, NEW a \in Guarded
               PROVE  runs[d][a] + Unused(d, a)' <= grants'[d][a]
    BY DEF Credit
  <2>1. runs[d][a] + Unused(d, a) <= grants[d][a] /\ runs[d][a] \in Nat /\ grants[d][a] \in Nat
    BY <1>1, <1>2 DEF Credit
  <2>2. Unused(d, a)' \in {0, 1} /\ Unused(d, a) \in {0, 1}
    BY DEF Unused
  <2>3. ~ (d = current /\ a \in pending) => Unused(d, a)' = Unused(d, a)
    BY <1>4 DEF Unused
  <2> QED
    BY <1>4, <2>1, <2>2, <2>3
<1>6. Stamped'
  BY <1>2, <1>4 DEF Stamped
<1> QED
  BY <1>3, <1>5, <1>6

-------------------------------------------------------------------------------
LEMMA InvStep == Inv /\ [Next]_vars => Inv'
<1> SUFFICES ASSUME Inv, [Next]_vars PROVE Inv'
  OBVIOUS
<1> USE DEF Inv
<1>1. ASSUME NEW u \in Updates, Text(u) PROVE Inv'
  <2>1. PICK e \in Engines :
           /\ current' = e
           /\ made' \in 0 .. MaxEngines
           /\ pc' = [pc EXCEPT ![u] = "running"]
           /\ kind' = [kind EXCEPT ![u] = "text"]
           /\ held' = [held EXCEPT ![u] = e]
           /\ inTurn' = [inTurn EXCEPT ![e] = {}]
           /\ overlapped' \in BOOLEAN
    BY <1>1, OnEngineEffect DEF Text
  <2>2. TypeOK'
    <3>1. current' \in 0 .. MaxEngines
      BY <2>1, Numbers
    <3>2. /\ kind' \in [Updates -> {"none", "text", "yes", "no", "click"}]
          /\ held' \in [Updates -> 0 .. MaxEngines]
          /\ inTurn' \in [Engines -> SUBSET Guarded]
      BY <2>1, Numbers DEF TypeOK
    <3> QED
      BY <1>1, <2>1, <3>1, <3>2 DEF Text, TypeOK
  <2>3. Held'
    BY <2>1 DEF Held, Busy, TypeOK
  <2>4. Credit' /\ Stamped'
    BY <1>1, GatesAlone DEF Text
  <2> QED
    BY <2>2, <2>3, <2>4
<1>2. ASSUME NEW u \in Updates, NEW k \in {"yes", "no"}, Click(u, k)
      PROVE  /\ current \in Engines /\ current' = current
             /\ current' \in 0 .. MaxEngines
             /\ made' \in 0 .. MaxEngines
             /\ pc' \in [Updates -> {"idle", "running", "auditing", "done"}]
             /\ kind' \in [Updates -> {"none", "text", "yes", "no", "click"}]
             /\ held' \in [Updates -> 0 .. MaxEngines]
             /\ inTurn' \in [Engines -> SUBSET Guarded]
             /\ pc' = [pc EXCEPT ![u] = "running"]
             /\ kind' = [kind EXCEPT ![u] = k]
             /\ held' = [held EXCEPT ![u] = current]
             /\ inTurn' = [inTurn EXCEPT ![current] = {}]
             /\ overlapped' \in BOOLEAN
             /\ pending' = {}
             /\ UNCHANGED <<now, uses, deferred, executed, offered, buttons, audited, runs>>
  <2>1. PICK e \in Engines :
           /\ current' = e
           /\ current # 0 => e = current
           /\ made' \in 0 .. MaxEngines
           /\ pc' = [pc EXCEPT ![u] = "running"]
           /\ kind' = [kind EXCEPT ![u] = k]
           /\ held' = [held EXCEPT ![u] = e]
           /\ inTurn' = [inTurn EXCEPT ![e] = {}]
           /\ overlapped' \in BOOLEAN
    BY <1>2, OnEngineEffect DEF Click
  <2>2. e = current
    BY <1>2, <2>1 DEF Click
  <2>3. /\ pc' \in [Updates -> {"idle", "running", "auditing", "done"}]
        /\ kind' \in [Updates -> {"none", "text", "yes", "no", "click"}]
        /\ held' \in [Updates -> 0 .. MaxEngines]
        /\ inTurn' \in [Engines -> SUBSET Guarded]
    BY <2>1, Numbers DEF TypeOK
  <2> QED
    BY <1>2, <2>1, <2>2, <2>3, Numbers DEF Click
<1>3. ASSUME NEW u \in Updates, Yes(u) PROVE Inv'
  <2>1. Click(u, "yes")
    BY <1>3 DEF Yes
  <2>2. /\ approved' \in [Engines -> [Guarded -> Times \union {Never}]]
        /\ lastGrant' \in [Engines -> [Guarded -> Times \union {Never}]]
        /\ grants' \in [Engines -> [Guarded -> Nat]]
        /\ Credit' /\ Stamped'
    BY <1>2, <1>3, <2>1, GatesApprove DEF Yes
  <2>3. refused' \in [Engines -> SUBSET Guarded] /\ denied' = denied
    BY <1>2, <1>3, <2>1 DEF Yes, TypeOK
  <2>4. TypeOK'
    BY <1>2, <2>1, <2>2, <2>3 DEF TypeOK
  <2>5. Held'
    BY <1>2, <2>1, StartHolds
  <2> QED
    BY <2>2, <2>4, <2>5
<1>4. ASSUME NEW u \in Updates, No(u) PROVE Inv'
  <2>1. Click(u, "no")
    BY <1>4 DEF No
  <2>2. refused' \in [Engines -> SUBSET Guarded] /\ denied' \in [Engines -> SUBSET Guarded]
    BY <1>2, <1>4, <2>1 DEF No, TypeOK
  <2>3. TypeOK'
    BY <1>2, <1>4, <2>1, <2>2 DEF No, TypeOK
  <2>4. Held'
    BY <1>2, <2>1, StartHolds
  <2>5. Credit' /\ Stamped'
    BY <1>2, <1>4, <2>1, GatesAlone DEF No
  <2> QED
    BY <2>3, <2>4, <2>5
<1>5. ASSUME NEW u \in Updates, NEW a \in Actions, RunsTool(u),
             Deny(u, a) \/ Approve(u, a) \/ Defer(u, a)
      PROVE  Inv'
  <2>1. held[u] \in Engines /\ uses' \in [Updates -> 0 .. MaxUses]
    <3>1. held[u] \in Engines
      BY <1>5 DEF RunsTool, Held, Busy
    <3>2. uses[u] \in Nat /\ uses[u] + 1 \in 0 .. MaxUses
      BY <1>5, Numbers DEF RunsTool
    <3> QED
      BY <1>5, <3>1, <3>2, Numbers DEF RunsTool
  <2>2. /\ approved' \in [Engines -> [Guarded -> Times \union {Never}]]
        /\ runs' \in [Engines -> [Guarded -> Nat]]
        /\ Credit' /\ Stamped'
    BY <1>5, <2>1, GatesDecide DEF Deny, Approve, Defer, ghostVars
  <2>3. Held'
    BY <1>5 DEF Deny, Approve, Defer, Held, Busy
  <2>4. TypeOK'
    <3>1. CASE Deny(u, a)
      BY <2>1, <2>2, <3>1 DEF Deny, TypeOK, ghostVars
    <3>2. CASE Approve(u, a)
      BY <2>1, <2>2, <3>2 DEF Approve, TypeOK
    <3>3. CASE Defer(u, a)
      <4>1. inTurn' \in [Engines -> SUBSET Guarded] /\ deferred' \in [Updates -> SUBSET Guarded]
        BY <2>1, <3>3 DEF Defer, TypeOK
      <4> QED
        BY <2>1, <2>2, <3>3, <4>1 DEF Defer, TypeOK, ghostVars
    <3> QED
      BY <1>5, <3>1, <3>2, <3>3
  <2> QED
    BY <2>2, <2>3, <2>4
<1>6. ASSUME NEW u \in Updates, NEW a \in Actions, UseFree(u, a) PROVE Inv'
  <2>1. uses' \in [Updates -> 0 .. MaxUses]
    <3>1. uses[u] + 1 \in 0 .. MaxUses
      BY <1>6, Numbers DEF UseFree, RunsTool
    <3> QED
      BY <1>6, <3>1, Numbers DEF UseFree, RunsTool
  <2>2. TypeOK'
    BY <1>6, <2>1 DEF UseFree, TypeOK, userVars, ghostVars
  <2>3. Held'
    BY <1>6 DEF UseFree, Held, Busy
  <2> QED
    BY <1>6, <2>2, <2>3, GatesAlone DEF UseFree, userVars, ghostVars
<1>7. ASSUME NEW u \in Updates, IdleClick(u) \/ EngineError(u) \/ TurnRaises(u) PROVE Inv'
  <2>1. TypeOK'
    BY <1>7 DEF IdleClick, EngineError, TurnRaises, Audit, TypeOK, userVars, ghostVars
  <2>2. Held'
    BY <1>7 DEF IdleClick, EngineError, TurnRaises, Held, Busy, TypeOK
  <2> QED
    BY <1>7, <2>1, <2>2, GatesAlone DEF IdleClick, EngineError, TurnRaises, userVars, ghostVars
<1>8. ASSUME NEW u \in Updates, Answer(u) PROVE Inv'
  <2>1. held[u] \in Engines
    BY <1>8 DEF Answer, Held, Busy
  <2>2. TypeOK'
    BY <1>8, <2>1 DEF Answer, TypeOK, ghostVars
  <2>3. Held'
    BY <1>8 DEF Answer, Held, Busy, TypeOK
  <2> QED
    BY <1>8, <2>2, <2>3, GatesAlone DEF Answer, ghostVars
<1>9. ASSUME NEW u \in Updates, Reply(u) PROVE Inv'
  <2>1. TypeOK'
    BY <1>9 DEF Reply, Audit, Keyboard, TypeOK, userVars, ghostVars
  <2>2. Held'
    BY <1>9 DEF Reply, Held, Busy, TypeOK
  <2> QED
    BY <1>9, <2>1, <2>2, GatesAlone DEF Reply, userVars, ghostVars
<1>10. CASE Reset
  <2>1. TypeOK'
    BY <1>10, Numbers DEF Reset, TypeOK, turnVars, ghostVars
  <2>2. Held'
    BY <1>10 DEF Reset, Held, Busy, turnVars
  <2> QED
    BY <1>10, <2>1, <2>2, GatesAlone DEF Reset, ghostVars
<1>11. CASE Restart
  <2>1. TypeOK'
    BY <1>11, Numbers DEF Restart, TypeOK, ghostVars
  <2>2. Held'
    BY <1>11 DEF Restart, Held, Busy, TypeOK
  <2> QED
    BY <1>11, <2>1, <2>2, GatesAlone DEF Restart, ghostVars
<1>12. CASE Tick
  <2>1. now' \in Times
    BY <1>12, Numbers DEF Tick, Times
  <2>2. TypeOK'
    BY <1>12, <2>1 DEF Tick, TypeOK, turnVars, userVars, ghostVars
  <2>3. Held'
    BY <1>12 DEF Tick, Held, Busy, turnVars
  <2> QED
    BY <1>12, <2>2, <2>3, GatesAlone DEF Tick, userVars, ghostVars
<1>13. CASE UNCHANGED vars
  BY <1>13 DEF vars, turnVars, userVars, ghostVars, TypeOK, Held, Busy, Credit, Stamped, Unused
<1>14. ASSUME NEW u \in Updates, NEW a \in Actions,
              Deny(u, a) \/ Approve(u, a) \/ Defer(u, a)
       PROVE  RunsTool(u)
  BY <1>14 DEF Deny, Approve, Defer
<1> QED
  BY <1>1, <1>3, <1>4, <1>5, <1>6, <1>7, <1>8, <1>9, <1>10, <1>11, <1>12, <1>13, <1>14
  DEF Next, Handle

LEMMA Invariant == Spec => []Inv
BY InvInit, InvStep, PTL DEF Spec

(***************************************************************************)
(* The type invariant of the confirmation flow.                            *)
(***************************************************************************)
THEOREM TypeCorrect == Spec => []TypeOK
<1>1. Inv => TypeOK
  BY DEF Inv
<1> QED
  BY <1>1, Invariant, PTL

(***************************************************************************)
(* A Yes executes an action at most once.                                  *)
(***************************************************************************)
THEOREM OneRunPerYesAlways == Spec => []OneRunPerYes
<1>1. Inv => OneRunPerYes
  <2> SUFFICES ASSUME Inv, NEW e \in Engines, NEW a \in Guarded
               PROVE  runs[e][a] <= grants[e][a]
    BY DEF OneRunPerYes
  <2>1. runs[e][a] \in Nat /\ grants[e][a] \in Nat /\ Unused(e, a) \in {0, 1}
    BY DEF Inv, TypeOK, Unused
  <2> QED
    BY <2>1 DEF Inv, Credit
<1> QED
  BY <1>1, Invariant, PTL

-------------------------------------------------------------------------------
LEMMA ConsentInit == Init => UserConsent!Init
BY DEF Init, UserConsent!Init

(***************************************************************************)
(* A Yes is a Yes to everything pending; an approved call is a run on an   *)
(* unused, fresh Yes; all the rest of the gateway decides nothing.         *)
(***************************************************************************)
LEMMA ConsentStep == Inv /\ [Next]_vars => [UserConsent!Next]_(UserConsent!vars)
<1> SUFFICES ASSUME Inv, [Next]_vars
             PROVE  UserConsent!Next \/ UNCHANGED <<now, grants, lastGrant, runs>>
  BY DEF UserConsent!vars
<1>1. ASSUME NEW u \in Updates, Yes(u) PROVE UserConsent!SayYes(current, pending)
  BY <1>1 DEF Yes, Click, Stamp, UserConsent!SayYes
<1>2. ASSUME NEW u \in Updates, Yes(u) PROVE UserConsent!Next
  <2>1. current \in Engines /\ pending \in SUBSET Guarded
    <3>1. current \in 0 .. MaxEngines /\ pending \in SUBSET Guarded /\ current # 0
      BY <1>2 DEF Yes, Click, Inv, TypeOK
    <3> QED
      BY <3>1, BoundsAssumption DEF Engines
  <2> QED
    BY <1>1, <1>2, <2>1 DEF UserConsent!Next
<1>3. ASSUME NEW u \in Updates, NEW a \in Actions, Approve(u, a) PROVE UserConsent!Next
  <2> DEFINE e == held[u]
  <2>1. e \in Engines /\ a \in Guarded /\ Fresh(e)[a] # Never
    BY <1>3 DEF Approve, RunsTool, Inv, Held, Busy
  <2>2. approved[e][a] # Never /\ now <= approved[e][a] + TTL
    BY <2>1, FreshApprovals DEF Inv
  <2>3. lastGrant[e][a] = approved[e][a]
    BY <2>1, <2>2 DEF Inv, Stamped
  <2>4. runs[e][a] < grants[e][a]
    <3>1. runs[e][a] \in Nat /\ grants[e][a] \in Nat
      BY <2>1 DEF Inv, TypeOK
    <3>2. runs[e][a] + 1 <= grants[e][a]
      BY <2>1, <2>2 DEF Inv, Credit, Unused
    <3> QED
      BY <3>1, <3>2
  <2>5. UserConsent!Run(e, a)
    BY <1>3, <2>2, <2>3, <2>4 DEF Approve, UserConsent!Run
  <2> QED
    BY <2>1, <2>5 DEF UserConsent!Next
<1>4. ASSUME Tick PROVE UserConsent!Next
  BY <1>4 DEF Tick, ghostVars, UserConsent!Pass, UserConsent!Next
<1>5. ASSUME NEW u \in Updates, Text(u) \/ IdleClick(u) \/ No(u) \/ Answer(u) \/ Reply(u)
                                \/ EngineError(u) \/ TurnRaises(u)
      PROVE  UNCHANGED <<now, grants, lastGrant, runs>>
  BY <1>5 DEF Text, IdleClick, No, Click, Answer, Reply, EngineError, TurnRaises, ghostVars
<1>6. ASSUME NEW u \in Updates, NEW a \in Actions, UseFree(u, a) \/ Deny(u, a) \/ Defer(u, a)
      PROVE  UNCHANGED <<now, grants, lastGrant, runs>>
  BY <1>6 DEF UseFree, Deny, Defer, ghostVars
<1>7. CASE Reset \/ Restart \/ UNCHANGED vars
  BY <1>7 DEF Reset, Restart, vars, ghostVars, turnVars
<1> QED
  BY <1>2, <1>3, <1>4, <1>5, <1>6, <1>7 DEF Next, Handle

(***************************************************************************)
(* The confirmation flow implements Consent: whatever the interleaving of  *)
(* turns, clicks, expiry, resets and restarts, a guarded action runs only  *)
(* on an unused Yes of the same conversation, the latest of which is no    *)
(* older than the TTL.                                                     *)
(***************************************************************************)
THEOREM GatewayImplementsConsent == Spec => ImplementsConsent
BY Invariant, ConsentInit, ConsentStep, PTL DEF Spec, ImplementsConsent, UserConsent!Spec

-------------------------------------------------------------------------------
(***************************************************************************)
(* Why No is final and offers are a turn's own while turns do not overlap. *)
(* Engines not made yet have empty gates, and a turn that has not started  *)
(* has deferred nothing. Without an overlap at most one turn is under way, *)
(* on the user's engine unless that was dropped; what the engine lists as  *)
(* deferred is what this turn deferred; and of what is deferred, pending   *)
(* or refused the gate holds no approval, so that a No has nothing to undo.*)
(***************************************************************************)
Unmade ==
    /\ current <= made
    /\ \A e \in Engines, a \in Guarded : e > made => approved[e][a] = Never
    /\ \A u \in Updates : pc[u] = "idle" => deferred[u] = {}

OneAtATime ==
    /\ \A u, v \in Updates : Busy(u) /\ Busy(v) => u = v
    /\ \A u \in Updates : Busy(u) => current \in {0, held[u]}

OwnDeferrals ==
    /\ \A u \in Updates : pc[u] = "running" => inTurn[held[u]] = deferred[u]
    /\ \A u \in Updates : pc[u] = "auditing" => offered[u] = deferred[u]

NothingGranted ==
    /\ \A u \in Updates : pc[u] = "running" =>
          \A a \in inTurn[held[u]] : approved[held[u]][a] = Never
    /\ current # 0 => \A a \in pending : approved[current][a] = Never
    /\ \A e \in Engines : \A a \in refused[e] : approved[e][a] = Never

Quiet == ~ overlapped => OneAtATime /\ OwnDeferrals /\ NothingGranted

(***************************************************************************)
(* The types these lemmas rest on.                                         *)
(***************************************************************************)
LEMMA Types ==
  ASSUME Inv
  PROVE  /\ pc \in [Updates -> {"idle", "running", "auditing", "done"}]
         /\ held \in [Updates -> 0 .. MaxEngines]
         /\ deferred \in [Updates -> SUBSET Guarded]
         /\ offered \in [Updates -> SUBSET Guarded]
         /\ inTurn \in [Engines -> SUBSET Guarded]
         /\ approved \in [Engines -> [Guarded -> Times \union {Never}]]
         /\ refused \in [Engines -> SUBSET Guarded]
         /\ pending \in SUBSET Guarded
         /\ current \in 0 .. MaxEngines
         /\ made \in 0 .. MaxEngines
<1>1. TypeOK
  BY DEF Inv
<1>2. /\ pc \in [Updates -> {"idle", "running", "auditing", "done"}]
      /\ held \in [Updates -> 0 .. MaxEngines]
      /\ deferred \in [Updates -> SUBSET Guarded]
  BY <1>1, Zenon DEF TypeOK
<1>3. /\ offered \in [Updates -> SUBSET Guarded]
      /\ inTurn \in [Engines -> SUBSET Guarded]
      /\ approved \in [Engines -> [Guarded -> Times \union {Never}]]
  BY <1>1, Zenon DEF TypeOK
<1>4. /\ refused \in [Engines -> SUBSET Guarded]
      /\ pending \in SUBSET Guarded
      /\ current \in 0 .. MaxEngines
      /\ made \in 0 .. MaxEngines
  BY <1>1, Zenon DEF TypeOK
<1> QED
  BY <1>2, <1>3, <1>4, Zenon

LEMMA QuietInit == Init => Unmade /\ Quiet
BY DEF Init, Unmade, Quiet, OneAtATime, OwnDeferrals, NothingGranted, Busy

(***************************************************************************)
(* A turn that starts and overlaps none is the only one.                   *)
(***************************************************************************)
LEMMA StartAlone ==
  ASSUME Inv, Unmade, NEW u \in Updates, NEW k, OnEngine(u, k), pc[u] = "idle"
  PROVE  \E e \in Engines :
            /\ current' = e /\ made' \in Nat /\ e <= made' /\ made <= made'
            /\ current # 0 => e = current
            /\ current = 0 => e > made
            /\ pc' = [pc EXCEPT ![u] = "running"]
            /\ held' = [held EXCEPT ![u] = e]
            /\ inTurn' = [inTurn EXCEPT ![e] = {}]
            /\ ~ overlapped' => ~ overlapped /\ \A v \in Updates : ~ Busy(v)
<1>1. current \in 0 .. MaxEngines /\ made \in 0 .. MaxEngines /\ MaxEngines \in Nat \ {0}
      /\ current <= made
  <2>1. current \in 0 .. MaxEngines /\ made \in 0 .. MaxEngines
    BY Types
  <2> QED
    BY <2>1, BoundsAssumption DEF Unmade
<1>2. ASSUME NEW d, StartTurn(u, d, k)
      PROVE  /\ pc' = [pc EXCEPT ![u] = "running"]
             /\ held' = [held EXCEPT ![u] = d]
             /\ inTurn' = [inTurn EXCEPT ![d] = {}]
             /\ ~ overlapped' => ~ overlapped /\ \A v \in Updates : ~ Busy(v)
  <2>1. overlapped' = (overlapped \/ \E v \in Updates : Busy(v))
    BY <1>2 DEF StartTurn
  <2>2. ~ overlapped' => ~ overlapped /\ \A v \in Updates : ~ Busy(v)
    BY <2>1, Zenon
  <2> QED
    BY <1>2, <2>2 DEF StartTurn
<1>3. CASE current # 0
  <2>1. StartTurn(u, current, k) /\ current' = current /\ made' = made
    BY <1>3 DEF OnEngine
  <2>2. current \in Engines /\ current \in Nat /\ made \in Nat
    BY <1>1, <1>3 DEF Engines
  <2>3. /\ current' = current /\ made' \in Nat /\ current <= made' /\ made <= made'
        /\ current # 0 => current = current
        /\ current = 0 => current > made
    BY <1>1, <1>3, <2>1, <2>2
  <2> QED
    BY <1>2, <2>1, <2>2, <2>3, Zenon
<1>4. CASE current = 0
  <2>1. made' = made + 1 /\ current' = made' /\ made < MaxEngines /\ StartTurn(u, made', k)
    BY <1>4 DEF OnEngine
  <2>2. made' \in Engines /\ made' \in Nat /\ made <= made' /\ made' > made
    BY <1>1, <2>1 DEF Engines
  <2>3. /\ current' = made' /\ made' \in Nat /\ made' <= made' /\ made <= made'
        /\ current # 0 => made' = current
        /\ current = 0 => made' > made
    BY <1>4, <2>1, <2>2
  <2> QED
    BY <1>2, <2>1, <2>2, <2>3, Zenon
<1> QED
  BY <1>3, <1>4

LEMMA StartIsQuiet ==
  ASSUME Inv, Unmade, Quiet, NEW u \in Updates, NEW k, OnEngine(u, k), pc[u] = "idle",
         UNCHANGED <<deferred, offered>>,
         \A e \in Engines, a \in Guarded :
            \/ approved'[e][a] \in {Never, approved[e][a]}
            \/ e = current' /\ a \in pending /\ current # 0,
         (pending' = pending /\ approved' = approved) \/ pending' = {},
         ~ overlapped' => \A e \in Engines : \A a \in refused'[e] : approved'[e][a] = Never
  PROVE  Unmade' /\ Quiet'
<1>1. PICK e \in Engines :
            /\ current' = e /\ made' \in Nat /\ e <= made' /\ made <= made'
            /\ current # 0 => e = current
            /\ current = 0 => e > made
            /\ pc' = [pc EXCEPT ![u] = "running"]
            /\ held' = [held EXCEPT ![u] = e]
            /\ inTurn' = [inTurn EXCEPT ![e] = {}]
            /\ ~ overlapped' => ~ overlapped /\ \A v \in Updates : ~ Busy(v)
  BY StartAlone
<1>2. /\ pc \in [Updates -> {"idle", "running", "auditing", "done"}]
      /\ held \in [Updates -> 0 .. MaxEngines]
      /\ inTurn \in [Engines -> SUBSET Guarded]
      /\ pending \in SUBSET Guarded
      /\ made \in Nat
      /\ Engines \subseteq Nat
  <2>1. made \in 0 .. MaxEngines
    BY Types
  <2>2. made \in Nat /\ Engines \subseteq Nat
    BY <2>1, BoundsAssumption DEF Engines
  <2> QED
    BY <2>2, Types
<1>3. Unmade'
  <2>1. ASSUME NEW d \in Engines, NEW a \in Guarded, d > made' PROVE approved'[d][a] = Never
    BY <1>1, <1>2, <2>1 DEF Unmade
  <2>2. \A v \in Updates : pc'[v] = "idle" => pc[v] = "idle"
    BY <1>1, <1>2
  <2> QED
    BY <1>1, <1>2, <2>1, <2>2 DEF Unmade
<1>4. ASSUME ~ overlapped' PROVE OneAtATime'
  BY <1>1, <1>2, <1>4 DEF OneAtATime, Busy
<1>5. ASSUME ~ overlapped' PROVE OwnDeferrals'
  <2>1. \A v \in Updates : pc'[v] \in {"running", "auditing"} => v = u /\ pc'[v] = "running"
    BY <1>1, <1>2, <1>5 DEF Busy
  <2>2. held'[u] = e /\ inTurn'[e] = {}
    BY <1>1, <1>2
  <2> QED
    BY <2>1, <2>2 DEF OwnDeferrals, Unmade
<1>6. ASSUME ~ overlapped' PROVE NothingGranted'
  <2>1. \A v \in Updates : pc'[v] = "running" => v = u
    BY <1>1, <1>2, <1>6 DEF Busy
  <2>2. held'[u] = e /\ inTurn'[e] = {}
    BY <1>1, <1>2
  <2>3. ASSUME NEW a \in pending' PROVE approved'[current'][a] = Never
    <3>1. pending' = pending /\ approved' = approved /\ a \in Guarded
      BY <1>2, <2>3
    <3>2. CASE current # 0
      BY <1>1, <1>6, <2>3, <3>1, <3>2 DEF Quiet, NothingGranted
    <3>3. CASE current = 0
      BY <1>1, <2>3, <3>1, <3>3 DEF Unmade
    <3> QED
      BY <3>2, <3>3
  <2> QED
    BY <1>6, <2>1, <2>2, <2>3 DEF NothingGranted
<1> QED
  BY <1>3, <1>4, <1>5, <1>6 DEF Quiet

(***************************************************************************)
(* A tool call on the gate leaves the turns where they are, and can only   *)
(* take approvals away.                                                    *)
(***************************************************************************)
LEMMA CallIsQuiet ==
  ASSUME Inv, Unmade, Quiet, NEW u \in Updates, NEW a \in Guarded, RunsTool(u),
         UNCHANGED <<pc, held, offered, current, made, pending, refused, overlapped>>,
         \A e \in Engines, b \in Guarded : approved[e][b] = Never => approved'[e][b] = Never,
         \/ UNCHANGED <<inTurn, deferred>>
         \/ /\ inTurn' = [inTurn EXCEPT ![held[u]] = @ \union {a}]
            /\ deferred' = [deferred EXCEPT ![u] = @ \union {a}]
            /\ approved'[held[u]][a] = Never
  PROVE  Unmade' /\ Quiet'
<1>1. pc[u] = "running" /\ held[u] \in Engines /\ Busy(u)
  BY DEF RunsTool, Inv, Held, Busy
<1>2. \A v \in Updates : pc[v] = "running" => Busy(v) /\ held[v] \in Engines
  BY DEF Inv, Held, Busy
<1>3. /\ deferred \in [Updates -> SUBSET Guarded]
      /\ inTurn \in [Engines -> SUBSET Guarded]
      /\ refused \in [Engines -> SUBSET Guarded]
      /\ pending \in SUBSET Guarded
  BY Types
<1>4. current # 0 => current \in Engines
  BY Types, BoundsAssumption DEF Engines
<1>5. Unmade'
  BY <1>1, <1>3 DEF Unmade
<1>6. ASSUME ~ overlapped' PROVE OneAtATime'
  BY <1>6 DEF Quiet, OneAtATime, Busy
<1>7. ASSUME ~ overlapped' PROVE OwnDeferrals'
  <2>1. OneAtATime /\ OwnDeferrals
    BY <1>7 DEF Quiet
  <2>2. \A v \in Updates : Busy(v) => v = u
    BY <1>1, <2>1 DEF OneAtATime
  <2>3. \A v \in Updates : pc[v] = "auditing" => Busy(v) /\ pc[v] # "running"
    BY DEF Busy
  <2>4. \A v \in Updates : pc[v] # "auditing"
    BY <1>1, <2>2, <2>3
  <2>5. inTurn'[held[u]] = deferred'[u]
    <3>1. inTurn[held[u]] = deferred[u]
      BY <1>1, <2>1 DEF OwnDeferrals
    <3> QED
      BY <1>1, <1>3, <3>1
  <2> QED
    BY <1>2, <2>2, <2>4, <2>5 DEF OwnDeferrals
<1>8. ASSUME ~ overlapped' PROVE NothingGranted'
  <2>1. OneAtATime /\ NothingGranted
    BY <1>8 DEF Quiet
  <2>2. \A v \in Updates : pc[v] = "running" => v = u
    BY <1>1, <1>2, <2>1 DEF OneAtATime
  <2>3. \A b \in inTurn[held[u]] : approved'[held[u]][b] = Never
    BY <1>1, <1>3, <2>1 DEF NothingGranted
  <2>4. \A b \in inTurn'[held[u]] : approved'[held[u]][b] = Never
    BY <1>1, <1>3, <2>3
  <2>5. current # 0 => \A b \in pending : approved'[current][b] = Never
    BY <1>3, <1>4, <2>1 DEF NothingGranted
  <2>6. \A e \in Engines : \A b \in refused[e] : approved'[e][b] = Never
    BY <1>3, <2>1 DEF NothingGranted
  <2> QED
    BY <2>2, <2>4, <2>5, <2>6 DEF NothingGranted
<1> QED
  BY <1>5, <1>6, <1>7, <1>8 DEF Quiet

(***************************************************************************)
(* A turn that leaves the engine, or ends, takes nothing along but what it *)
(* deferred, which becomes pending.                                        *)
(***************************************************************************)
LEMMA EndIsQuiet ==
  ASSUME Inv, Unmade, Quiet, NEW u \in Updates, NEW p \in {"auditing", "done"},
         pc' = [pc EXCEPT ![u] = p],
         UNCHANGED <<held, deferred, current, made, inTurn, approved, refused, overlapped>>,
         \/ p = "done" /\ UNCHANGED <<offered, pending>>
         \/ /\ p = "auditing" /\ pc[u] = "running"
            /\ offered' = [offered EXCEPT ![u] = inTurn[held[u]]]
            /\ pending' = pending \union inTurn[held[u]]
  PROVE  Unmade' /\ Quiet'
<1>1. /\ pc \in [Updates -> {"idle", "running", "auditing", "done"}]
      /\ offered \in [Updates -> SUBSET Guarded]
  BY Types
<1>2. Unmade'
  BY <1>1 DEF Unmade
<1>3. \A v \in Updates : pc'[v] \in {"running", "auditing"} => Busy(v)
  BY <1>1 DEF Busy
<1>4. \A v \in Updates : pc'[v] = "running" => pc[v] = "running"
  BY <1>1
<1>5. ASSUME ~ overlapped' PROVE OneAtATime'
  BY <1>3, <1>5 DEF Quiet, OneAtATime, Busy
<1>6. ASSUME ~ overlapped' PROVE OwnDeferrals'
  <2>1. OwnDeferrals
    BY <1>6 DEF Quiet
  <2>2. ASSUME NEW v \in Updates, pc'[v] = "auditing" PROVE offered'[v] = deferred'[v]
    BY <1>1, <2>1, <2>2 DEF OwnDeferrals
  <2> QED
    BY <1>4, <2>1, <2>2 DEF OwnDeferrals
<1>7. ASSUME ~ overlapped' PROVE NothingGranted'
  <2>1. NothingGranted /\ OneAtATime
    BY <1>7 DEF Quiet
  <2>2. ASSUME pc[u] = "running", current # 0, NEW a \in inTurn[held[u]]
        PROVE  approved[current][a] = Never
    <3>1. current = held[u]
      BY <2>1, <2>2 DEF OneAtATime, Busy
    <3> QED
      BY <2>1, <2>2, <3>1 DEF NothingGranted
  <2>3. current' # 0 => \A a \in pending' : approved'[current'][a] = Never
    BY <2>1, <2>2 DEF NothingGranted
  <2> QED
    BY <1>4, <2>1, <2>3 DEF NothingGranted
<1> QED
  BY <1>2, <1>5, <1>6, <1>7 DEF Quiet

LEMMA QuietStep == Inv /\ Unmade /\ Quiet /\ [Next]_vars => Unmade' /\ Quiet'
<1> SUFFICES ASSUME Inv, Unmade, Quiet, [Next]_vars PROVE Unmade' /\ Quiet'
  OBVIOUS
<1>1. ASSUME NEW u \in Updates, Text(u) PROVE Unmade' /\ Quiet'
  <2>1. /\ OnEngine(u, "text") /\ pc[u] = "idle"
        /\ UNCHANGED <<deferred, offered, approved, pending, refused>>
    BY <1>1 DEF Text
  <2>2. ~ overlapped' => ~ overlapped
    BY <2>1, StartAlone
  <2>3. ~ overlapped' => \A e \in Engines : \A a \in refused'[e] : approved'[e][a] = Never
    BY <2>1, <2>2 DEF Quiet, NothingGranted
  <2>4. /\ UNCHANGED <<deferred, offered>>
        /\ \A e \in Engines, a \in Guarded :
              \/ approved'[e][a] \in {Never, approved[e][a]}
              \/ e = current' /\ a \in pending /\ current # 0
        /\ (pending' = pending /\ approved' = approved) \/ pending' = {}
    BY <2>1
  <2> QED
    BY <2>1, <2>3, <2>4, StartIsQuiet, Zenon
<1>2. ASSUME NEW u \in Updates, NEW k, Click(u, k)
      PROVE  /\ OnEngine(u, k) /\ pc[u] = "idle" /\ pending' = {}
             /\ UNCHANGED <<deferred, offered>>
             /\ current' = current /\ current # 0 /\ current \in Engines
             /\ ~ overlapped' => NothingGranted
  <2>1. OnEngine(u, k) /\ pc[u] = "idle" /\ pending' = {} /\ UNCHANGED <<deferred, offered>>
        /\ current # 0
    BY <1>2 DEF Click
  <2>2. (~ overlapped' => ~ overlapped) /\ current' = current /\ current \in Engines
    BY <2>1, StartAlone
  <2> QED
    BY <2>1, <2>2 DEF Quiet
<1>3. ASSUME NEW u \in Updates, Yes(u) PROVE Unmade' /\ Quiet'
  <2>0. Click(u, "yes") /\ approved' = Stamp(approved)
        /\ refused' = [refused EXCEPT ![current] = @ \ pending]
    BY <1>3 DEF Yes
  <2>1. /\ OnEngine(u, "yes") /\ pc[u] = "idle" /\ pending' = {}
        /\ UNCHANGED <<deferred, offered>>
        /\ current' = current /\ current # 0 /\ current \in Engines
        /\ ~ overlapped' => NothingGranted
    BY <1>2, <2>0
  <2>2. /\ approved \in [Engines -> [Guarded -> Times \union {Never}]]
        /\ refused \in [Engines -> SUBSET Guarded]
    BY Types
  <2>3. \A e \in Engines, a \in Guarded :
           approved'[e][a] = IF e = current /\ a \in pending THEN now ELSE approved[e][a]
    BY <2>0, <2>1, <2>2 DEF Stamp
  <2>4. ASSUME ~ overlapped', NEW e \in Engines, NEW a \in refused'[e]
        PROVE  approved'[e][a] = Never
    <3>1. a \in refused[e] /\ a \in Guarded /\ ~ (e = current /\ a \in pending)
      BY <2>0, <2>1, <2>2, <2>4
    <3> QED
      BY <2>1, <2>3, <2>4, <3>1 DEF NothingGranted
  <2>5. /\ \A e \in Engines, a \in Guarded :
              \/ approved'[e][a] \in {Never, approved[e][a]}
              \/ e = current' /\ a \in pending /\ current # 0
        /\ (pending' = pending /\ approved' = approved) \/ pending' = {}
        /\ ~ overlapped' => \A e \in Engines : \A a \in refused'[e] : approved'[e][a] = Never
    BY <2>1, <2>3, <2>4
  <2> QED
    BY <2>1, <2>5, StartIsQuiet, Zenon
<1>4. ASSUME NEW u \in Updates, No(u) PROVE Unmade' /\ Quiet'
  <2>0. Click(u, "no") /\ approved' = approved
        /\ refused' = [refused EXCEPT ![current] = @ \union pending]
    BY <1>4 DEF No
  <2>1. /\ OnEngine(u, "no") /\ pc[u] = "idle" /\ pending' = {}
        /\ UNCHANGED <<deferred, offered>>
        /\ current' = current /\ current # 0 /\ current \in Engines
        /\ ~ overlapped' => NothingGranted
    BY <1>2, <2>0
  <2>2. refused \in [Engines -> SUBSET Guarded]
    BY Types
  <2>3. ASSUME ~ overlapped', NEW e \in Engines, NEW a \in refused'[e]
        PROVE  approved'[e][a] = Never
    <3>1. a \in refused[e] \/ (e = current /\ a \in pending)
      BY <2>0, <2>2, <2>3
    <3>2. approved[e][a] = Never
      BY <2>1, <2>3, <3>1 DEF NothingGranted
    <3> QED
      BY <2>0, <3>2
  <2>4. /\ \A e \in Engines, a \in Guarded :
              \/ approved'[e][a] \in {Never, approved[e][a]}
              \/ e = current' /\ a \in pending /\ current # 0
        /\ (pending' = pending /\ approved' = approved) \/ pending' = {}
        /\ ~ overlapped' => \A e \in Engines : \A a \in refused'[e] : approved'[e][a] = Never
    BY <2>0, <2>1, <2>3
  <2> QED
    BY <2>1, <2>4, StartIsQuiet, Zenon
<1>5. ASSUME NEW u \in Updates, Answer(u) PROVE Unmade' /\ Quiet'
  BY <1>5, EndIsQuiet DEF Answer, ghostVars
<1>6. ASSUME NEW u \in Updates, IdleClick(u) \/ Reply(u) \/ EngineError(u) \/ TurnRaises(u)
      PROVE  Unmade' /\ Quiet'
  <2>1. /\ pc' = [pc EXCEPT ![u] = "done"]
        /\ UNCHANGED <<held, deferred, current, made, inTurn, approved, refused, overlapped>>
        /\ UNCHANGED <<offered, pending>>
    BY <1>6 DEF IdleClick, Reply, EngineError, TurnRaises, userVars, ghostVars
  <2> QED
    BY <2>1, EndIsQuiet
<1>7. \A e \in Engines, b \in Guarded : approved[e][b] = Never => Fresh(e)[b] = Never
  BY DEF Fresh
<1>8. approved \in [Engines -> [Guarded -> Times \union {Never}]]
  BY Types
<1>9. ASSUME NEW u \in Updates, NEW a \in Actions, UseFree(u, a) PROVE Unmade' /\ Quiet'
  <2>1. UNCHANGED <<pc, held, deferred, offered, current, made, inTurn, approved, pending,
                    refused, overlapped>>
    BY <1>9 DEF UseFree, userVars, ghostVars
  <2> QED
    BY <2>1 DEF Unmade, Quiet, OneAtATime, OwnDeferrals, NothingGranted, Busy
<1>10. ASSUME NEW u \in Updates, NEW a \in Actions, Deny(u, a) \/ Approve(u, a) \/ Defer(u, a)
       PROVE  Unmade' /\ Quiet'
  <2> DEFINE d == held[u]
  <2>1. /\ RunsTool(u) /\ a \in Guarded
        /\ UNCHANGED <<pc, held, offered, current, made, pending, refused, overlapped>>
    BY <1>10 DEF Deny, Approve, Defer, ghostVars
  <2>2. \/ approved' = [approved EXCEPT ![d] = Fresh(d)]
        \/ approved' = [approved EXCEPT ![d] = [Fresh(d) EXCEPT ![a] = Never]]
    BY <1>10 DEF Deny, Approve, Defer
  <2>3. Fresh(d) = [b \in Guarded |-> Fresh(d)[b]]
    BY DEF Fresh
  <2>4. \A e \in Engines, b \in Guarded : approved[e][b] = Never => approved'[e][b] = Never
    BY <1>7, <1>8, <2>2, <2>3
  <2>5. d \in Engines
    BY <2>1 DEF RunsTool, Inv, Held, Busy
  <2>6. \/ UNCHANGED <<inTurn, deferred>>
        \/ /\ inTurn' = [inTurn EXCEPT ![held[u]] = @ \union {a}]
           /\ deferred' = [deferred EXCEPT ![u] = @ \union {a}]
           /\ approved'[held[u]][a] = Never
    BY <1>8, <1>10, <2>5 DEF Deny, Approve, Defer
  <2> QED
    BY <2>1, <2>4, <2>6, CallIsQuiet
<1>11. CASE Reset
  <2>1. current' = 0 /\ pending' = {}
        /\ UNCHANGED <<pc, held, deferred, offered, made, inTurn, approved, refused, overlapped>>
    BY <1>11 DEF Reset, turnVars, ghostVars
  <2>2. made \in Nat
    BY Types, BoundsAssumption
  <2> QED
    BY <2>1, <2>2 DEF Unmade, Quiet, OneAtATime, OwnDeferrals, NothingGranted, Busy
<1>12. CASE Restart
  <2>1. current' = 0 /\ pending' = {}
        /\ pc' = [u \in Updates |-> IF Busy(u) THEN "done" ELSE pc[u]]
        /\ UNCHANGED <<held, deferred, offered, made, inTurn, approved, refused, overlapped>>
    BY <1>12 DEF Restart, ghostVars
  <2>2. made \in Nat
    BY Types, BoundsAssumption
  <2>3. \A v \in Updates : /\ pc'[v] = "idle" => pc[v] = "idle"
                           /\ pc'[v] \notin {"running", "auditing"}
    BY <2>1 DEF Busy
  <2> QED
    BY <2>1, <2>2, <2>3 DEF Unmade, Quiet, OneAtATime, OwnDeferrals, NothingGranted, Busy
<1>13. CASE Tick \/ UNCHANGED vars
  <2>1. UNCHANGED <<pc, held, deferred, offered, current, made, inTurn, approved, pending,
                    refused, overlapped>>
    BY <1>13 DEF Tick, vars, turnVars, userVars, ghostVars
  <2> QED
    BY <2>1 DEF Unmade, Quiet, OneAtATime, OwnDeferrals, NothingGranted, Busy
<1> QED
  BY <1>1, <1>3, <1>4, <1>5, <1>6, <1>9, <1>10, <1>11, <1>12, <1>13 DEF Next, Handle

LEMMA QuietAlways == Spec => [](Unmade /\ Quiet)
BY Invariant, QuietInit, QuietStep, PTL DEF Spec

(***************************************************************************)
(* While turns do not overlap, what a turn offers for confirmation is      *)
(* exactly what the gate deferred in it.                                   *)
(***************************************************************************)
THEOREM OffersAreOwn == Spec => []OffersOwnDeferrals
<1>1. Quiet => OffersOwnDeferrals
  BY DEF Quiet, OwnDeferrals, OffersOwnDeferrals
<1> QED
  BY <1>1, QuietAlways, PTL

(***************************************************************************)
(* While turns do not overlap, No is final: only an approved call runs a   *)
(* guarded action, and the gate holds no approval of what was refused.     *)
(***************************************************************************)
THEOREM NoIsFinalAlways == Spec => NoIsFinal
<1> DEFINE Final == \A e \in Engines, a \in Guarded :
                       runs'[e][a] > runs[e][a] /\ ~ overlapped => a \notin refused[e]
<1>1. Inv /\ Quiet /\ [Next]_vars => [Final]_vars
  <2> SUFFICES ASSUME Inv, Quiet, [Next]_vars,
                      NEW e \in Engines, NEW a \in Guarded,
                      runs'[e][a] > runs[e][a], ~ overlapped
               PROVE  a \notin refused[e]
    BY Zenon
  <2>1. runs[e][a] \in Nat
    <3>1. TypeOK
      BY DEF Inv
    <3>2. runs \in [Engines -> [Guarded -> Nat]]
      BY <3>1, Zenon DEF TypeOK
    <3> QED
      BY <3>2
  <2>2. runs' # runs
    BY <2>1
  <2>3. PICK u \in Updates, b \in Actions : Approve(u, b)
    BY <2>2 DEF Next, Handle, Reset, Restart, Tick, Text, IdleClick, Yes, No, Click, Answer,
                Reply, EngineError, TurnRaises, UseFree, Deny, Defer, ghostVars, vars
  <2>4. b \in Guarded /\ held[u] \in Engines /\ Fresh(held[u])[b] # Never
        /\ runs' = [runs EXCEPT ![held[u]][b] = @ + 1]
    BY <2>3 DEF Approve, RunsTool, Inv, Held, Busy
  <2>5. approved[held[u]][b] # Never
    BY <2>4 DEF Fresh
  <2>6. e = held[u] /\ a = b
    <3>1. ASSUME ~ (e = held[u] /\ a = b) PROVE runs'[e][a] = runs[e][a]
      BY <2>4, <3>1
    <3> QED
      BY <2>1, <3>1
  <2> QED
    BY <2>5, <2>6 DEF Quiet, NothingGranted
<1> QED
  BY <1>1, Invariant, QuietAlways, PTL DEF Spec, NoIsFinal
===============================================================================
