-------------------------------- MODULE Consent --------------------------------
(***************************************************************************)
(* What the confirmation flow promises the user, in terms of the user's    *)
(* decisions and of what is executed: in each conversation, an action is   *)
(* executed only on a Yes to it that was not used before, and soon after   *)
(* the latest one. There are no turns, engines, gates or keyboards here:   *)
(* Gateway implements this specification.                                  *)
(***************************************************************************)
EXTENDS Naturals

CONSTANTS Conversations,  \* the conversations of the user, each with its own memory
          Actions,        \* the actions that need confirmation
          TTL,            \* how long a Yes can be used
          Never           \* the time of a decision that was not made

VARIABLES
    clock,
    yeses,   \* how often the user said Yes to each action
    latest,  \* when that was last
    runs     \* how often the action was executed

vars == <<clock, yeses, latest, runs>>

Init ==
    /\ clock = 0
    /\ yeses = [k \in Conversations |-> [a \in Actions |-> 0]]
    /\ latest = [k \in Conversations |-> [a \in Actions |-> Never]]
    /\ runs = [k \in Conversations |-> [a \in Actions |-> 0]]

(***************************************************************************)
(* One Yes applies to all the actions asked for.                           *)
(***************************************************************************)
SayYes(k, asked) ==
    /\ yeses' = [yeses EXCEPT ![k] = [a \in Actions |-> IF a \in asked THEN @[a] + 1 ELSE @[a]]]
    /\ latest' = [latest EXCEPT ![k] = [a \in Actions |-> IF a \in asked THEN clock ELSE @[a]]]
    /\ UNCHANGED <<clock, runs>>

Run(k, a) ==
    /\ runs[k][a] < yeses[k][a]
    /\ latest[k][a] # Never
    /\ clock <= latest[k][a] + TTL
    /\ runs' = [runs EXCEPT ![k][a] = @ + 1]
    /\ UNCHANGED <<clock, yeses, latest>>

Pass ==
    /\ clock' = clock + 1
    /\ UNCHANGED <<yeses, latest, runs>>

Next == \/ Pass
        \/ \E k \in Conversations :
              \/ \E asked \in SUBSET Actions : SayYes(k, asked)
              \/ \E a \in Actions : Run(k, a)

Spec == Init /\ [][Next]_vars
===============================================================================
