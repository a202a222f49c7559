------------------------------ MODULE RequestReply ------------------------------
(***************************************************************************)
(* What LoxoneClient promises to those who send requests through it, if    *)
(* one forgets keys, futures and connections: a request is sent at most    *)
(* once, a reply is in one place at a time and is handed to at most one    *)
(* call, which keeps it, and a call that returns a response was handed a   *)
(* reply. That it is the reply to the call's own request is not promised.  *)
(* Exchange implements this specification.                                 *)
(***************************************************************************)
CONSTANTS Calls,   \* the calls
          NoReply  \* no reply

VARIABLES
    status,  \* where each call stands
    reply,   \* where the reply to each call's request is
    got,     \* the call whose reply each call was handed
    outcome  \* how each call ended

vars == <<status, reply, got, outcome>>

Init ==
    /\ status = [c \in Calls |-> "idle"]
    /\ reply = [c \in Calls |-> "absent"]
    /\ got = [c \in Calls |-> NoReply]
    /\ outcome = [c \in Calls |-> "none"]

(***************************************************************************)
(* Reply d is handed to call c, which has none yet.                        *)
(***************************************************************************)
Hand(d, c) ==
    /\ got[c] = NoReply
    /\ got' = [got EXCEPT ![c] = d]
    /\ reply' = [reply EXCEPT ![d] = "used"]

(***************************************************************************)
(* A call starts and may find a reply that was kept.                       *)
(***************************************************************************)
Start(c) ==
    /\ status[c] = "idle"
    /\ status' = [status EXCEPT ![c] = "asking"]
    /\ \/ UNCHANGED <<got, reply>>
       \/ \E d \in Calls : reply[d] = "kept" /\ Hand(d, c)
    /\ UNCHANGED outcome

Send(c) ==
    /\ status[c] = "asking"
    /\ reply[c] = "absent"
    /\ status' = [status EXCEPT ![c] = "asked"]
    /\ reply' = [reply EXCEPT ![c] = "owed"]
    /\ UNCHANGED <<got, outcome>>

(***************************************************************************)
(* A reply arrives: a call in progress is handed it, it is kept, or lost.  *)
(***************************************************************************)
Arrive(d) ==
    /\ reply[d] = "owed"
    /\ \/ \E c \in Calls : status[c] \in {"asking", "asked"} /\ Hand(d, c)
       \/ /\ \E place \in {"kept", "absent"} : reply' = [reply EXCEPT ![d] = place]
          /\ UNCHANGED got
    /\ UNCHANGED <<status, outcome>>

Refuse(c) ==
    /\ status[c] = "idle"
    /\ status' = [status EXCEPT ![c] = "done"]
    /\ outcome' = [outcome EXCEPT ![c] = "refused"]
    /\ UNCHANGED <<reply, got>>

(***************************************************************************)
(* A call ends: with the reply it was handed, or without one.              *)
(***************************************************************************)
End(c) ==
    /\ status[c] \in {"asking", "asked"}
    /\ status' = [status EXCEPT ![c] = "done"]
    /\ \/ outcome' = [outcome EXCEPT ![c] = "failed"]
       \/ outcome' = [outcome EXCEPT ![c] = "abandoned"]
       \/ got[c] # NoReply /\ outcome' = [outcome EXCEPT ![c] = "response"]
    /\ UNCHANGED <<reply, got>>

Next == \E c \in Calls : Start(c) \/ Send(c) \/ Arrive(c) \/ Refuse(c) \/ End(c)

Spec == Init /\ [][Next]_vars
===============================================================================
