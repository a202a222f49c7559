------------------------------- MODULE Admission -------------------------------
(***************************************************************************)
(* The sliding-window rate limit of Gateway.handle_text (gateway/core.py): *)
(* which messages of the allowed users start a turn, with the clock and    *)
(* /reset. The turns that confirm_action starts are not limited and not    *)
(* counted. Time is a number here and a float of seconds in the code.      *)
(*                                                                         *)
(* The turns of a user are numbered. The bucket, a list of timestamps in   *)
(* the code, is the set of the numbers of the turns whose timestamps it    *)
(* keeps, because two turns may have the same timestamp.                   *)
(***************************************************************************)
EXTENDS Naturals, Sequences, FiniteSets

CONSTANTS Users,     \* the allowed users
          Limit,     \* rate_limit_per_minute (30), 0 for no limit
          Window,    \* 60 s
          MaxTime,   \* bound on the clock
          MaxTurns   \* bound on the turns of a user

ASSUME LimitAssumption == Limit \in Nat /\ Window \in Nat \ {0}
ASSUME BoundsAssumption == MaxTime \in Nat /\ MaxTurns \in Nat

VARIABLES
    now,     \* time.monotonic()
    turns,   \* ghost: when each user's turns started
    forgot,  \* ghost: how many of them came before the user's last /reset
    bucket   \* _request_times

vars == <<now, turns, forgot, bucket>>

Init ==
    /\ now = 0
    /\ turns = [u \in Users |-> << >>]
    /\ forgot = [u \in Users |-> 0]
    /\ bucket = [u \in Users |-> {}]

(***************************************************************************)
(* What is left of the bucket once the old timestamps have been dropped.   *)
(***************************************************************************)
RecentExpiringEarly(u) ==   \* mutant: the timestamps are dropped a tick too early
    {i \in bucket[u] : turns[u][i] + Window > now + 1}

Recent(u) == {i \in bucket[u] : turns[u][i] + Window > now}

AcceptOneMore(u) ==   \* mutant: the request itself is not counted
    /\ Len(turns[u]) < MaxTurns
    /\ Limit # 0 => Cardinality(Recent(u)) <= Limit
    /\ turns' = [turns EXCEPT ![u] = Append(@, now)]
    /\ bucket' = [bucket EXCEPT ![u] = IF Limit = 0 THEN @ ELSE Recent(u) \union {Len(turns[u]) + 1}]
    /\ UNCHANGED <<now, forgot>>

Accept(u) ==
    /\ Len(turns[u]) < MaxTurns
    /\ Limit # 0 => Cardinality(Recent(u)) < Limit
    /\ turns' = [turns EXCEPT ![u] = Append(@, now)]
    /\ bucket' = [bucket EXCEPT ![u] = IF Limit = 0 THEN @ ELSE Recent(u) \union {Len(turns[u]) + 1}]
    /\ UNCHANGED <<now, forgot>>

RefuseAndCount(u) ==   \* mutant: a refused request takes its place in the bucket
    /\ Limit # 0
    /\ Cardinality(Recent(u)) >= Limit
    /\ bucket' = [bucket EXCEPT ![u] = Recent(u) \union {Len(turns[u]) + 1}]
    /\ UNCHANGED <<now, turns, forgot>>

Refuse(u) ==
    /\ Limit # 0
    /\ Cardinality(Recent(u)) >= Limit
    /\ bucket' = [bucket EXCEPT ![u] = Recent(u)]
    /\ UNCHANGED <<now, turns, forgot>>

(***************************************************************************)
(* reset_user drops the bucket with everything else it keeps of the user.  *)
(***************************************************************************)
Reset(u) ==
    /\ bucket' = [bucket EXCEPT ![u] = {}]
    /\ forgot' = [forgot EXCEPT ![u] = Len(turns[u])]
    /\ UNCHANGED <<now, turns>>

Tick ==
    /\ now < MaxTime
    /\ now' = now + 1
    /\ UNCHANGED <<turns, forgot, bucket>>

Next == Tick \/ \E u \in Users : Accept(u) \/ Refuse(u) \/ Reset(u)

Spec == Init /\ [][Next]_vars

-------------------------------------------------------------------------------
(***************************************************************************)
(* The type invariant: with a limit, a bucket never holds more than it.    *)
(***************************************************************************)
TypeOK ==
    /\ now \in Nat
    /\ turns \in [Users -> Seq(Nat)]
    /\ forgot \in [Users -> Nat]
    /\ \A u \in Users : /\ bucket[u] \subseteq (forgot[u] + 1) .. Len(turns[u])
                        /\ Cardinality(bucket[u]) <= Limit
    /\ DOMAIN bucket = Users

(***************************************************************************)
(* At most Limit turns start in any window between two resets: the turn    *)
(* that comes Limit turns after another starts a whole window later.       *)
(***************************************************************************)
Spaced ==
    Limit # 0 =>
        \A u \in Users : \A i \in (forgot[u] + 1) .. Len(turns[u]) :
            i + Limit <= Len(turns[u]) => turns[u][i + Limit] >= turns[u][i] + Window

(***************************************************************************)
(* No message is refused for another reason: what counts against the limit *)
(* is exactly the turns that started within the window and since the last  *)
(* reset, although the bucket is only pruned when a message arrives and    *)
(* refused messages pass through the same code.                            *)
(***************************************************************************)
CountsTheWindow ==
    Limit # 0 =>
        \A u \in Users :
            {i \in bucket[u] : turns[u][i] + Window > now}
              = {i \in (forgot[u] + 1) .. Len(turns[u]) : turns[u][i] + Window > now}
===============================================================================
