------------------------------- MODULE Exchange -------------------------------
(***************************************************************************)
(* Request/response correlation of LoxoneClient (adapter/client.py): the   *)
(* callers of _exchange, the dictionary _pending of registered futures,    *)
(* the list _orphans of responses nobody waited for, the receive loop and  *)
(* the part of _teardown that ends the waiting calls, over one connection. *)
(*                                                                         *)
(* One asyncio event loop runs everything, so the code between two awaits  *)
(* is one step here; every await is a point where another task may run.    *)
(* A path is the sequence of its slash-separated segments, with the        *)
(* leading "j" already removed as _correlation_key does.                   *)
(***************************************************************************)
EXTENDS Naturals, Sequences, SequencesExt

CONSTANTS Calls,       \* the calls of _exchange made on this client
          Keys,        \* the correlation keys they may use
          Echoes,      \* what the Miniserver may echo in LL.control, per key
          MaxOrphans,  \* capacity of _orphans (64 in the code)
          NoReply      \* no response

ASSUME NoReplyAssumption == NoReply \notin Calls
ASSUME MaxOrphansAssumption == MaxOrphans \in Nat
ASSUME EchoesAssumption ==
    /\ Echoes \in [Keys -> SUBSET Seq(STRING)]
    /\ \A k \in Keys : /\ Echoes[k] # {}
                       /\ \A e \in Echoes[k] : IsPrefix(e, k)

VARIABLES
    phase,        \* where each call stands in _exchange
    key,          \* the correlation key of each call
    fut,          \* the state of the future each call created
    got,          \* ghost: the call whose response the future was given
    outcome,      \* how each call ended
    pending,      \* _pending, in insertion order: key -> owner of the future
    orphans,      \* _orphans: what was echoed, and which call it answers
    outstanding,  \* requests the Miniserver received and has not answered
    link,         \* the WebSocket connection, as the library sees it
    closed,       \* transport.closed
    receiver,     \* the task running _receive_loop
    teardown,     \* the progress of _teardown
    crossed       \* ghost: two confusable calls were in progress together

clientVars == <<phase, key, fut, got, outcome, pending, orphans, outstanding, crossed>>
linkVars == <<link, closed, receiver, teardown>>
vars == <<clientVars, linkVars>>

Phases == {"idle", "sending", "sent", "waiting", "expired", "done"}
Futures == {"none", "pending", "result", "exception", "cancelled"}
Outcomes == {"none", "refused", "response", "abandoned", "failed"}
Entry == [key : Keys, call : Calls]
Orphan == [echo : UNION {Echoes[k] : k \in Keys}, of : Calls]

InProgress(c) == phase[c] \notin {"idle", "done"}
Settled(c) == fut[c] \in {"result", "exception", "cancelled"}

(***************************************************************************)
(* Equal paths, or one extends the other at a slash.                       *)
(***************************************************************************)
Matches(p, q) == p = q \/ IsStrictPrefix(p, q) \/ IsStrictPrefix(q, p)

(***************************************************************************)
(* The answer to one of the keys could be taken for an answer to the other.*)
(***************************************************************************)
Confusable(k, l) == \/ \E e \in Echoes[k] : Matches(l, e)
                    \/ \E e \in Echoes[l] : Matches(k, e)

(***************************************************************************)
(* Entry i is the one _find_pending returns for the echoed path e: the     *)
(* exact key if it is registered, otherwise the first entry that matches.  *)
(***************************************************************************)
LocatedOldest(i, e) == i = 1   \* mutant: answers come in the order of requests

Located(i, e) ==
    \/ pending[i].key = e
    \/ /\ Matches(pending[i].key, e)
       /\ \A j \in DOMAIN pending : pending[j].key # e
       /\ \A j \in 1 .. (i - 1) : ~ Matches(pending[j].key, e)

(***************************************************************************)
(* Position i of _orphans is the one _pop_matching_orphan takes for k.     *)
(***************************************************************************)
AnyOrphan(i, k) == i = 1   \* mutant: the oldest orphan, whatever it answers

FirstOrphan(i, k) == /\ Matches(k, orphans[i].echo)
                     /\ \A j \in 1 .. (i - 1) : ~ Matches(k, orphans[j].echo)

(***************************************************************************)
(* self._pending[k] = future: a key already present keeps its place.       *)
(***************************************************************************)
Register(k, c) ==
    \/ \E i \in DOMAIN pending : /\ pending[i].key = k
                                 /\ pending' = [pending EXCEPT ![i].call = c]
    \/ /\ \A i \in DOMAIN pending : pending[i].key # k
       /\ pending' = Append(pending, [key |-> k, call |-> c])

(***************************************************************************)
(* self._pending.pop(k, None): the entry goes, whoever owns it by now.     *)
(***************************************************************************)
Unregister(k) ==
    \/ \E i \in DOMAIN pending : /\ pending[i].key = k
                                 /\ pending' = RemoveAt(pending, i)
    \/ /\ \A i \in DOMAIN pending : pending[i].key # k
       /\ pending' = pending

(***************************************************************************)
(* _abort_pending: every registered future that is not done fails.         *)
(***************************************************************************)
Abort ==
    fut' = [c \in Calls |->
              IF fut[c] = "pending" /\ \E i \in DOMAIN pending : pending[i].call = c
              THEN "exception" ELSE fut[c]]

-------------------------------------------------------------------------------
Init ==
    /\ phase = [c \in Calls |-> "idle"]
    /\ key \in [Calls -> Keys]
    /\ fut = [c \in Calls |-> "none"]
    /\ got = [c \in Calls |-> NoReply]
    /\ outcome = [c \in Calls |-> "none"]
    /\ pending = << >>
    /\ orphans = << >>
    /\ outstanding = {}
    /\ link = "up"
    /\ closed = FALSE
    /\ receiver = "running"
    /\ teardown = "no"
    /\ crossed = FALSE

(***************************************************************************)
(* The caller finds the transport closed: NotConnectedError.               *)
(***************************************************************************)
Refuse(c) ==
    /\ phase[c] = "idle"
    /\ closed
    /\ phase' = [phase EXCEPT ![c] = "done"]
    /\ outcome' = [outcome EXCEPT ![c] = "refused"]
    /\ UNCHANGED <<key, fut, got, pending, orphans, outstanding, crossed, linkVars>>

BeginAndKeepOrphan(c) ==   \* mutant: the matching orphan is read, not removed
    /\ phase[c] = "idle"
    /\ ~ closed
    /\ phase' = [phase EXCEPT ![c] = "sending"]
    /\ Register(key[c], c)
    /\ \/ \E i \in DOMAIN orphans :
             /\ FirstOrphan(i, key[c])
             /\ fut' = [fut EXCEPT ![c] = "result"]
             /\ got' = [got EXCEPT ![c] = orphans[i].of]
       \/ /\ \A i \in DOMAIN orphans : ~ Matches(key[c], orphans[i].echo)
          /\ fut' = [fut EXCEPT ![c] = "pending"]
          /\ UNCHANGED got
    /\ UNCHANGED <<key, outcome, orphans, outstanding, crossed, linkVars>>

(***************************************************************************)
(* _exchange up to its first await: register a future and, if a buffered   *)
(* response matches, resolve the future with it before anything is sent.   *)
(***************************************************************************)
Begin(c) ==
    /\ phase[c] = "idle"
    /\ ~ closed
    /\ phase' = [phase EXCEPT ![c] = "sending"]
    /\ Register(key[c], c)
    /\ \/ \E i \in DOMAIN orphans :
             /\ FirstOrphan(i, key[c])
             /\ fut' = [fut EXCEPT ![c] = "result"]
             /\ got' = [got EXCEPT ![c] = orphans[i].of]
             /\ orphans' = RemoveAt(orphans, i)
       \/ /\ \A i \in DOMAIN orphans : ~ Matches(key[c], orphans[i].echo)
          /\ fut' = [fut EXCEPT ![c] = "pending"]
          /\ UNCHANGED <<got, orphans>>
    /\ crossed' = (crossed \/ \E d \in Calls : InProgress(d) /\ Confusable(key[c], key[d]))
    /\ UNCHANGED <<key, outcome, outstanding, linkVars>>

(***************************************************************************)
(* The request reaches the Miniserver while transport.send is awaited.     *)
(***************************************************************************)
Transmit(c) ==
    /\ phase[c] = "sending"
    /\ link = "up"
    /\ ~ closed
    /\ phase' = [phase EXCEPT ![c] = "sent"]
    /\ outstanding' = outstanding \union {c}
    /\ UNCHANGED <<key, fut, got, outcome, pending, orphans, crossed, linkVars>>

SendFailsAndLeaks(c) ==   \* mutant: the key stays registered when send raises
    /\ phase[c] \in {"sending", "sent"}
    /\ link = "down" \/ closed
    /\ phase' = [phase EXCEPT ![c] = "done"]
    /\ outcome' = [outcome EXCEPT ![c] = "failed"]
    /\ UNCHANGED <<key, fut, got, pending, orphans, outstanding, crossed, linkVars>>

(***************************************************************************)
(* transport.send raises; the finally clause removes the key.              *)
(***************************************************************************)
SendFails(c) ==
    /\ phase[c] \in {"sending", "sent"}
    /\ link = "down" \/ closed
    /\ phase' = [phase EXCEPT ![c] = "done"]
    /\ outcome' = [outcome EXCEPT ![c] = "failed"]
    /\ Unregister(key[c])
    /\ UNCHANGED <<key, fut, got, orphans, outstanding, crossed, linkVars>>

(***************************************************************************)
(* transport.send returned and the future is not done: wait_for suspends.  *)
(***************************************************************************)
Await(c) ==
    /\ phase[c] = "sent"
    /\ fut[c] = "pending"
    /\ phase' = [phase EXCEPT ![c] = "waiting"]
    /\ UNCHANGED <<key, fut, got, outcome, pending, orphans, outstanding, crossed, linkVars>>

(***************************************************************************)
(* The caller's task is cancelled in transport.send (by Ctrl-C, or by      *)
(* asyncio.run at exit). What happens until it resumes might as well have  *)
(* happened before, because the future stays as it is.                     *)
(***************************************************************************)
Cancel(c) ==
    /\ phase[c] \in {"sending", "sent"}
    /\ phase' = [phase EXCEPT ![c] = "done"]
    /\ outcome' = [outcome EXCEPT ![c] = "failed"]
    /\ Unregister(key[c])
    /\ UNCHANGED <<key, fut, got, orphans, outstanding, crossed, linkVars>>

ExpireRegistered(c) ==   \* mutant: timeouts are kept by the registry
    /\ phase[c] = "waiting"
    /\ \E i \in DOMAIN pending : pending[i].call = c
    /\ phase' = [phase EXCEPT ![c] = "expired"]
    /\ fut' = [fut EXCEPT ![c] = IF @ = "pending" THEN "cancelled" ELSE @]
    /\ UNCHANGED <<key, got, outcome, pending, orphans, outstanding, crossed, linkVars>>

(***************************************************************************)
(* The timeout of wait_for fires, or the caller is cancelled while it      *)
(* waits. A pending future is cancelled; one that was resolved before the  *)
(* caller resumed keeps its result, which is lost.                         *)
(***************************************************************************)
Expire(c) ==
    /\ phase[c] = "waiting"
    /\ phase' = [phase EXCEPT ![c] = "expired"]
    /\ fut' = [fut EXCEPT ![c] = IF @ = "pending" THEN "cancelled" ELSE @]
    /\ UNCHANGED <<key, got, outcome, pending, orphans, outstanding, crossed, linkVars>>

(***************************************************************************)
(* The caller resumes, removes its key and returns or raises.              *)
(***************************************************************************)
Return(c) ==
    /\ phase[c] \in {"sent", "waiting", "expired"}
    /\ Settled(c)
    /\ outcome' = [outcome EXCEPT ![c] = IF phase[c] = "expired" THEN "abandoned"
                                         ELSE IF fut[c] = "result" THEN "response"
                                         ELSE "failed"]
    /\ phase' = [phase EXCEPT ![c] = "done"]
    /\ Unregister(key[c])
    /\ UNCHANGED <<key, fut, got, orphans, outstanding, crossed, linkVars>>

DeliverTwice(d, e) ==   \* mutant: a future that is done is resolved again
    /\ receiver = "running"
    /\ d \in outstanding
    /\ outstanding' = outstanding \ {d}
    /\ \E i \in DOMAIN pending :
          /\ Located(i, e)
          /\ fut' = [fut EXCEPT ![pending[i].call] = "result"]
          /\ got' = [got EXCEPT ![pending[i].call] = d]
    /\ UNCHANGED <<phase, key, outcome, pending, orphans, crossed, linkVars>>

(***************************************************************************)
(* The receive loop reads the answer to call d, echoed as e, and resolves  *)
(* the future _find_pending returns.                                       *)
(***************************************************************************)
Deliver(d, e) ==
    /\ receiver = "running"
    /\ d \in outstanding
    /\ outstanding' = outstanding \ {d}
    /\ \E i \in DOMAIN pending :
          /\ Located(i, e)
          /\ fut[pending[i].call] = "pending"
          /\ fut' = [fut EXCEPT ![pending[i].call] = "result"]
          /\ got' = [got EXCEPT ![pending[i].call] = d]
    /\ UNCHANGED <<phase, key, outcome, pending, orphans, crossed, linkVars>>

BufferUncapped(d, e) ==   \* mutant: the buffer has no cap
    /\ receiver = "running"
    /\ d \in outstanding
    /\ outstanding' = outstanding \ {d}
    /\ \A i \in DOMAIN pending : Located(i, e) => fut[pending[i].call] # "pending"
    /\ orphans' = Append(orphans, [echo |-> e, of |-> d])
    /\ UNCHANGED <<phase, key, fut, got, outcome, pending, crossed, linkVars>>

(***************************************************************************)
(* No future is found, or the one found is done: the response is buffered, *)
(* or dropped when the buffer is full.                                     *)
(***************************************************************************)
Buffer(d, e) ==
    /\ receiver = "running"
    /\ d \in outstanding
    /\ outstanding' = outstanding \ {d}
    /\ \A i \in DOMAIN pending : Located(i, e) => fut[pending[i].call] # "pending"
    /\ \/ /\ Len(orphans) < MaxOrphans
          /\ orphans' = Append(orphans, [echo |-> e, of |-> d])
       \/ /\ Len(orphans) >= MaxOrphans
          /\ orphans' = orphans
    /\ UNCHANGED <<phase, key, fut, got, outcome, pending, crossed, linkVars>>

(***************************************************************************)
(* A response that is not JSON, or names no control, is dropped.           *)
(***************************************************************************)
DropUnreadable(d) ==
    /\ receiver = "running"
    /\ d \in outstanding
    /\ outstanding' = outstanding \ {d}
    /\ UNCHANGED <<phase, key, fut, got, outcome, pending, orphans, crossed, linkVars>>

(***************************************************************************)
(* The Miniserver or the network ends the connection.                      *)
(***************************************************************************)
PeerCloses ==
    /\ link = "up"
    /\ link' = "down"
    /\ UNCHANGED <<clientVars, closed, receiver, teardown>>

(***************************************************************************)
(* recv raises TransportClosedError: the loop aborts the pending calls.    *)
(***************************************************************************)
ReceiverEnds ==
    /\ receiver = "running"
    /\ link = "down"
    /\ receiver' = "ended"
    /\ closed' = TRUE
    /\ Abort
    /\ UNCHANGED <<phase, key, got, outcome, pending, orphans, outstanding, crossed,
                   link, teardown>>

(***************************************************************************)
(* A malformed frame raises in the receive loop: the calls are aborted and *)
(* the task ends, but the transport stays open.                            *)
(***************************************************************************)
ReceiverFails ==
    /\ receiver = "running"
    /\ receiver' = "failed"
    /\ Abort
    /\ UNCHANGED <<phase, key, got, outcome, pending, orphans, outstanding, crossed,
                   link, closed, teardown>>

(***************************************************************************)
(* close(): _teardown cancels the tasks and awaits them ...                *)
(***************************************************************************)
TeardownStarts ==
    /\ teardown = "no"
    /\ teardown' = "running"
    /\ receiver' = IF receiver = "running" THEN "cancelled" ELSE receiver
    /\ UNCHANGED <<clientVars, link, closed>>

TeardownEndsSilently ==   \* mutant: the calls are aborted only before the awaits
    /\ teardown = "running"
    /\ teardown' = "done"
    /\ closed' = TRUE
    /\ link' = "down"
    /\ UNCHANGED <<clientVars, receiver>>

(***************************************************************************)
(* ... and, once they have ended, aborts the pending calls and closes the  *)
(* transport, whose flag is set before anything else can run.              *)
(***************************************************************************)
TeardownEnds ==
    /\ teardown = "running"
    /\ teardown' = "done"
    /\ Abort
    /\ closed' = TRUE
    /\ link' = "down"
    /\ UNCHANGED <<phase, key, got, outcome, pending, orphans, outstanding, crossed, receiver>>

Call(c) == \/ Refuse(c) \/ Begin(c) \/ Transmit(c) \/ SendFails(c)
           \/ Await(c) \/ Expire(c) \/ Return(c) \/ Cancel(c)

Answer(d) == DropUnreadable(d) \/ \E e \in Echoes[key[d]] : Deliver(d, e) \/ Buffer(d, e)

Next == \/ \E c \in Calls : Call(c) \/ Answer(c)
        \/ PeerCloses \/ ReceiverEnds \/ ReceiverFails
        \/ TeardownStarts \/ TeardownEnds

Spec == Init /\ [][Next]_vars

-------------------------------------------------------------------------------
(***************************************************************************)
(* The type invariant. The bound on orphans is the cap _dispatch_text      *)
(* keeps "so a broken Miniserver can't OOM us".                            *)
(***************************************************************************)
TypeOK ==
    /\ phase \in [Calls -> Phases]
    /\ key \in [Calls -> Keys]
    /\ fut \in [Calls -> Futures]
    /\ got \in [Calls -> Calls \union {NoReply}]
    /\ outcome \in [Calls -> Outcomes]
    /\ pending \in Seq(Entry)
    /\ orphans \in Seq(Orphan)
    /\ Len(orphans) <= MaxOrphans
    /\ outstanding \in SUBSET Calls
    /\ link \in {"up", "down"}
    /\ closed \in BOOLEAN
    /\ receiver \in {"running", "ended", "failed", "cancelled"}
    /\ teardown \in {"no", "running", "done"}
    /\ crossed \in BOOLEAN

(***************************************************************************)
(* A response is used at most once: the answer to a call is still owed by  *)
(* the Miniserver, or buffered in one place, or given to one future, and   *)
(* never in two of these.                                                  *)
(***************************************************************************)
Buffered(d) == \E i \in DOMAIN orphans : orphans[i].of = d
Used(d) == \E c \in Calls : got[c] = d

AnsweredOnce ==
    /\ \A c, d \in Calls : got[c] = got[d] /\ got[c] # NoReply => c = d
    /\ \A i, j \in DOMAIN orphans : orphans[i].of = orphans[j].of => i = j
    /\ \A d \in Calls : /\ Buffered(d) => d \notin outstanding /\ ~ Used(d)
                        /\ d \in outstanding => ~ Used(d)

(***************************************************************************)
(* _pending leaks nothing and lies about nothing: keys are distinct, and   *)
(* each entry holds the future of a call in progress under its own key,    *)
(* although any caller with the same key may remove or replace the entry.  *)
(***************************************************************************)
EntriesHaveOwners ==
    /\ \A i, j \in DOMAIN pending : pending[i].key = pending[j].key => i = j
    /\ \A i \in DOMAIN pending : /\ InProgress(pending[i].call)
                                 /\ pending[i].key = key[pending[i].call]

(***************************************************************************)
(* Once the transport is closed no registered call is left waiting, even   *)
(* one that began while close() was awaiting the cancelled tasks.          *)
(***************************************************************************)
ClosedAbortsRegistered ==
    closed => \A i \in DOMAIN pending : fut[pending[i].call] # "pending"

(***************************************************************************)
(* "The match terminates on a slash boundary so unrelated commands don't   *)
(* collide": a response is never given to a call whose key does not match  *)
(* what the Miniserver may echo for the request it answers.                *)
(***************************************************************************)
UnrelatedNeverCollide ==
    \A c, d \in Calls : got[c] = d => \E e \in Echoes[key[d]] : Matches(key[c], e)

(***************************************************************************)
(* While no call has failed, timed out or been cancelled, and no two       *)
(* confusable calls were ever in progress together, every call gets the    *)
(* answer to its own request and nothing is buffered. This is what         *)
(* correlation by path can promise, for any number of calls on unrelated   *)
(* paths at the same time.                                                 *)
(***************************************************************************)
Undisturbed == /\ ~ crossed
               /\ \A c \in Calls : /\ phase[c] # "expired"
                                   /\ outcome[c] \notin {"abandoned", "failed"}

UndisturbedGetOwnAnswer ==
    Undisturbed => /\ \A c \in Calls : got[c] \in {c, NoReply}
                   /\ orphans = << >>

(***************************************************************************)
(* A future is settled once: no step changes a settled future or the       *)
(* response it was given (set_result on a done future would raise in the   *)
(* receive loop and end it).                                               *)
(***************************************************************************)
KeepsSettled == \A c \in Calls : Settled(c) => fut'[c] = fut[c] /\ got'[c] = got[c]

SettledOnce == [][KeepsSettled]_vars

(***************************************************************************)
(* Keys, the dictionary, the orphan buffer, timeouts, cancellation and the *)
(* connection together implement RequestReply: an answer is owed, buffered *)
(* or given, it moves one way only, and a call that returns a response has *)
(* been given one.                                                         *)
(***************************************************************************)
Status(c) == IF phase[c] \in {"idle", "done"} THEN phase[c]
             ELSE IF phase[c] = "sending" THEN "asking" ELSE "asked"

Place(d) == IF d \in outstanding THEN "owed"
            ELSE IF Buffered(d) THEN "kept"
            ELSE IF Used(d) THEN "used" ELSE "absent"

Replies == INSTANCE RequestReply WITH status <- [c \in Calls |-> Status(c)],
                                      reply <- [d \in Calls |-> Place(d)]

ImplementsRequestReply == Replies!Spec

(***************************************************************************)
(* Every call that began ends, also one whose entry was taken over by      *)
(* another call with the same key, or that waits on a dead receiver. It    *)
(* takes the fairness Service states.                                      *)
(***************************************************************************)
EveryCallEnds == \A c \in Calls : InProgress(c) ~> phase[c] = "done"

(***************************************************************************)
(* What _exchange says of itself (client.py:273): it awaits "the matching  *)
(* response", so a call that returns a response returns its own, at least  *)
(* when confusable calls are made one after the other.                     *)
(***************************************************************************)
ReturnsMatchingResponse ==
    ~ crossed => \A c \in Calls : outcome[c] = "response" => got[c] = c
===============================================================================
