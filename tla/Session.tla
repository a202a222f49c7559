-------------------------------- MODULE Session --------------------------------
(***************************************************************************)
(* The life of a LoxoneClient (adapter/client.py): connect with its        *)
(* handshake, the receive loop and the keepalive loop as tasks, the        *)
(* disconnects they notice, and _teardown, over one or several connections *)
(* made by the same owner ("reconnect ... is wrapped at a higher layer").  *)
(* How calls and responses are matched is Exchange's subject. Here an      *)
(* exchange of the handshake ends with an answer or fails, and the answer  *)
(* may be one to an earlier attempt: the buffer of unmatched responses is  *)
(* part of the object and outlives a connection, and so may a receive      *)
(* task that nothing cancels. What an answer says is left to Login.        *)
(***************************************************************************)
EXTENDS Naturals

CONSTANT MaxSessions  \* how many transports the owner opens at most

ASSUME MaxSessionsAssumption == MaxSessions \in Nat \ {0}

VARIABLES
    step,       \* where the owner stands: in connect, in close or between
    after,      \* how the running _teardown was called: from connect or close
    conn,       \* _transport: the number of its connection, 0 for None
    link,       \* the state of each connection at the peer
    closed,     \* transport.closed of each connection
    recv, keep, \* the receive task and the keepalive task of each connection
    recvRef, keepRef,  \* _receiver_task and _keepalive_task, 0 for None
    closing,    \* _closing
    orphans,    \* _orphans: answers to requests of the handshake, unmatched
    unread,     \* such answers a receive task has still to read, their exchange being over
    reused      \* ghost: connect was called after a disconnect or a teardown

vars == <<step, after, conn, link, closed, recv, keep, recvRef, keepRef, closing,
          orphans, unread, reused>>
stale == <<orphans, unread>>

Sessions == 1 .. MaxSessions
Handshake == {"keyexchange", "getkey2", "gettoken", "enable"}
Idle == {"new", "failed", "connected", "closed"}
Steps == Idle \union Handshake \union {"fetching", "opening", "awaiting_tasks", "closing_transport"}
TaskStates == {"none", "running", "cancelling", "ended"}

Live(t) == t \in {"running", "cancelling"}
IsConnected == conn # 0 /\ ~ closed[conn]
(***************************************************************************)
(* A response that a request of the handshake can take: what it answers,   *)
(* the connection it was asked on and what it says. Responses to           *)
(* keyexchange and gettoken that echo the whole path match no request of   *)
(* another attempt, as the session key and the hash in it differ, and do   *)
(* not count as answers; those that echo only the command do.              *)
(***************************************************************************)
Verdicts == {"given", "replaced", "refused"}
Answers == [ask : Handshake, of : Sessions, says : Verdicts]

FollowingStep == [keyexchange |-> "getkey2", getkey2 |-> "gettoken",
                  gettoken |-> "enable", enable |-> "connected"]

Init ==
    /\ step = "new" /\ after = "none"
    /\ conn = 0
    /\ link = [n \in Sessions |-> "none"]
    /\ closed = [n \in Sessions |-> FALSE]
    /\ recv = [n \in Sessions |-> "none"]
    /\ keep = [n \in Sessions |-> "none"]
    /\ recvRef = 0 /\ keepRef = 0
    /\ closing = FALSE
    /\ orphans = {} /\ unread = {}
    /\ reused = FALSE

(***************************************************************************)
(* connect() is called at first and, because nothing refuses it, again     *)
(* after a failure, a close or a disconnect.                               *)
(***************************************************************************)
Connect ==
    /\ step \in Idle
    /\ step = "connected" => ~ IsConnected
    /\ conn < MaxSessions
    /\ step' = "fetching"
    /\ reused' = (reused \/ conn # 0 \/ closing)
    /\ UNCHANGED <<after, conn, link, closed, recv, keep, recvRef, keepRef, closing, stale>>

(***************************************************************************)
(* The public key is fetched over HTTP; a failure leaves connect at once.  *)
(***************************************************************************)
FetchKey ==
    /\ step = "fetching"
    /\ step' \in {"opening", "failed"}
    /\ UNCHANGED <<after, conn, link, closed, recv, keep, recvRef, keepRef, closing, reused, stale>>

OpenFails ==
    /\ step = "opening"
    /\ step' = "failed"
    /\ UNCHANGED <<after, conn, link, closed, recv, keep, recvRef, keepRef, closing, reused, stale>>

(***************************************************************************)
(* The transport opens and the receive task starts; whatever the fields    *)
(* referred to before is replaced.                                         *)
(***************************************************************************)
OpenTransport ==
    /\ step = "opening"
    /\ conn' = conn + 1
    /\ link' = [link EXCEPT ![conn'] = "up"]
    /\ recv' = [recv EXCEPT ![conn'] = "running"]
    /\ recvRef' = conn'
    /\ step' = "keyexchange"
    /\ UNCHANGED <<after, closed, keep, keepRef, closing, reused, stale>>

(***************************************************************************)
(* The answer of this connection, and the ones in the buffer that match: a *)
(* request takes such an answer without waiting for its own, which is then *)
(* lost or comes when nobody waits for it any more.                        *)
(***************************************************************************)
Own(said) == [ask |-> step, of |-> conn, says |-> said]
Buffered == {a \in orphans : a.ask = step}
Late(said) == {{}} \union (IF recv[conn] = "running" THEN {{Own(said)}} ELSE {})

Receives(a, said) ==
    /\ ~ closed[conn]
    /\ \/ /\ a = Own(said)
          /\ recv[conn] = "running"
          /\ Buffered = {} /\ \A b \in unread : b.of # conn
          /\ UNCHANGED stale
       \/ /\ a \in Buffered
          /\ orphans' = orphans \ {a}
          /\ \E late \in Late(said) : unread' = unread \union late

(***************************************************************************)
(* One exchange of the handshake is answered as expected; the last one     *)
(* starts the keepalive task and connect returns.                          *)
(***************************************************************************)
HandshakeStep(a, said) ==
    /\ step \in Handshake
    /\ Receives(a, said)
    /\ step' = FollowingStep[step]
    /\ IF step = "enable"
       THEN keep' = [keep EXCEPT ![conn] = "running"] /\ keepRef' = conn
       ELSE UNCHANGED <<keep, keepRef>>
    /\ UNCHANGED <<after, conn, link, closed, recv, recvRef, closing, reused>>

(***************************************************************************)
(* _teardown up to its first await. A second one on the same object        *)
(* returns immediately, because _closing is never reset.                   *)
(***************************************************************************)
CancelNothing(tasks, ref) == tasks   \* mutant: the tasks are awaited, not cancelled

CancelIf(tasks, ref) ==
    [n \in Sessions |-> IF n = ref /\ tasks[n] = "running" THEN "cancelling" ELSE tasks[n]]

BeginTeardown(caller) ==
    IF closing
    THEN /\ step' = caller
         /\ UNCHANGED <<after, closing, recv, keep>>
    ELSE /\ closing' = TRUE
         /\ step' = "awaiting_tasks"
         /\ after' = caller
         /\ recv' = CancelIf(recv, recvRef)
         /\ keep' = CancelIf(keep, keepRef)

(***************************************************************************)
(* An answer makes connect tear down and raise.                            *)
(***************************************************************************)
HandshakeRefused(a, said) ==
    /\ step \in Handshake
    /\ Receives(a, said)
    /\ BeginTeardown("failed")
    /\ UNCHANGED <<conn, link, closed, recvRef, keepRef, reused>>

HandshakeFailsBare(said) ==   \* mutant: connect raises without a teardown
    /\ step \in Handshake
    /\ step' = "failed"
    /\ UNCHANGED <<after, closing, recv, keep, conn, link, closed, recvRef, keepRef, reused, stale>>

(***************************************************************************)
(* An exchange times out, is aborted or cancelled, or cannot send, which   *)
(* wastes the buffered answer it had taken: connect tears down and raises. *)
(* The answer may come in the turn of the event loop that notices the      *)
(* timeout, and is buffered, or later, if the teardown spares the receive  *)
(* task because an earlier one has set _closing.                           *)
(***************************************************************************)
HandshakeFails(said) ==
    /\ step \in Handshake
    /\ \E wasted \in {{}} \union {{a} : a \in Buffered}, late \in Late(said) :
          IF closing
          THEN orphans' = orphans \ wasted /\ unread' = unread \union late
          ELSE orphans' = (orphans \ wasted) \union late /\ unread' = unread
    /\ BeginTeardown("failed")
    /\ UNCHANGED <<conn, link, closed, recvRef, keepRef, reused>>

Close ==
    /\ step \in Idle
    /\ BeginTeardown("closed")
    /\ UNCHANGED <<conn, link, closed, recvRef, keepRef, reused, stale>>

(***************************************************************************)
(* The cancelled tasks have ended: the transport's flag is set and the     *)
(* connection's closing handshake is awaited, unless it is closed already. *)
(***************************************************************************)
TasksAwaited ==
    /\ step = "awaiting_tasks"
    /\ recvRef # 0 => ~ Live(recv[recvRef])
    /\ keepRef # 0 => ~ Live(keep[keepRef])
    /\ closed' = IF conn = 0 THEN closed ELSE [closed EXCEPT ![conn] = TRUE]
    /\ step' = "closing_transport"
    /\ UNCHANGED <<after, conn, link, recv, keep, recvRef, keepRef, closing, reused, stale>>

TeardownEnds ==
    /\ step = "closing_transport"
    /\ step' = after
    /\ after' = "none"
    /\ link' = IF conn = 0 THEN link ELSE [link EXCEPT ![conn] = "down"]
    /\ recvRef' = 0 /\ keepRef' = 0
    /\ UNCHANGED <<conn, closed, recv, keep, closing, reused, stale>>

-------------------------------------------------------------------------------
PeerCloses(n) ==
    /\ link[n] = "up"
    /\ link' = [link EXCEPT ![n] = "down"]
    /\ UNCHANGED <<step, after, conn, closed, recv, keep, recvRef, keepRef, closing, reused, stale>>

(***************************************************************************)
(* A receive task reads an answer nobody waits for, and buffers it. When a *)
(* call of a later attempt waits for one like it, the call is given it at  *)
(* once, which comes to the same as taking it from the buffer. The cap of  *)
(* the buffer is Exchange's subject.                                       *)
(***************************************************************************)
LateAnswer(a) ==
    /\ recv[a.of] = "running"
    /\ orphans' = orphans \union {a}
    /\ unread' = unread \ {a}
    /\ UNCHANGED <<step, after, conn, link, closed, recv, keep, recvRef, keepRef, closing, reused>>

(***************************************************************************)
(* The receive loop ends, and reads nothing any more ...                   *)
(***************************************************************************)
StopsReading(n) ==
    /\ recv' = [recv EXCEPT ![n] = "ended"]
    /\ unread' = {a \in unread : a.of # n}
    /\ UNCHANGED <<step, after, conn, link, keep, recvRef, keepRef, closing, reused, orphans>>

(***************************************************************************)
(* ... when recv reports the disconnect, which sets the flag of the        *)
(* transport ...                                                           *)
(***************************************************************************)
ReceiverEnds(n) ==
    /\ recv[n] = "running"
    /\ link[n] = "down"
    /\ closed' = [closed EXCEPT ![n] = TRUE]
    /\ StopsReading(n)

(***************************************************************************)
(* ... on a malformed frame, which leaves the transport open ...           *)
(***************************************************************************)
ReceiverFails(n) ==
    /\ recv[n] = "running"
    /\ StopsReading(n)
    /\ UNCHANGED closed

(***************************************************************************)
(* ... or when it is cancelled.                                            *)
(***************************************************************************)
ReceiverCancelled(n) ==
    /\ recv[n] = "cancelling"
    /\ StopsReading(n)
    /\ UNCHANGED closed

(***************************************************************************)
(* The keepalive loop wakes up, finds the client's current transport       *)
(* closed, or fails to send on it, and ends; otherwise it sleeps again.    *)
(***************************************************************************)
KeepaliveDeaf(n) ==   \* mutant: the loop heeds _closing, not the transport
    /\ keep[n] = "running"
    /\ closing
    /\ keep' = [keep EXCEPT ![n] = "ended"]
    /\ UNCHANGED <<step, after, conn, link, closed, recv, recvRef, keepRef, closing, reused, stale>>

KeepaliveEnds(n) ==
    /\ keep[n] = "running"
    /\ ~ IsConnected \/ link[conn] = "down"
    /\ keep' = [keep EXCEPT ![n] = "ended"]
    /\ UNCHANGED <<step, after, conn, link, closed, recv, recvRef, keepRef, closing, reused, stale>>

KeepaliveCancelled(n) ==
    /\ keep[n] = "cancelling"
    /\ keep' = [keep EXCEPT ![n] = "ended"]
    /\ UNCHANGED <<step, after, conn, link, closed, recv, recvRef, keepRef, closing, reused, stale>>

Handshakes ==
    \E said \in Verdicts :
       \/ \E a \in {Own(said)} \union orphans : HandshakeStep(a, said) \/ HandshakeRefused(a, said)
       \/ HandshakeFails(said)

Owner == \/ Connect \/ FetchKey \/ OpenFails \/ OpenTransport
         \/ Handshakes
         \/ Close \/ TasksAwaited \/ TeardownEnds

Tasks(n) == \/ PeerCloses(n)
            \/ ReceiverEnds(n) \/ ReceiverFails(n) \/ ReceiverCancelled(n)
            \/ KeepaliveEnds(n) \/ KeepaliveCancelled(n)

Next == Owner \/ (\E n \in Sessions : Tasks(n)) \/ (\E a \in unread : LateAnswer(a))

(***************************************************************************)
(* Fairness: every call connect and close await ends or raises (HTTP and   *)
(* exchange timeouts, the library's open and close timeouts), cancelled    *)
(* tasks end, recv reports a closed connection, and the keepalive loop     *)
(* wakes up. Nobody has to connect or to close.                            *)
(***************************************************************************)
Fairness ==
    /\ WF_vars(FetchKey) /\ WF_vars(OpenFails \/ OpenTransport)
    /\ WF_vars(Handshakes)
    /\ WF_vars(TasksAwaited) /\ WF_vars(TeardownEnds)
    /\ \A n \in Sessions : /\ WF_vars(ReceiverEnds(n)) /\ WF_vars(ReceiverCancelled(n))
                           /\ WF_vars(KeepaliveEnds(n)) /\ WF_vars(KeepaliveCancelled(n))

Spec == Init /\ [][Next]_vars

-------------------------------------------------------------------------------
(***************************************************************************)
(* The type invariant.                                                     *)
(***************************************************************************)
TypeOK ==
    /\ step \in Steps
    /\ after \in {"none", "failed", "closed"}
    /\ conn \in 0 .. MaxSessions
    /\ link \in [Sessions -> {"none", "up", "down"}]
    /\ closed \in [Sessions -> BOOLEAN]
    /\ recv \in [Sessions -> TaskStates]
    /\ keep \in [Sessions -> TaskStates]
    /\ recvRef \in 0 .. MaxSessions
    /\ keepRef \in 0 .. MaxSessions
    /\ closing \in BOOLEAN
    /\ orphans \subseteq Answers
    /\ unread \subseteq Answers
    /\ reused \in BOOLEAN

(***************************************************************************)
(* An object that is connected once, after any number of failed attempts   *)
(* to open a transport, is cleaned up: when close has returned or connect  *)
(* has raised, none of its tasks runs and its transport is closed,         *)
(* wherever the handshake was and whatever had failed by then.             *)
(***************************************************************************)
Clean == \A n \in Sessions : /\ ~ Live(recv[n]) /\ ~ Live(keep[n])
                             /\ link[n] # "none" => closed[n]

CleanAfterOneUse == step \in {"failed", "closed"} /\ ~ reused => Clean

(***************************************************************************)
(* connect and close always return or raise, however often the object is   *)
(* used: no handshake step waits for ever on a dead receive task, and the  *)
(* teardown does not wait for a task that never ends.                      *)
(***************************************************************************)
OwnerReturns == step \notin Idle ~> step \in Idle

(***************************************************************************)
(* After a disconnect the keepalive loop ends by itself although nothing   *)
(* cancels it, unless the object has been connected again meanwhile.       *)
(***************************************************************************)
KeepaliveFollowsDisconnect ==
    \A n \in Sessions : keep[n] = "running" /\ link[n] = "down" ~> ~ Live(keep[n]) \/ reused
===============================================================================
