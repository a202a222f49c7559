------------------------------ MODULE Login_proofs ------------------------------
(***************************************************************************)
(* The client object and its handshake, for any number of connections: an  *)
(* object used once is cleaned up, and a connected client holds the        *)
(* credentials of its connection, unless a late answer of an earlier       *)
(* attempt misled it.                                                      *)
(***************************************************************************)
EXTENDS Login, TLAPS

(***************************************************************************)
(* The connections that were not opened yet are those without a link; they *)
(* have no tasks either.                                                   *)
(***************************************************************************)
Untouched ==
    \A n \in Sessions : /\ link[n] = "none" <=> n > conn
                        /\ n > conn => /\ ~ closed[n]
                                       /\ recv[n] = "none" /\ keep[n] = "none"

(***************************************************************************)
(* Where the owner can stand, given the connections opened so far and who  *)
(* waits for the teardown.                                                 *)
(***************************************************************************)
Standing ==
    /\ step \in {"fetching", "opening"} => conn < MaxSessions
    /\ step \in Handshake \union {"connected"} => conn # 0
    /\ step \in {"awaiting_tasks", "closing_transport"} => after \in {"failed", "closed"}

(***************************************************************************)
(* On an object used once the fields refer to every task that runs, the    *)
(* teardown begins only once, and what it has finished stays clean.        *)
(***************************************************************************)
Referred == \A n \in Sessions : /\ Live(recv[n]) => recvRef = n
                                /\ Live(keep[n]) => keepRef = n

FirstUse ==
    ~ reused =>
        /\ Referred
        /\ conn <= 1
        /\ conn # 0 => step \notin {"new", "fetching", "opening"}
        /\ closing => step \in {"awaiting_tasks", "closing_transport", "failed", "closed"}
        /\ step \in {"closing_transport", "failed", "closed"} => Clean

(***************************************************************************)
(* Answers that nobody has taken come from a failed attempt, after which   *)
(* _closing is set. Those of the running attempt answer requests that it   *)
(* is done with, so what a request takes is either its own answer or one   *)
(* of an earlier connection.                                               *)
(***************************************************************************)
Past == [keyexchange |-> {}, getkey2 |-> {"keyexchange"}, gettoken |-> {"keyexchange", "getkey2"},
         enable |-> {"keyexchange", "getkey2", "gettoken"}]

Overdue ==
    /\ ~ closing => orphans = {} /\ unread = {}
    /\ \A a \in orphans \union unread :
          /\ a.of <= conn
          /\ a.of = conn /\ step \in Handshake => a.ask \in Past[step]

SessionInv == TypeOK /\ Untouched /\ Standing /\ FirstUse /\ Overdue

LEMMA SessionInvInit == Init => SessionInv
<1> SUFFICES ASSUME Init PROVE SessionInv
  OBVIOUS
<1> USE DEF Init, Sessions
<1>1. TypeOK
  <2>1. 0 \in 0 .. MaxSessions
    BY MaxSessionsAssumption
  <2> QED
    BY <2>1 DEF TypeOK, Steps, Idle, TaskStates
<1>2. Untouched
  BY DEF Untouched
<1>3. Standing
  BY DEF Standing, Handshake
<1>4. FirstUse
  BY DEF FirstUse, Referred, Live
<1>5. Overdue
  BY DEF Overdue
<1> QED
  BY <1>1, <1>2, <1>3, <1>4, <1>5 DEF SessionInv

(***************************************************************************)
(* The steps of connect before and at the opening of a transport.          *)
(***************************************************************************)
LEMMA ConnectStep ==
  ASSUME SessionInv, Connect \/ FetchKey \/ OpenFails
  PROVE  SessionInv'
<1> USE DEF Sessions, Steps, Idle, Handshake
<1>1. /\ UNCHANGED <<after, conn, link, closed, recv, keep, recvRef, keepRef, closing, stale>>
      /\ step' \in {"fetching", "opening", "failed"}
      /\ reused' \in BOOLEAN
  BY DEF Connect, FetchKey, OpenFails, SessionInv, TypeOK
<1>2. TypeOK'
  BY <1>1 DEF SessionInv, TypeOK, stale
<1>3. Untouched'
  BY <1>1 DEF SessionInv, Untouched
<1>4. Standing'
  BY DEF Connect, FetchKey, OpenFails, SessionInv, TypeOK, Standing
<1>5. FirstUse'
  <2> SUFFICES ASSUME ~ reused' PROVE FirstUse'
    BY DEF FirstUse
  <2>1. ~ reused /\ conn = 0 /\ ~ closing
    BY DEF Connect, FetchKey, OpenFails, SessionInv, TypeOK, FirstUse
  <2>2. Clean'
    BY <1>1, <2>1 DEF SessionInv, TypeOK, Untouched, Clean, Live
  <2>3. Referred'
    BY <2>2 DEF Clean, Referred
  <2> QED
    BY <1>1, <2>1, <2>2, <2>3 DEF FirstUse
<1>6. Overdue'
  BY <1>1 DEF SessionInv, Overdue, stale
<1> QED
  BY <1>2, <1>3, <1>4, <1>5, <1>6 DEF SessionInv

LEMMA OpenStep ==
  ASSUME SessionInv, OpenTransport
  PROVE  SessionInv'
<1> USE DEF Sessions
<1>1. /\ conn' = conn + 1 /\ conn' \in Sessions /\ conn \in Nat
      /\ link' = [link EXCEPT ![conn'] = "up"] /\ recv' = [recv EXCEPT ![conn'] = "running"]
      /\ recvRef' = conn' /\ step = "opening" /\ step' = "keyexchange"
      /\ UNCHANGED <<after, closed, keep, keepRef, closing, reused, orphans, unread>>
  BY MaxSessionsAssumption DEF OpenTransport, SessionInv, TypeOK, Standing, stale
<1>2. TypeOK'
  BY <1>1 DEF SessionInv, TypeOK, Steps, Handshake, TaskStates
<1>3. Untouched'
  BY <1>1 DEF SessionInv, TypeOK, Untouched
<1>4. Standing'
  BY <1>1 DEF Standing, Handshake
<1>5. FirstUse'
  <2> SUFFICES ASSUME ~ reused' PROVE FirstUse'
    BY DEF FirstUse
  <2>1. conn = 0 /\ ~ closing
    BY <1>1 DEF SessionInv, FirstUse
  <2>2. \A n \in Sessions : ~ Live(recv[n]) /\ ~ Live(keep[n])
    BY <2>1 DEF SessionInv, Untouched, Live
  <2>3. Referred'
    BY <1>1, <2>2 DEF SessionInv, TypeOK, Referred, Live
  <2> QED
    BY <1>1, <2>1, <2>3 DEF FirstUse
<1>6. Overdue'
  <2>1. \A a \in orphans \union unread : a.of \in Nat /\ a.of <= conn
    BY DEF SessionInv, TypeOK, Answers, Overdue
  <2>2. \A a \in orphans \union unread : a.of <= conn' /\ a.of # conn'
    BY <1>1, <2>1
  <2> QED
    BY <1>1, <2>2 DEF SessionInv, Overdue
<1> QED
  BY <1>2, <1>3, <1>4, <1>5, <1>6 DEF SessionInv

(***************************************************************************)
(* What an exchange does to the answers nobody has taken, and whose answer *)
(* it ends with.                                                           *)
(***************************************************************************)
LEMMA ReceivedAnswer ==
  ASSUME SessionInv, step \in Handshake, NEW said \in Verdicts, NEW a, Receives(a, said)
  PROVE  /\ orphans' \subseteq orphans /\ unread' \subseteq unread \union {Own(said)}
         /\ ~ closing => orphans' = {} /\ unread' = {}
         /\ Own(said) \in Answers
         /\ a \in Answers /\ a.ask = step
         /\ a = Own(said) \/ (a.of < conn /\ closing)
<1>1. Own(said) \in Answers /\ Own(said).ask = step /\ conn \in Nat
  BY DEF SessionInv, TypeOK, Standing, Own, Answers, Sessions
<1>2. CASE a = Own(said) /\ UNCHANGED stale
  BY <1>1, <1>2 DEF stale, SessionInv, Overdue
<1>3. CASE /\ a \in Buffered /\ orphans' = orphans \ {a}
           /\ \E late \in Late(said) : unread' = unread \union late
  <2>1. a \in orphans /\ a.ask = step /\ a \in Answers
    BY <1>3 DEF Buffered, SessionInv, TypeOK
  <2>2. closing
    BY <2>1 DEF SessionInv, Overdue
  <2>3. unread' \subseteq unread \union {Own(said)}
    BY <1>3 DEF Late
  <2>4. step \notin Past[step]
    BY DEF Past, Handshake
  <2>5. a.of <= conn /\ a.of # conn
    BY <2>1, <2>4 DEF SessionInv, Overdue
  <2>6. a.of \in Nat
    BY <2>1 DEF Answers, Sessions
  <2>7. a.of < conn
    BY <1>1, <2>5, <2>6
  <2> QED
    BY <1>1, <1>3, <2>1, <2>2, <2>3, <2>7
<1> QED
  BY <1>2, <1>3 DEF Receives

(***************************************************************************)
(* An answered exchange of the handshake, and the keepalive task.          *)
(***************************************************************************)
LEMMA AnsweredStep ==
  ASSUME SessionInv, NEW said \in Verdicts, NEW a, HandshakeStep(a, said)
  PROVE  SessionInv'
<1> USE DEF Sessions
<1>1. step \in Handshake /\ conn \in Sessions
  BY DEF HandshakeStep, SessionInv, TypeOK, Standing
<1>2. step' \in Handshake \union {"connected"}
  <2>1. step' = FollowingStep[step]
    BY DEF HandshakeStep
  <2>2. /\ FollowingStep["keyexchange"] = "getkey2" /\ FollowingStep["getkey2"] = "gettoken"
        /\ FollowingStep["gettoken"] = "enable" /\ FollowingStep["enable"] = "connected"
    BY DEF FollowingStep
  <2> QED
    BY <1>1, <2>1, <2>2 DEF Handshake
<1>3. /\ keep' \in [Sessions -> TaskStates] /\ keepRef' \in {keepRef, conn}
      /\ \A n \in Sessions : keep'[n] # keep[n] => n = conn /\ keepRef' = conn
      /\ keepRef' # keepRef => keep'[conn] = "running"
      /\ UNCHANGED <<after, conn, link, closed, recv, recvRef, closing, reused>>
  <2>1. UNCHANGED <<after, conn, link, closed, recv, recvRef, closing, reused>>
    BY DEF HandshakeStep
  <2>2. CASE step = "enable"
    <3>1. keep' = [keep EXCEPT ![conn] = "running"] /\ keepRef' = conn
      BY <2>2 DEF HandshakeStep
    <3> QED
      BY <1>1, <2>1, <3>1 DEF SessionInv, TypeOK, TaskStates
  <2>3. CASE step # "enable"
    <3>1. keep' = keep /\ keepRef' = keepRef
      BY <2>3 DEF HandshakeStep
    <3> QED
      BY <2>1, <3>1 DEF SessionInv, TypeOK
  <2> QED
    BY <2>2, <2>3
<1>8. /\ orphans' \subseteq orphans /\ unread' \subseteq unread \union {Own(said)}
      /\ ~ closing => orphans' = {} /\ unread' = {}
      /\ Own(said) \in Answers
  BY <1>1, ReceivedAnswer DEF HandshakeStep
<1>4. TypeOK'
  BY <1>1, <1>2, <1>3, <1>8 DEF SessionInv, TypeOK, Steps, Idle
<1>5. Untouched'
  BY <1>1, <1>3 DEF SessionInv, TypeOK, Untouched
<1>6. Standing'
  BY <1>1, <1>2, <1>3 DEF Standing, Handshake
<1>7. FirstUse'
  <2> SUFFICES ASSUME ~ reused' PROVE FirstUse'
    BY DEF FirstUse
  <2>1. Referred /\ ~ closing /\ conn <= 1
    BY <1>1, <1>3 DEF SessionInv, FirstUse, Handshake
  <2>2. \A n \in Sessions : n = conn \/ ~ Live(keep[n])
    <3>1. conn = 1
      BY <1>1, <1>3 DEF SessionInv, FirstUse
    <3> QED
      BY <3>1 DEF SessionInv, Untouched, Live
  <2>3. Referred'
    BY <1>1, <1>3, <2>1, <2>2 DEF Referred, Live
  <2> QED
    BY <1>1, <1>2, <1>3, <2>1, <2>3 DEF FirstUse, Handshake
<1>9. Overdue'
  <2>1. /\ Past["keyexchange"] = {} /\ Past["getkey2"] = {"keyexchange"}
        /\ Past["gettoken"] = {"keyexchange", "getkey2"}
        /\ Past["enable"] = {"keyexchange", "getkey2", "gettoken"}
    BY DEF Past
  <2>2. /\ FollowingStep["keyexchange"] = "getkey2" /\ FollowingStep["getkey2"] = "gettoken"
        /\ FollowingStep["gettoken"] = "enable" /\ FollowingStep["enable"] = "connected"
    BY DEF FollowingStep
  <2>3. step' \in Handshake => Past[step'] = Past[step] \union {step}
    BY <1>1, <2>1, <2>2 DEF HandshakeStep, Handshake
  <2>4. conn' = conn /\ closing' = closing /\ conn \in Nat
    BY <1>1, <1>3 DEF Sessions
  <2>5. Own(said).ask = step /\ Own(said).of = conn
    BY DEF Own
  <2>6. ASSUME NEW b \in orphans' \union unread'
        PROVE  b.of <= conn /\ (b.of = conn /\ step' \in Handshake => b.ask \in Past[step'])
    <3>1. CASE b = Own(said)
      BY <2>3, <2>4, <2>5, <3>1
    <3>2. CASE b \in orphans \union unread
      BY <1>1, <2>3, <3>2 DEF SessionInv, Overdue
    <3> QED
      BY <1>8, <3>1, <3>2
  <2> QED
    BY <1>8, <2>4, <2>6 DEF Overdue
<1> QED
  BY <1>4, <1>5, <1>6, <1>7, <1>9 DEF SessionInv

(***************************************************************************)
(* connect or close begins the teardown, or finds that it was begun.       *)
(***************************************************************************)
LEMMA BeginTeardownStep ==
  ASSUME SessionInv, NEW said \in Verdicts,
         \/ Close \/ HandshakeFails(said)
         \/ \E a \in {Own(said)} \union orphans : HandshakeRefused(a, said)
  PROVE  SessionInv'
<1> USE DEF Sessions
<1>1. PICK caller \in {"failed", "closed"} :
         /\ step \in Handshake \union Idle
         /\ BeginTeardown(caller)
         /\ step \in Idle \/ step \in Handshake
         /\ UNCHANGED <<conn, link, closed, recvRef, keepRef, reused>>
  BY DEF HandshakeFails, HandshakeRefused, Close
<1>2. /\ recv' \in [Sessions -> TaskStates] /\ keep' \in [Sessions -> TaskStates]
      /\ \A n \in Sessions : /\ recv'[n] # recv[n] => Live(recv[n])
                             /\ keep'[n] # keep[n] => Live(keep[n])
      /\ after' \in {after, caller} /\ closing'
      /\ step' \in {caller, "awaiting_tasks"}
      /\ step' = "awaiting_tasks" => after' = caller
      /\ step' # "awaiting_tasks" => closing /\ recv' = recv /\ keep' = keep
  <2>1. CASE closing
    BY <1>1, <2>1 DEF BeginTeardown, SessionInv, TypeOK
  <2>2. CASE ~ closing
    BY <1>1, <2>2 DEF BeginTeardown, CancelIf, SessionInv, TypeOK, TaskStates, Live
  <2> QED
    BY <2>1, <2>2
<1> DEFINE Filed == /\ \A a \in orphans' \union unread' :
                          a \in orphans \union unread \/ (a = Own(said) /\ step \in Handshake)
                    /\ step \in Handshake => Own(said) \in Answers
<1>7. Filed
  <2>1. CASE Close
    BY <2>1 DEF Close, stale, Idle, Handshake
  <2>2. CASE HandshakeFails(said)
    <3>1. PICK wasted \in {{}} \union {{a} : a \in Buffered}, late \in Late(said) :
             /\ orphans' \subseteq (orphans \ wasted) \union late
             /\ unread' \subseteq unread \union late
      BY <2>2 DEF HandshakeFails
    <3>2. late \subseteq {Own(said)}
      BY DEF Late
    <3>3. Own(said) \in Answers /\ step \in Handshake
      BY <2>2 DEF HandshakeFails, SessionInv, TypeOK, Standing, Own, Answers
    <3> QED
      BY <3>1, <3>2, <3>3
  <2>3. ASSUME NEW a, HandshakeRefused(a, said)
        PROVE  Filed
    BY <2>3, ReceivedAnswer DEF HandshakeRefused
  <2> QED
    BY <2>1, <2>2, <2>3
<1>3. TypeOK'
  <2>1. orphans' \subseteq Answers /\ unread' \subseteq Answers
    BY <1>7 DEF SessionInv, TypeOK
  <2> QED
    BY <1>1, <1>2, <2>1 DEF SessionInv, TypeOK, Steps, Idle
<1>4. Untouched'
  BY <1>1, <1>2 DEF SessionInv, Untouched, Live
<1>5. Standing'
  BY <1>1, <1>2 DEF Standing, Handshake
<1>6. FirstUse'
  <2> SUFFICES ASSUME ~ reused' PROVE FirstUse'
    BY DEF FirstUse
  <2>1. /\ Referred /\ conn <= 1
        /\ closing => step \in {"awaiting_tasks", "closing_transport", "failed", "closed"}
        /\ step \in {"closing_transport", "failed", "closed"} => Clean
    BY <1>1 DEF SessionInv, FirstUse
  <2>2. Referred'
    BY <1>1, <1>2, <2>1 DEF Referred
  <2>3. closing => Clean
    BY <1>1, <2>1 DEF Handshake, Idle
  <2>4. step' \in {"closing_transport", "failed", "closed"} => Clean'
    BY <1>1, <1>2, <2>3 DEF Clean
  <2> QED
    BY <1>1, <1>2, <2>1, <2>2, <2>4 DEF FirstUse
<1>8. Overdue'
  <2>1. step' \notin Handshake /\ closing' /\ conn' = conn /\ conn \in Nat
    BY <1>1, <1>2 DEF Handshake, SessionInv, TypeOK
  <2>2. ASSUME NEW a \in orphans' \union unread' PROVE a.of <= conn
    <3>1. CASE a = Own(said)
      BY <2>1, <3>1 DEF Own
    <3>2. CASE a \in orphans \union unread
      BY <3>2 DEF SessionInv, Overdue
    <3> QED
      BY <1>7, <3>1, <3>2
  <2> QED
    BY <2>1, <2>2 DEF Overdue
<1> QED
  BY <1>3, <1>4, <1>5, <1>6, <1>8 DEF SessionInv

(***************************************************************************)
(* The teardown has waited for its tasks, and sets the transport's flag.   *)
(***************************************************************************)
LEMMA AwaitedStep ==
  ASSUME SessionInv, TasksAwaited
  PROVE  SessionInv'
<1> USE DEF Sessions
<1>1. /\ step = "awaiting_tasks" /\ step' = "closing_transport"
      /\ recvRef # 0 => ~ Live(recv[recvRef])
      /\ keepRef # 0 => ~ Live(keep[keepRef])
      /\ UNCHANGED <<after, conn, link, recv, keep, recvRef, keepRef, closing, reused>>
      /\ UNCHANGED <<orphans, unread>>
  BY DEF TasksAwaited, stale
<1>2. /\ closed' \in [Sessions -> BOOLEAN]
      /\ \A n \in Sessions : n = conn => closed'[n]
      /\ \A n \in Sessions : n # conn => closed'[n] = closed[n]
  <2>1. closed \in [Sessions -> BOOLEAN]
    BY DEF SessionInv, TypeOK
  <2>2. CASE conn = 0
    <3>1. closed' = closed
      BY <2>2 DEF TasksAwaited
    <3> QED
      BY <2>1, <2>2, <3>1
  <2>3. CASE conn # 0
    <3>1. closed' = [closed EXCEPT ![conn] = TRUE]
      BY <2>3 DEF TasksAwaited
    <3> QED
      BY <2>1, <3>1
  <2> QED
    BY <2>2, <2>3
<1>3. TypeOK'
  BY <1>1, <1>2 DEF SessionInv, TypeOK, Steps
<1>4. Untouched'
  BY <1>1, <1>2 DEF SessionInv, TypeOK, Untouched
<1>5. Standing'
  BY <1>1 DEF SessionInv, Standing, Handshake
<1>6. FirstUse'
  <2> SUFFICES ASSUME ~ reused' PROVE FirstUse'
    BY DEF FirstUse
  <2>1. Referred /\ conn <= 1
    BY <1>1 DEF SessionInv, FirstUse
  <2>2. ASSUME NEW n \in Sessions
        PROVE  ~ Live(recv[n]) /\ ~ Live(keep[n]) /\ (link[n] # "none" => closed'[n])
    <3>1. n # 0 /\ (n = conn \/ n > conn)
      BY <2>1 DEF SessionInv, TypeOK
    <3>2. ~ Live(recv[n]) /\ ~ Live(keep[n])
      BY <1>1, <2>1, <3>1 DEF Referred
    <3>3. link[n] # "none" => closed'[n]
      BY <1>2, <3>1 DEF SessionInv, Untouched
    <3> QED
      BY <3>2, <3>3
  <2>3. Clean'
    BY <1>1, <2>2 DEF Clean
  <2>4. Referred'
    BY <1>1, <2>1 DEF Referred
  <2> QED
    BY <1>1, <2>1, <2>3, <2>4 DEF FirstUse
<1>7. Overdue'
  BY <1>1 DEF SessionInv, Overdue, Handshake
<1> QED
  BY <1>3, <1>4, <1>5, <1>6, <1>7 DEF SessionInv

LEMMA TeardownEndsStep ==
  ASSUME SessionInv, TeardownEnds
  PROVE  SessionInv'
<1> USE DEF Sessions
<1>1. /\ step = "closing_transport" /\ step' = after /\ after' = "none"
      /\ after \in {"failed", "closed"}
      /\ recvRef' = 0 /\ keepRef' = 0
      /\ UNCHANGED <<conn, closed, recv, keep, closing, reused, orphans, unread>>
  BY DEF TeardownEnds, SessionInv, Standing, stale
<1>2. /\ link' \in [Sessions -> {"none", "up", "down"}]
      /\ \A n \in Sessions : link'[n] # link[n] => n = conn /\ conn # 0 /\ link'[n] = "down"
  BY DEF TeardownEnds, SessionInv, TypeOK
<1>3. TypeOK'
  BY <1>1, <1>2, MaxSessionsAssumption DEF SessionInv, TypeOK, Steps, Idle
<1>4. Untouched'
  BY <1>1, <1>2 DEF SessionInv, TypeOK, Untouched
<1>5. Standing'
  BY <1>1 DEF SessionInv, Standing, Handshake
<1>6. FirstUse'
  <2> SUFFICES ASSUME ~ reused' PROVE FirstUse'
    BY DEF FirstUse
  <2>1. Referred /\ conn <= 1 /\ Clean
    BY <1>1 DEF SessionInv, FirstUse
  <2>2. Clean'
    BY <1>1, <1>2, <2>1 DEF SessionInv, TypeOK, Untouched, Clean
  <2>3. Referred'
    BY <2>2 DEF Clean, Referred
  <2> QED
    BY <1>1, <2>1, <2>2, <2>3 DEF FirstUse
<1>7. Overdue'
  BY <1>1 DEF SessionInv, Overdue, Handshake
<1> QED
  BY <1>3, <1>4, <1>5, <1>6, <1>7 DEF SessionInv

(***************************************************************************)
(* What the tasks and the peer do: tasks only end, links only go down.     *)
(***************************************************************************)
LEMMA TaskStep ==
  ASSUME SessionInv, NEW n \in Sessions, Tasks(n)
  PROVE  SessionInv'
<1>1. UNCHANGED <<step, after, conn, recvRef, keepRef, closing, reused>>
  BY DEF Tasks, PeerCloses, ReceiverEnds, ReceiverFails, ReceiverCancelled,
         StopsReading, KeepaliveEnds, KeepaliveCancelled
<1>2. /\ link' \in [Sessions -> {"none", "up", "down"}]
      /\ \A m \in Sessions : link'[m] = "none" <=> link[m] = "none"
  <2>1. link' = link \/ (link[n] = "up" /\ link' = [link EXCEPT ![n] = "down"])
    BY DEF Tasks, PeerCloses, ReceiverEnds, ReceiverFails, ReceiverCancelled,
           StopsReading, KeepaliveEnds, KeepaliveCancelled
  <2> QED
    BY <2>1 DEF SessionInv, TypeOK
<1>3. /\ closed' \in [Sessions -> BOOLEAN]
      /\ \A m \in Sessions : closed[m] => closed'[m]
      /\ \A m \in Sessions : link[m] = "none" => closed'[m] = closed[m]
  <2>1. closed' = closed \/ (link[n] = "down" /\ closed' = [closed EXCEPT ![n] = TRUE])
    BY DEF Tasks, PeerCloses, ReceiverEnds, ReceiverFails, ReceiverCancelled,
           StopsReading, KeepaliveEnds, KeepaliveCancelled
  <2> QED
    BY <2>1 DEF SessionInv, TypeOK
<1>4. /\ recv' \in [Sessions -> TaskStates] /\ keep' \in [Sessions -> TaskStates]
      /\ \A m \in Sessions : /\ recv'[m] # recv[m] => Live(recv[m]) /\ ~ Live(recv'[m])
                             /\ keep'[m] # keep[m] => Live(keep[m]) /\ ~ Live(keep'[m])
  <2>1. /\ recv' = recv \/ (Live(recv[n]) /\ recv' = [recv EXCEPT ![n] = "ended"])
        /\ keep' = keep \/ (Live(keep[n]) /\ keep' = [keep EXCEPT ![n] = "ended"])
    BY DEF Tasks, PeerCloses, ReceiverEnds, ReceiverFails, ReceiverCancelled,
           StopsReading, KeepaliveEnds, KeepaliveCancelled, Live
  <2> QED
    BY <2>1 DEF SessionInv, TypeOK, TaskStates, Live
<1>9. orphans' = orphans /\ unread' \subseteq unread
  BY DEF Tasks, PeerCloses, ReceiverEnds, ReceiverFails, ReceiverCancelled,
         StopsReading, KeepaliveEnds, KeepaliveCancelled, stale
<1>5. TypeOK'
  BY <1>1, <1>2, <1>3, <1>4, <1>9 DEF SessionInv, TypeOK
<1>6. Untouched'
  BY <1>1, <1>2, <1>3, <1>4 DEF SessionInv, Untouched, Live
<1>7. Standing'
  BY <1>1 DEF SessionInv, Standing
<1>8. FirstUse'
  <2> SUFFICES ASSUME ~ reused' PROVE FirstUse'
    BY DEF FirstUse
  <2>1. FirstUse /\ ~ reused
    BY <1>1 DEF SessionInv
  <2>2. Referred'
    BY <1>1, <1>4, <2>1 DEF FirstUse, Referred
  <2>3. Clean => Clean'
    BY <1>2, <1>3, <1>4 DEF Clean
  <2> QED
    BY <1>1, <2>1, <2>2, <2>3 DEF FirstUse
<1>10. Overdue'
  BY <1>1, <1>9 DEF SessionInv, Overdue
<1> QED
  BY <1>5, <1>6, <1>7, <1>8, <1>10 DEF SessionInv

LEMMA LateAnswerStep ==
  ASSUME SessionInv, NEW a \in unread, LateAnswer(a)
  PROVE  SessionInv'
<1>1. /\ UNCHANGED <<step, after, conn, link, closed, recv, keep, recvRef, keepRef, closing, reused>>
      /\ orphans' = orphans \union {a} /\ unread' = unread \ {a}
  BY DEF LateAnswer
<1>2. TypeOK'
  BY <1>1 DEF SessionInv, TypeOK
<1>3. Untouched' /\ Standing'
  BY <1>1 DEF SessionInv, Untouched, Standing
<1>4. FirstUse'
  BY <1>1 DEF SessionInv, FirstUse, Referred, Clean
<1>5. Overdue'
  BY <1>1 DEF SessionInv, Overdue
<1> QED
  BY <1>2, <1>3, <1>4, <1>5 DEF SessionInv

LEMMA SessionInvStep == SessionInv /\ [Next]_vars => SessionInv'
<1> SUFFICES ASSUME SessionInv, [Next]_vars PROVE SessionInv'
  OBVIOUS
<1>1. CASE UNCHANGED vars
  <2>1. TypeOK'
    BY <1>1 DEF vars, SessionInv, TypeOK
  <2>2. Untouched' /\ Standing'
    BY <1>1 DEF vars, SessionInv, Untouched, Standing
  <2>3. FirstUse'
    BY <1>1 DEF vars, SessionInv, FirstUse, Referred, Clean
  <2>4. Overdue'
    BY <1>1 DEF vars, SessionInv, Overdue
  <2> QED
    BY <2>1, <2>2, <2>3, <2>4 DEF SessionInv
<1>2. CASE Owner
  <2>1. CASE Handshakes
    BY <2>1, AnsweredStep, BeginTeardownStep DEF Handshakes
  <2>2. CASE Close
    <3>1. "given" \in Verdicts
      BY DEF Verdicts
    <3> QED
      BY <2>2, <3>1, BeginTeardownStep
  <2> QED
    BY <1>2, <2>1, <2>2, ConnectStep, OpenStep, AwaitedStep, TeardownEndsStep DEF Owner
<1>3. CASE \E n \in Sessions : Tasks(n)
  BY <1>3, TaskStep
<1>4. CASE \E a \in unread : LateAnswer(a)
  BY <1>4, LateAnswerStep
<1> QED
  BY <1>1, <1>2, <1>3, <1>4 DEF Next

LEMMA SessionInvariant == Spec => []SessionInv
BY SessionInvInit, SessionInvStep, PTL DEF Spec

(***************************************************************************)
(* An object that is connected once leaves nothing running and nothing     *)
(* open, over any number of attempts and in any order of failures.         *)
(***************************************************************************)
THEOREM CleansUp == Spec => []CleanAfterOneUse
<1>1. SessionInv => CleanAfterOneUse
  BY DEF SessionInv, FirstUse, CleanAfterOneUse
<1> QED
  BY <1>1, SessionInvariant, PTL

-------------------------------------------------------------------------------
(***************************************************************************)
(* The handshake with its answers is one of the lives of a client that     *)
(* Session describes, so what is proved there holds here.                  *)
(***************************************************************************)
LEMMA LoginStep == [LoginNext]_<<vars, loginVars>> => [Next]_vars
<1> SUFFICES ASSUME [LoginNext]_<<vars, loginVars>> PROVE [Next]_vars
  OBVIOUS
<1>1. CASE Call \/ GetPublicKey \/ OpenRaises \/ Open \/ CloseClient \/ Elsewhere
  BY <1>1 DEF Call, GetPublicKey, OpenRaises, Open, CloseClient, Elsewhere, Next, Owner
<1>2. ASSUME NEW said \in Verdicts, ExchangeFails(said)
      PROVE  Next
  BY <1>2 DEF ExchangeFails, Handshakes, Owner, Next
<1>3. ASSUME NEW said \in Verdicts, NEW a \in {Own(said)} \union orphans, Ended(a, said)
      PROVE  Next
  <2>1. HandshakeStep(a, said) \/ HandshakeRefused(a, said)
    BY <1>3 DEF Ended, KeyExchanged, KeysGiven, TokenGiven, Enabled, KeysRefused, KeysUnusable,
                TokenRefused, TokenUnusable, Accepts, Raises
  <2> QED
    BY <2>1 DEF Handshakes, Owner, Next
<1>4. CASE UNCHANGED <<vars, loginVars>>
  BY <1>4
<1> QED
  BY <1>1, <1>2, <1>3, <1>4 DEF LoginNext

(***************************************************************************)
(* A behaviour of the handshake, with what it sends, keeps and raises, is  *)
(* one of the client object.                                               *)
(***************************************************************************)
THEOREM LoginIsASession == LoginSpec => Spec
<1>1. LoginInit => Init
  BY DEF LoginInit
<1> QED
  BY <1>1, LoginStep, PTL DEF LoginSpec, Spec

(***************************************************************************)
(* What the object and the Miniserver hold at each place of the handshake. *)
(* Unless an answer to an earlier attempt was taken, the hash for gettoken *)
(* is the one the Miniserver expects, but for a wrong password. A token    *)
(* answers a hash made with the right password, whoever takes it when.     *)
(***************************************************************************)
Owned == accepted = conn /\ hmacKey = issued

Credentials ==
    /\ sessionKey = conn
    /\ step \in {"fetching", "opening"} \union Handshake => error = "none"
    /\ step \in Handshake \union {"connected"} /\ misled => reused
    /\ step = "gettoken" =>
          /\ hash.key = hmacKey /\ hash.right = right
          /\ misled \/ (Owned /\ hash = GettokenHash(scheme, right, issued))
    /\ step \in {"enable", "connected"} =>
          right /\ ((token = conn /\ Owned) \/ (token < conn /\ misled))

(***************************************************************************)
(* What the answers to gettoken say that nobody has taken.                 *)
(***************************************************************************)
Granted == \A a \in orphans \union unread : a.ask = "gettoken" /\ a.says # "refused" => right

LoginInv == LoginTypeOK /\ Credentials /\ Granted /\ BlameIsJustified

LEMMA LoginInvInit == LoginInit => LoginInv
<1> SUFFICES ASSUME LoginInit PROVE LoginInv
  OBVIOUS
<1>1. TypeOK /\ step = "new" /\ conn = 0
  BY SessionInvInit DEF LoginInit, SessionInv, Init
<1>2. LoginTypeOK
  <2>1. 0 \in 0 .. MaxSessions
    BY MaxSessionsAssumption
  <2>2. NoKey \in HmacKeys
    BY DEF HmacKeys
  <2>3. hash \in Hashes
    BY <2>2 DEF LoginInit, NoHash, GettokenHash, Hashes
  <2> QED
    BY <1>1, <2>1, <2>2, <2>3 DEF LoginInit, LoginTypeOK, Errors
<1>3. Credentials
  BY <1>1 DEF LoginInit, Credentials, Handshake
<1>4. Granted
  BY DEF LoginInit, Init, Granted
<1>5. BlameIsJustified
  BY DEF LoginInit, BlameIsJustified
<1> QED
  BY <1>2, <1>3, <1>4, <1>5 DEF LoginInv

LEMMA NoHashIsTyped == NoHash \in Hashes
<1>1. NoKey \in HmacKeys
  BY DEF HmacKeys
<1> QED
  BY <1>1 DEF NoHash, GettokenHash, Hashes

(***************************************************************************)
(* connect up to the opening of the transport, and after it; and close.    *)
(***************************************************************************)
LEMMA BeforeHandshakeStep ==
  ASSUME SessionInv', LoginInv, Call \/ GetPublicKey \/ OpenRaises \/ CloseClient
  PROVE  LoginInv'
<1>1. /\ UNCHANGED <<conn, orphans, unread>>
      /\ step' \in {"fetching", "opening", "failed", "closed", "awaiting_tasks"}
      /\ UNCHANGED <<serverVars, credentialVars, misled>>
      /\ error' \in {"none", "HTTPError", "JSONDecodeError", "DiscoveryError", "AuthError", "OSError"}
      /\ step' \in {"fetching", "opening"} => error' = "none"
  <2>1. CASE Call
    BY <2>1 DEF Call, Connect, stale
  <2>2. CASE GetPublicKey
    BY <2>2 DEF GetPublicKey, FetchKey, KeyError, stale
  <2>3. CASE OpenRaises
    BY <2>3 DEF OpenRaises, OpenFails, stale
  <2>4. CASE CloseClient
    BY <2>4 DEF CloseClient, Close, BeginTeardown, stale
  <2> QED
    BY <2>1, <2>2, <2>3, <2>4
<1>2. LoginTypeOK'
  BY <1>1 DEF LoginInv, LoginTypeOK, SessionInv, serverVars, credentialVars, Errors
<1>3. Credentials'
  BY <1>1 DEF LoginInv, Credentials, serverVars, credentialVars, Handshake
<1>4. Granted'
  BY <1>1 DEF LoginInv, Granted, serverVars
<1>5. BlameIsJustified'
  BY <1>1 DEF BlameIsJustified
<1> QED
  BY <1>2, <1>3, <1>4, <1>5 DEF LoginInv

LEMMA OpenedStep ==
  ASSUME SessionInv', LoginInv, Open
  PROVE  LoginInv'
<1>1. /\ step = "opening" /\ step' = "keyexchange"
      /\ sessionKey' = conn' /\ misled' = FALSE
      /\ UNCHANGED <<right, scheme, accepted, issued, hmacKey, hash, token, error>>
      /\ UNCHANGED <<orphans, unread>>
  BY DEF Open, OpenTransport, serverVars, stale
<1>2. LoginTypeOK'
  BY <1>1 DEF LoginInv, LoginTypeOK, SessionInv, TypeOK
<1>3. Credentials'
  BY <1>1 DEF LoginInv, Credentials, Handshake
<1>4. Granted'
  BY <1>1 DEF LoginInv, Granted
<1>5. BlameIsJustified'
  BY <1>1 DEF LoginInv, Credentials, BlameIsJustified
<1> QED
  BY <1>2, <1>3, <1>4, <1>5 DEF LoginInv

(***************************************************************************)
(* What the Miniserver makes of the request connect is at.                 *)
(***************************************************************************)
LEMMA MiniserverAnswers ==
  ASSUME SessionInv, LoginInv, step \in Handshake, NEW said \in Verdicts, Answered(said)
  PROVE  /\ UNCHANGED <<right, scheme>>
         /\ accepted' \in 0 .. MaxSessions /\ issued' \in HmacKeys
         /\ step \in {"getkey2", "gettoken", "enable"} => accepted' = accepted
         /\ step \in {"keyexchange", "enable"} => issued' = issued
         /\ step = "getkey2" => \/ said = "given" /\ accepted = conn /\ issued' = <<"getkey2", conn>>
                                \/ said = "refused" /\ (accepted # conn \/ ~ right)
         /\ step = "gettoken" =>
               IF said = "refused" THEN issued' = issued /\ ~ (accepted = conn /\ hash = Expected)
               ELSE /\ accepted = conn /\ hash = Expected
                    /\ issued' = IF said = "replaced" THEN <<"gettoken", conn>> ELSE issued
<1>1. conn \in Sessions /\ conn \in 0 .. MaxSessions
  BY DEF SessionInv, TypeOK, Standing, Sessions
<1>2. <<"getkey2", conn>> \in HmacKeys /\ <<"gettoken", conn>> \in HmacKeys
  BY <1>1 DEF HmacKeys
<1>3. accepted \in 0 .. MaxSessions /\ issued \in HmacKeys
  BY DEF LoginInv, LoginTypeOK
<1>4. CASE step = "keyexchange"
  BY <1>1, <1>3, <1>4 DEF Answered
<1>5. CASE step = "getkey2"
  BY <1>2, <1>3, <1>5 DEF Answered
<1>6. CASE step = "gettoken"
  <2>1. CASE accepted = conn /\ hash = Expected
    BY <1>2, <1>3, <1>6, <2>1 DEF Answered
  <2>2. CASE ~ (accepted = conn /\ hash = Expected)
    BY <1>3, <1>6, <2>2 DEF Answered
  <2> QED
    BY <2>1, <2>2
<1>7. CASE step = "enable"
  BY <1>3, <1>7 DEF Answered
<1> QED
  BY <1>4, <1>5, <1>6, <1>7 DEF Handshake

(***************************************************************************)
(* The Miniserver grants a token only for a hash made with the right       *)
(* password.                                                               *)
(***************************************************************************)
LEMMA TokensAreGranted ==
  ASSUME SessionInv, LoginInv, step = "gettoken", accepted = conn, hash = Expected
  PROVE  right /\ hmacKey = issued
<1>1. hash.key = issued /\ hash.right = TRUE
  BY DEF Expected, GettokenHash
<1>2. hash.key = hmacKey /\ hash.right = right
  BY DEF LoginInv, Credentials
<1> QED
  BY <1>1, <1>2

(***************************************************************************)
(* The part of an exchange that does not depend on what the client makes   *)
(* of the answer.                                                          *)
(***************************************************************************)
LEMMA ExchangeEnds ==
  ASSUME SessionInv, LoginInv, step \in Handshake, NEW said \in Verdicts, NEW a,
         Receives(a, said), Answered(said), misled' = (misled \/ a.of # conn), reused' = reused
  PROVE  /\ a.ask = step /\ a.of \in Sessions /\ conn \in Sessions
         /\ a = Own(said) \/ (a.of < conn /\ misled')
         /\ a.of = conn => a = Own(said) /\ misled' = misled
         /\ misled' \in BOOLEAN /\ (misled' => reused)
         /\ step = "gettoken" /\ a.says # "refused" => right
         /\ Granted'
<1>1. /\ orphans' \subseteq orphans /\ unread' \subseteq unread \union {Own(said)}
      /\ a \in Answers /\ a.ask = step /\ Own(said) \in Answers
      /\ a = Own(said) \/ (a.of < conn /\ closing)
  BY ReceivedAnswer
<1>2. a.of \in Sessions /\ conn \in Sessions /\ Own(said).of = conn /\ Own(said).ask = step
      /\ Own(said).says = said
  BY <1>1 DEF Answers, SessionInv, TypeOK, Standing, Sessions, Own
<1>3. a.of < conn => a.of # conn
  BY <1>2 DEF Sessions
<1>4. misled \in BOOLEAN /\ (misled => reused)
  BY DEF LoginInv, LoginTypeOK, Credentials
<1>5. closing => reused
  BY DEF SessionInv, FirstUse, Handshake
<1>6. step = "gettoken" /\ said # "refused" => right
  BY MiniserverAnswers, TokensAreGranted
<1>7. right' = right
  BY MiniserverAnswers
<1>8. Granted'
  <2>1. ASSUME NEW b \in orphans' \union unread', b.ask = "gettoken", b.says # "refused"
        PROVE  right
    <3>1. CASE b = Own(said)
      BY <1>2, <1>6, <2>1, <3>1
    <3>2. CASE b \in orphans \union unread
      BY <2>1, <3>2 DEF LoginInv, Granted
    <3> QED
      BY <1>1, <3>1, <3>2
  <2> QED
    BY <1>7, <2>1 DEF Granted
<1>9. step = "gettoken" /\ a.says # "refused" => right
  <2>1. CASE a = Own(said)
    BY <1>2, <1>6, <2>1
  <2>2. CASE a # Own(said)
    <3>1. a \in orphans
      BY <2>2 DEF Receives, Buffered
    <3> QED
      BY <1>1, <3>1 DEF LoginInv, Granted
  <2> QED
    BY <2>1, <2>2
<1> QED
  BY <1>1, <1>2, <1>3, <1>4, <1>5, <1>8, <1>9

(***************************************************************************)
(* Where an answered exchange leads.                                       *)
(***************************************************************************)
LEMMA FollowingSteps ==
  ASSUME NEW said, NEW a, HandshakeStep(a, said)
  PROVE  /\ step \in Handshake /\ Receives(a, said)
         /\ step = "keyexchange" => step' = "getkey2"
         /\ step = "getkey2" => step' = "gettoken"
         /\ step = "gettoken" => step' = "enable"
         /\ step = "enable" => step' = "connected"
         /\ conn' = conn /\ reused' = reused
BY DEF HandshakeStep, FollowingStep

(***************************************************************************)
(* What the client makes of the Miniserver's algorithm is the Miniserver's *)
(* algorithm, if it is one the client knows.                               *)
(***************************************************************************)
LEMMA SpellingsUnderstood ==
  ASSUME scheme \in Schemes, NEW raw \in Spellings[scheme], FromMiniserver(raw) # "unsupported"
  PROVE  FromMiniserver(raw) = scheme
<1>1. /\ Spellings["SHA1"] = {"", "SHA1", "sha-1"}
      /\ Spellings["SHA256"] = {"SHA256", "sha-256"}
      /\ Spellings["SHA512"] = {"SHA512"}
  BY DEF Spellings
<1>2. CASE scheme = "SHA1"
  BY <1>1, <1>2 DEF FromMiniserver
<1>3. CASE scheme = "SHA256"
  BY <1>1, <1>3 DEF FromMiniserver
<1>4. CASE scheme = "SHA512"
  BY <1>1, <1>4 DEF FromMiniserver
<1> QED
  BY <1>2, <1>3, <1>4 DEF Schemes

LEMMA IssuedKeys ==
  ASSUME NEW n \in Sessions
  PROVE  <<"getkey2", n>> \in HmacKeys /\ <<"gettoken", n>> \in HmacKeys
BY DEF HmacKeys

(***************************************************************************)
(* The answers that let the handshake go on.                               *)
(***************************************************************************)
LEMMA GoodAnswerStep ==
  ASSUME SessionInv, SessionInv', LoginInv, NEW said \in Verdicts, NEW a,
         KeyExchanged(a, said) \/ KeysGiven(a, said) \/ TokenGiven(a, said) \/ Enabled(a, said)
  PROVE  LoginInv'
<1>1. Accepts(a, said)
  BY DEF KeyExchanged, KeysGiven, TokenGiven, Enabled
<1>2. /\ HandshakeStep(a, said) /\ Answered(said)
      /\ misled' = (misled \/ a.of # conn) /\ UNCHANGED <<sessionKey, error>>
  BY <1>1 DEF Accepts
<1>3. /\ step \in Handshake /\ Receives(a, said) /\ conn' = conn /\ reused' = reused
      /\ step = "keyexchange" => step' = "getkey2"
      /\ step = "getkey2" => step' = "gettoken"
      /\ step = "gettoken" => step' = "enable"
      /\ step = "enable" => step' = "connected"
  BY <1>2, FollowingSteps
<1>4. /\ a.ask = step /\ a.of \in Sessions /\ conn \in Sessions
      /\ a = Own(said) \/ (a.of < conn /\ misled')
      /\ a.of = conn => a = Own(said) /\ misled' = misled
      /\ misled' \in BOOLEAN /\ (misled' => reused)
      /\ step = "gettoken" /\ a.says # "refused" => right
      /\ Granted'
  BY <1>2, <1>3, ExchangeEnds
<1>5. /\ UNCHANGED <<right, scheme>> /\ accepted' \in 0 .. MaxSessions /\ issued' \in HmacKeys
      /\ step \in {"getkey2", "gettoken", "enable"} => accepted' = accepted
      /\ step \in {"keyexchange", "enable"} => issued' = issued
  BY <1>2, <1>3, MiniserverAnswers
<1>6. BlameIsJustified'
  <2>1. error' = "none"
    BY <1>2, <1>3 DEF LoginInv, Credentials
  <2> QED
    BY <2>1 DEF BlameIsJustified
<1>7. TypeOK' /\ sessionKey' = conn' /\ error' = "none" /\ a.of \in 0 .. MaxSessions
  BY <1>2, <1>3, <1>4 DEF SessionInv, LoginInv, Credentials, Sessions
<1>8. Own(said).says = said /\ Own(said).of = conn
  BY DEF Own
<1>9. misled => misled'
  BY <1>2 DEF LoginInv, LoginTypeOK
<1>10. CASE KeyExchanged(a, said)
  <2>1. step' = "getkey2" /\ UNCHANGED <<hmacKey, hash, token>>
    BY <1>3, <1>10 DEF KeyExchanged
  <2>2. LoginTypeOK'
    BY <1>2, <1>4, <1>5, <1>7, <2>1 DEF LoginInv, LoginTypeOK
  <2>3. Credentials'
    BY <1>3, <1>4, <1>7, <2>1 DEF Credentials, Handshake
  <2> QED
    BY <1>4, <1>6, <2>2, <2>3 DEF LoginInv
<1>11. CASE KeysGiven(a, said)
  <2>1. /\ step = "getkey2" /\ step' = "gettoken" /\ a.says = "given"
        /\ hmacKey' = <<"getkey2", a.of>> /\ token' = token
    BY <1>3, <1>11 DEF KeysGiven
  <2>2. hash' = GettokenHash(scheme, right, hmacKey')
    <3>1. PICK raw \in Spellings[scheme] :
                  /\ FromMiniserver(raw) # "unsupported"
                  /\ hash' = GettokenHash(FromMiniserver(raw), right, hmacKey')
      BY <1>11 DEF KeysGiven
    <3>2. FromMiniserver(raw) = scheme
      BY <3>1, SpellingsUnderstood DEF LoginInv, LoginTypeOK
    <3> QED
      BY <3>1, <3>2
  <2>3. hmacKey' \in HmacKeys
    BY <1>4, <2>1, IssuedKeys
  <2>4. hash' \in Hashes /\ hash'.key = hmacKey' /\ hash'.right = right
    BY <2>2, <2>3 DEF GettokenHash, Hashes, LoginInv, LoginTypeOK
  <2>5. LoginTypeOK'
    BY <1>2, <1>4, <1>5, <1>7, <2>1, <2>3, <2>4 DEF LoginInv, LoginTypeOK
  <2>6. ~ misled' => accepted' = conn /\ hmacKey' = issued'
    <3>1. ~ misled' => a = Own(said)
      BY <1>4
    <3>2. ~ misled' => said = "given" /\ a.of = conn
      BY <1>8, <2>1, <3>1
    <3>3. \/ said = "given" /\ accepted = conn /\ issued' = <<"getkey2", conn>>
          \/ said = "refused"
      BY <1>2, <1>3, <2>1, MiniserverAnswers
    <3> QED
      BY <1>5, <2>1, <3>2, <3>3
  <2>7. ~ misled' => hash' = GettokenHash(scheme', right', issued')
    BY <1>5, <2>2, <2>6
  <2>8. Credentials'
    BY <1>3, <1>4, <1>5, <1>7, <2>1, <2>4, <2>6, <2>7 DEF Credentials, Owned, Handshake
  <2> QED
    BY <1>4, <1>6, <2>5, <2>8 DEF LoginInv
<1>12. CASE TokenGiven(a, said)
  <2>1. /\ step = "gettoken" /\ step' = "enable" /\ a.says # "refused"
        /\ token' = a.of /\ hash' = NoHash
        /\ hmacKey' = IF a.says = "replaced" THEN <<"gettoken", a.of>> ELSE hmacKey
    BY <1>3, <1>12 DEF TokenGiven
  <2>2. hmacKey' \in HmacKeys
    BY <1>4, <2>1, IssuedKeys DEF LoginInv, LoginTypeOK
  <2>3. LoginTypeOK'
    BY <1>2, <1>4, <1>5, <1>7, <2>1, <2>2, NoHashIsTyped DEF LoginInv, LoginTypeOK
  <2>4. a = Own(said) => token' = conn /\ accepted' = conn /\ hmacKey' = issued'
    <3> SUFFICES ASSUME a = Own(said)
                 PROVE  token' = conn /\ accepted' = conn /\ hmacKey' = issued'
      OBVIOUS
    <3>1. a.says = said /\ a.of = conn
      BY <1>8
    <3>2. /\ accepted = conn /\ hash = Expected
          /\ issued' = IF said = "replaced" THEN <<"gettoken", conn>> ELSE issued
      BY <1>2, <1>3, <2>1, <3>1, MiniserverAnswers
    <3>3. hmacKey = issued
      BY <2>1, <3>2, TokensAreGranted
    <3> QED
      BY <1>5, <2>1, <3>1, <3>2, <3>3
  <2>5. Credentials'
    BY <1>3, <1>4, <1>5, <1>7, <2>1, <2>4 DEF Credentials, Owned, Handshake
  <2> QED
    BY <1>4, <1>6, <2>3, <2>5 DEF LoginInv
<1>13. CASE Enabled(a, said)
  <2>1. step = "enable" /\ step' = "connected" /\ UNCHANGED <<hmacKey, hash, token>>
    BY <1>3, <1>13 DEF Enabled
  <2>2. accepted' = accepted /\ issued' = issued
    BY <1>5, <2>1
  <2>3. LoginTypeOK'
    BY <1>2, <1>4, <1>5, <1>7, <2>1 DEF LoginInv, LoginTypeOK
  <2>4. right /\ ((token = conn /\ Owned) \/ (token < conn /\ misled))
    BY <2>1 DEF LoginInv, Credentials
  <2>5. Credentials'
    BY <1>3, <1>4, <1>5, <1>7, <1>9, <2>1, <2>2, <2>4 DEF Credentials, Owned, Handshake
  <2> QED
    BY <1>4, <1>6, <2>3, <2>5 DEF LoginInv
<1> QED
  BY <1>10, <1>11, <1>12, <1>13

(***************************************************************************)
(* The answers that make connect raise.                                    *)
(***************************************************************************)
LEMMA RaisedStep ==
  ASSUME SessionInv, SessionInv', LoginInv, NEW said \in Verdicts, NEW a,
         \/ KeysRefused(a, said) \/ KeysUnusable(a, said)
         \/ TokenRefused(a, said) \/ TokenUnusable(a, said)
  PROVE  LoginInv'
<1>1. PICK class \in {"AuthenticationError", "ProtocolError", "AuthError", "OverflowError"} :
         /\ Raises(class, a, said)
         /\ class = "AuthenticationError" => /\ step \in {"getkey2", "gettoken"}
                                             /\ a.says = "refused"
  BY DEF KeysRefused, KeysUnusable, TokenRefused, TokenUnusable
<1>2. /\ step \in Handshake /\ Receives(a, said) /\ Answered(said)
      /\ step' \in {"failed", "awaiting_tasks"} /\ UNCHANGED <<conn, reused>>
      /\ misled' = (misled \/ a.of # conn) /\ error' = class /\ hash' = NoHash
      /\ UNCHANGED <<sessionKey, token>>
  BY <1>1 DEF Raises, HandshakeRefused, BeginTeardown
<1>3. /\ a.of \in Sessions /\ conn \in Sessions
      /\ a = Own(said) \/ misled'
      /\ misled' \in BOOLEAN /\ (misled' => reused) /\ Granted'
      /\ ~ misled' => ~ misled /\ a = Own(said)
  BY <1>2, ExchangeEnds DEF LoginInv, LoginTypeOK
<1>4. /\ UNCHANGED <<right, scheme>> /\ accepted' \in 0 .. MaxSessions /\ issued' \in HmacKeys
      /\ step \in {"getkey2", "gettoken"} => accepted' = accepted
  BY <1>2, MiniserverAnswers
<1>5. hmacKey' \in {hmacKey, <<"getkey2", a.of>>}
  BY DEF KeysRefused, KeysUnusable, TokenRefused, TokenUnusable
<1>6. LoginTypeOK'
  <2>1. hmacKey' \in HmacKeys
    BY <1>3, <1>5, IssuedKeys DEF LoginInv, LoginTypeOK
  <2>2. error' \in Errors
    BY <1>2 DEF Errors
  <2> QED
    BY <1>2, <1>3, <1>4, <2>1, <2>2, NoHashIsTyped DEF LoginInv, LoginTypeOK, SessionInv
<1>7. Credentials'
  BY <1>2 DEF LoginInv, Credentials, Handshake
<1>8. BlameIsJustified'
  <2> SUFFICES ASSUME error' = "AuthenticationError", ~ misled'
               PROVE  ~ right \/ accepted # conn
    BY <1>2, <1>3, <1>4, <1>1 DEF BlameIsJustified
  <2>1. /\ class = "AuthenticationError" /\ step \in {"getkey2", "gettoken"}
        /\ a = Own(said) /\ a.says = "refused" /\ ~ misled
    BY <1>1, <1>2, <1>3
  <2>2. said = "refused"
    BY <2>1 DEF Own
  <2>3. CASE step = "getkey2"
    BY <1>2, <2>2, <2>3, MiniserverAnswers
  <2>4. CASE step = "gettoken"
    <3>1. ~ (accepted = conn /\ hash = Expected)
      BY <1>2, <2>2, <2>4, MiniserverAnswers
    <3>2. Owned /\ hash = GettokenHash(scheme, right, issued)
      BY <2>1, <2>4 DEF LoginInv, Credentials
    <3>3. right \in BOOLEAN
      BY DEF LoginInv, LoginTypeOK
    <3>4. CASE right = TRUE
      <4>1. hash = Expected
        BY <3>2, <3>4 DEF Expected
      <4> QED
        BY <3>1, <4>1
    <3> QED
      BY <3>3, <3>4
  <2> QED
    BY <2>1, <2>3, <2>4
<1> QED
  BY <1>3, <1>6, <1>7, <1>8 DEF LoginInv

(***************************************************************************)
(* The exchanges that fail without an answer.                              *)
(***************************************************************************)
LEMMA FailedStep ==
  ASSUME SessionInv, SessionInv', LoginInv, NEW said \in Verdicts, ExchangeFails(said)
  PROVE  LoginInv'
<1>1. /\ HandshakeFails(said) /\ error' = "ClientError" /\ hash' = NoHash
      /\ UNCHANGED <<sessionKey, hmacKey, token, misled>>
      /\ Answered(said) \/ UNCHANGED <<serverVars, stale>>
  BY DEF ExchangeFails
<1>2. step \in Handshake /\ step' \in {"failed", "awaiting_tasks"} /\ conn' = conn
  BY <1>1 DEF HandshakeFails, BeginTeardown
<1>3. /\ UNCHANGED <<right, scheme>> /\ accepted' \in 0 .. MaxSessions /\ issued' \in HmacKeys
  <2>1. CASE Answered(said)
    BY <1>2, <2>1, MiniserverAnswers
  <2>2. CASE UNCHANGED <<serverVars, stale>>
    BY <2>2 DEF serverVars, LoginInv, LoginTypeOK
  <2> QED
    BY <1>1, <2>1, <2>2
<1>4. LoginTypeOK'
  BY <1>1, <1>3, NoHashIsTyped DEF LoginInv, LoginTypeOK, SessionInv, Errors
<1>5. Credentials'
  BY <1>1, <1>2 DEF LoginInv, Credentials, Handshake
<1>6. Granted'
  <2>1. CASE UNCHANGED <<serverVars, stale>>
    BY <2>1 DEF serverVars, stale, LoginInv, Granted
  <2>2. CASE Answered(said)
    <3>1. step = "gettoken" /\ said # "refused" => right
      BY <1>2, <2>2, MiniserverAnswers, TokensAreGranted
    <3>2. PICK wasted \in {{}} \union {{a} : a \in Buffered}, late \in Late(said) :
             /\ orphans' \subseteq (orphans \ wasted) \union late
             /\ unread' \subseteq unread \union late
      BY <1>1 DEF HandshakeFails
    <3>3. late \subseteq {Own(said)} /\ Own(said).ask = step /\ Own(said).says = said
      BY DEF Late, Own
    <3>4. ASSUME NEW b \in orphans' \union unread', b.ask = "gettoken", b.says # "refused"
          PROVE  right
      <4>1. CASE b = Own(said)
        BY <3>1, <3>3, <3>4, <4>1
      <4>2. CASE b \in orphans \union unread
        BY <3>4, <4>2 DEF LoginInv, Granted
      <4> QED
        BY <3>2, <3>3, <4>1, <4>2
    <3> QED
      BY <1>3, <3>4 DEF Granted
  <2> QED
    BY <1>1, <2>1, <2>2
<1>7. BlameIsJustified'
  BY <1>1 DEF BlameIsJustified
<1> QED
  BY <1>4, <1>5, <1>6, <1>7 DEF LoginInv

LEMMA ElsewhereStep ==
  ASSUME SessionInv, SessionInv', LoginInv, Elsewhere
  PROVE  LoginInv'
<1>1. /\ conn' = conn /\ reused' = reused /\ UNCHANGED loginVars
      /\ step' = step \/ step' \in {"failed", "closed", "awaiting_tasks", "closing_transport"}
      /\ orphans' \union unread' \subseteq orphans \union unread
  <2>1. CASE TasksAwaited \/ TeardownEnds
    BY <2>1 DEF Elsewhere, TasksAwaited, TeardownEnds, SessionInv, Standing, stale
  <2>2. CASE \E n \in Sessions : Tasks(n)
    BY <2>2 DEF Elsewhere, Tasks, PeerCloses, ReceiverEnds, ReceiverFails, ReceiverCancelled,
                StopsReading, KeepaliveEnds, KeepaliveCancelled, stale
  <2>3. CASE \E a \in unread : LateAnswer(a)
    BY <2>3 DEF Elsewhere, LateAnswer
  <2> QED
    BY <2>1, <2>2, <2>3 DEF Elsewhere
<1>2. LoginTypeOK'
  BY <1>1 DEF LoginInv, LoginTypeOK, SessionInv, loginVars, serverVars, credentialVars
<1>3. Credentials'
  BY <1>1 DEF LoginInv, Credentials, Owned, Handshake, loginVars, serverVars, credentialVars
<1>4. Granted'
  BY <1>1 DEF LoginInv, Granted, loginVars, serverVars
<1>5. BlameIsJustified'
  BY <1>1 DEF LoginInv, BlameIsJustified, loginVars, serverVars
<1> QED
  BY <1>2, <1>3, <1>4, <1>5 DEF LoginInv

LEMMA LoginInvStep ==
  SessionInv /\ SessionInv' /\ LoginInv /\ [LoginNext]_<<vars, loginVars>> => LoginInv'
<1> SUFFICES ASSUME SessionInv, SessionInv', LoginInv, [LoginNext]_<<vars, loginVars>>
             PROVE  LoginInv'
  OBVIOUS
<1>1. CASE LoginNext
  <2>1. ASSUME NEW said \in Verdicts, NEW a, Ended(a, said)
        PROVE  LoginInv'
    BY <2>1, GoodAnswerStep, RaisedStep DEF Ended
  <2> QED
    BY <1>1, <2>1, BeforeHandshakeStep, OpenedStep, FailedStep, ElsewhereStep DEF LoginNext
<1>2. CASE UNCHANGED <<vars, loginVars>>
  <2>1. LoginTypeOK'
    BY <1>2 DEF LoginInv, LoginTypeOK, SessionInv, loginVars, serverVars, credentialVars
  <2>2. Credentials' /\ BlameIsJustified'
    BY <1>2 DEF LoginInv, Credentials, Owned, BlameIsJustified, vars, loginVars, serverVars,
                credentialVars
  <2>3. Granted'
    BY <1>2 DEF LoginInv, Granted, vars, loginVars, serverVars
  <2> QED
    BY <2>1, <2>2, <2>3 DEF LoginInv
<1> QED
  BY <1>1, <1>2

LEMMA LoginInvariant == LoginSpec => []LoginInv
BY LoginInvInit, LoginInvStep, LoginIsASession, SessionInvariant, PTL DEF LoginSpec

(***************************************************************************)
(* The type invariant of the handshake.                                    *)
(***************************************************************************)
THEOREM LoginTypeCorrect == LoginSpec => []LoginTypeOK
<1>1. LoginInv => LoginTypeOK
  BY DEF LoginInv
<1> QED
  BY <1>1, LoginInvariant, PTL

(***************************************************************************)
(* The object is cleaned up after one use, whatever the Miniserver answers.*)
(***************************************************************************)
THEOREM LoginCleansUp == LoginSpec => []CleanAfterOneUse
BY LoginIsASession, CleansUp

(***************************************************************************)
(* A connected client holds the credentials of its connection, unless its  *)
(* object was used before and it took a late answer of an earlier attempt. *)
(***************************************************************************)
THEOREM ConnectedIsAuthenticated == LoginSpec => []ConnectedHoldsCredentials
<1>1. LoginInv => ConnectedHoldsCredentials
  BY DEF LoginInv, Credentials, Owned, Handshake, ConnectedHoldsCredentials
<1> QED
  BY <1>1, LoginInvariant, PTL

(***************************************************************************)
(* connect blames the credentials only if they are wrong, the session key  *)
(* was refused before, or the attempt, on an object used before, took a    *)
(* late answer of an earlier one.                                          *)
(***************************************************************************)
THEOREM BlameIsAlwaysJustified == LoginSpec => []BlameIsJustified
<1>1. LoginInv => BlameIsJustified
  BY DEF LoginInv
<1> QED
  BY <1>1, LoginInvariant, PTL
===============================================================================
