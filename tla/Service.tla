-------------------------------- MODULE Service --------------------------------
(***************************************************************************)
(* The program around the client (__main__._run): the HTTP client, the     *)
(* start-up (structure file, public key, transport, handshake), the bot's  *)
(* polling, the end of the polling, the client's teardown and the end of   *)
(* the process. It is composed with Exchange: the calls of the handshake   *)
(* are made by connect, the others by the tools of the turns. aiogram runs *)
(* turns as tasks nobody waits for, so turns go on, and make calls, while  *)
(* _run closes the client and the HTTP client, until asyncio.run cancels   *)
(* what is left.                                                           *)
(***************************************************************************)
EXTENDS Exchange

CONSTANT HandshakeCalls  \* keyexchange, getkey2, gettoken, enablebinstatusupdate

ASSUME HandshakeAssumption == HandshakeCalls \subseteq Calls

VARIABLES
    main,   \* where _run stands
    http,   \* the httpx client
    opened, \* the transport was opened
    turns   \* the tasks of the turns: none yet, running, or cancelled

mainVars == <<main, http, opened, turns>>
serviceVars == <<vars, mainVars>>

Starting == {"discovering", "fetching_key", "opening"}
Places == Starting \union {"handshake", "polling", "leaving", "closing_http",
                           "cancelling", "exited"}

TurnCalls == Calls \ HandshakeCalls

ServiceInit ==
    /\ Init
    /\ main = "discovering"
    /\ http = "open"
    /\ opened = FALSE
    /\ turns = "none"

-------------------------------------------------------------------------------
(***************************************************************************)
(* The structure file is fetched and parsed, connect fetches the public    *)
(* key and opens the transport ...                                         *)
(***************************************************************************)
Prepare ==
    /\ \/ main = "discovering" /\ main' = "fetching_key"
       \/ main = "fetching_key" /\ main' = "opening"
    /\ UNCHANGED <<vars, http, opened, turns>>

Open ==
    /\ main = "opening"
    /\ main' = "handshake"
    /\ opened' = TRUE
    /\ UNCHANGED <<vars, http, turns>>

(***************************************************************************)
(* ... or one of these raises or is interrupted: there is no client yet    *)
(* that could be closed.                                                   *)
(***************************************************************************)
StartFails ==
    /\ main \in Starting
    /\ main' = "closing_http"
    /\ UNCHANGED <<vars, http, opened, turns>>

(***************************************************************************)
(* connect makes one call after the other ...                              *)
(***************************************************************************)
HandshakeBetween ==
    /\ main = "handshake"
    /\ \A h \in HandshakeCalls : outcome[h] \in {"none", "response"} /\ ~ InProgress(h)

(***************************************************************************)
(* ... and when all are answered well, the bot starts to poll.             *)
(***************************************************************************)
Serve ==
    /\ HandshakeBetween
    /\ \A h \in HandshakeCalls : outcome[h] = "response"
    /\ main' = "polling"
    /\ turns' = "running"
    /\ UNCHANGED <<vars, http, opened>>

(***************************************************************************)
(* connect tears down and raises: a call failed, timed out, was refused or *)
(* cancelled, or its answer is an error or unreadable; or no call was made *)
(* yet, and the session key could not be wrapped.                          *)
(***************************************************************************)
HandshakeEnds ==
    /\ main = "handshake"
    /\ \A h \in HandshakeCalls : ~ InProgress(h)

ConnectRaisesBare ==   \* mutant: connect raises without a teardown
    /\ HandshakeEnds
    /\ main' = "closing_http"
    /\ UNCHANGED <<vars, http, opened, turns>>

ConnectRaises ==
    /\ HandshakeEnds
    /\ TeardownStarts
    /\ main' = "leaving"
    /\ UNCHANGED <<http, opened, turns>>

(***************************************************************************)
(* The polling ends or raises, and the client's context is left.           *)
(***************************************************************************)
Stop ==
    /\ main = "polling"
    /\ TeardownStarts
    /\ main' = "leaving"
    /\ UNCHANGED <<http, opened, turns>>

Left ==
    /\ main = "leaving"
    /\ TeardownEnds
    /\ main' = "closing_http"
    /\ UNCHANGED <<http, opened, turns>>

(***************************************************************************)
(* The HTTP client is closed whatever happened, _run is over, and          *)
(* asyncio.run cancels the tasks that are left ...                         *)
(***************************************************************************)
CloseHttp ==
    /\ main = "closing_http"
    /\ http' = "closed"
    /\ main' = "cancelling"
    /\ turns' = IF turns = "running" THEN "cancelled" ELSE turns
    /\ UNCHANGED <<vars, opened>>

ExitAtOnce ==   \* mutant: the cancelled tasks are not awaited
    /\ main = "cancelling"
    /\ main' = "exited"
    /\ UNCHANGED <<vars, http, opened, turns>>

(***************************************************************************)
(* ... and waits for them.                                                 *)
(***************************************************************************)
Exit ==
    /\ main = "cancelling"
    /\ \A c \in Calls : ~ InProgress(c)
    /\ main' = "exited"
    /\ UNCHANGED <<vars, http, opened, turns>>

Main == \/ Prepare \/ Open \/ StartFails \/ Serve \/ ConnectRaises
        \/ Stop \/ Left \/ CloseHttp \/ Exit

-------------------------------------------------------------------------------
(***************************************************************************)
(* Who may make call c now.                                                *)
(***************************************************************************)
MayCall(c) == IF c \in HandshakeCalls THEN HandshakeBetween ELSE turns = "running"

(***************************************************************************)
(* A step of the client or of its connection, once there is one.           *)
(***************************************************************************)
Client(step) ==
    /\ opened
    /\ main # "exited"
    /\ step
    /\ UNCHANGED mainVars

MakeCall(c) == MayCall(c) /\ Client(Refuse(c) \/ Begin(c))

Proceed(c) == Client(\/ Transmit(c) \/ SendFails(c) \/ Await(c)
                     \/ Expire(c) \/ Return(c) \/ Cancel(c))

Connection == Client(PeerCloses \/ ReceiverEnds \/ ReceiverFails)

ServiceNext == \/ Main
               \/ \E c \in Calls : MakeCall(c) \/ Proceed(c) \/ Client(Answer(c))
               \/ Connection

(***************************************************************************)
(* Fairness. The event loop runs every ready task, timers fire, a send     *)
(* ends or raises (the library closes a connection whose peer is silent)   *)
(* and recv reports a closed connection. What _run awaits ends or raises:  *)
(* HTTP has timeouts, the library bounds opening and closing. The          *)
(* Miniserver owes no answer, nobody has to stop the polling, and no turn  *)
(* has to make a call.                                                     *)
(***************************************************************************)
ServiceSpec == ServiceInit /\ [][ServiceNext]_serviceVars

ServiceFairness ==
    /\ WF_serviceVars(Prepare \/ Open \/ StartFails)
    /\ WF_serviceVars(Serve \/ ConnectRaises \/ \E h \in HandshakeCalls : MakeCall(h))
    /\ WF_serviceVars(Left) /\ WF_serviceVars(CloseHttp) /\ WF_serviceVars(Exit)
    /\ WF_serviceVars(Client(ReceiverEnds))
    /\ \A c \in Calls : /\ WF_serviceVars(Client(Transmit(c) \/ SendFails(c) \/ Await(c)))
                        /\ WF_serviceVars(Client(Expire(c)))
                        /\ WF_serviceVars(Client(Return(c)))

ServiceFairSpec == ServiceSpec /\ ServiceFairness

-------------------------------------------------------------------------------
(***************************************************************************)
(* The type invariant, and how far the client's teardown is when _run      *)
(* stands at each place: whatever raised, a client that was opened is torn *)
(* down before the HTTP client is closed, and turns run only after polling.*)
(***************************************************************************)
ServiceTypeOK ==
    /\ main \in Places
    /\ opened \in BOOLEAN
    /\ http = IF main \in {"cancelling", "exited"} THEN "closed" ELSE "open"
    /\ turns \in {"none", "running", "cancelled"}
    /\ turns = "running" => main \in {"polling", "leaving", "closing_http"}
    /\ main \in Starting => ~ opened
    /\ main \in {"handshake", "polling", "leaving"} => opened
    /\ teardown = IF main = "leaving" THEN "running"
                  ELSE IF opened /\ main \notin {"handshake", "polling"} THEN "done" ELSE "no"

(***************************************************************************)
(* However the program comes to its end, in the middle of a handshake with *)
(* calls of the turns in flight or after a disconnect, it leaves nothing   *)
(* behind: the transport and the HTTP client are closed, the receive loop  *)
(* has ended, no call is registered or in progress.                        *)
(***************************************************************************)
ExitIsClean ==
    main = "exited" =>
        /\ http = "closed"
        /\ opened => closed /\ receiver # "running"
        /\ pending = << >>
        /\ \A c \in Calls : ~ InProgress(c)

(***************************************************************************)
(* The program never hangs between polling and its end: the start-up comes *)
(* to the polling or gives up, even when the Miniserver does not answer,   *)
(* and a stop ends the process although turns keep making calls.           *)
(***************************************************************************)
Settles == main # "polling" ~> main \in {"polling", "exited"}
===============================================================================
