----------------------------- MODULE Service_proofs -----------------------------
(***************************************************************************)
(* The program uses the client as Exchange describes it, so everything     *)
(* proved of the client holds in the program; and it leaves nothing behind *)
(* when it ends. For any calls, of which any are the handshake's.          *)
(***************************************************************************)
EXTENDS Service, Exchange_proofs

(***************************************************************************)
(* A step of the program is a step of the client or leaves it alone.       *)
(***************************************************************************)
LEMMA ProgramStep == [ServiceNext]_serviceVars => [Next]_vars
<1> SUFFICES ASSUME [ServiceNext]_serviceVars PROVE [Next]_vars
  OBVIOUS
<1>1. CASE Main
  BY <1>1 DEF Main, Prepare, Open, StartFails, Serve, ConnectRaises, Stop, Left,
              CloseHttp, Exit, Next
<1>2. ASSUME NEW c \in Calls, MakeCall(c) PROVE [Next]_vars
  BY <1>2 DEF MakeCall, Client, Next, Call
<1>3. ASSUME NEW c \in Calls, Proceed(c) PROVE [Next]_vars
  BY <1>3 DEF Proceed, Client, Next, Call
<1>4. ASSUME NEW c \in Calls, Client(Answer(c)) PROVE [Next]_vars
  BY <1>4 DEF Client, Next
<1>5. CASE Connection
  BY <1>5 DEF Connection, Client, Next
<1>6. CASE UNCHANGED serviceVars
  BY <1>6 DEF serviceVars
<1> QED
  BY <1>1, <1>2, <1>3, <1>4, <1>5, <1>6 DEF ServiceNext

(***************************************************************************)
(* The program is one of the users of the client that Exchange allows:     *)
(* its start-up, polling and end only restrict when calls are made and     *)
(* when the client is torn down.                                           *)
(***************************************************************************)
THEOREM ProgramUsesClient == ServiceSpec => Spec
<1>1. ServiceInit => Init
  BY DEF ServiceInit
<1> QED
  BY <1>1, ProgramStep, PTL DEF ServiceSpec, Spec

(***************************************************************************)
(* So the client implements its abstract service in the program, too.      *)
(***************************************************************************)
THEOREM ProgramRefinesRequestReply == ServiceSpec => ImplementsRequestReply
BY ProgramUsesClient, ClientRefinesRequestReply, PTL

-------------------------------------------------------------------------------
(***************************************************************************)
(* What makes the end clean: the place of _run tells how far the teardown  *)
(* is, a teardown that is done has closed the transport and the receive    *)
(* loop has ended, and after the end no call is in progress.               *)
(***************************************************************************)
TornDown ==
    /\ teardown # "no" => receiver # "running"
    /\ teardown = "done" => closed

Over == main = "exited" => \A c \in Calls : ~ InProgress(c)

NeverOpened ==
    ~ opened => /\ pending = << >>
                /\ \A c \in Calls : ~ InProgress(c)

ServiceInv == ServiceTypeOK /\ TornDown /\ Over /\ NeverOpened

LEMMA ServiceInvInit == ServiceInit => ServiceInv
BY DEF ServiceInit, Init, ServiceInv, ServiceTypeOK, TornDown, Over, NeverOpened, Places,
       Starting, InProgress

(***************************************************************************)
(* The client's steps that the program takes outside its own places leave  *)
(* the teardown alone, and revive neither transport nor receive loop.      *)
(***************************************************************************)
LEMMA ClientLeavesTeardown ==
  ASSUME NEW c \in Calls,
         Call(c) \/ Answer(c) \/ PeerCloses \/ ReceiverEnds \/ ReceiverFails
  PROVE  /\ teardown' = teardown
         /\ closed => closed'
         /\ receiver # "running" => receiver' # "running"
<1> USE DEF linkVars, clientVars
<1>1. CASE Call(c)
  BY <1>1 DEF Call, Refuse, Begin, Transmit, SendFails, Await, Expire, Return, Cancel
<1>2. CASE Answer(c)
  <2>1. CASE DropUnreadable(c)
    BY <2>1 DEF DropUnreadable
  <2>2. ASSUME NEW e, Deliver(c, e) PROVE UNCHANGED linkVars
    BY <2>2 DEF Deliver
  <2>3. ASSUME NEW e, Buffer(c, e) PROVE UNCHANGED linkVars
    BY <2>3 DEF Buffer
  <2> QED
    BY <1>2, <2>1, <2>2, <2>3 DEF Answer
<1>3. CASE PeerCloses
  BY <1>3 DEF PeerCloses
<1>4. CASE ReceiverEnds
  BY <1>4 DEF ReceiverEnds
<1>5. CASE ReceiverFails
  BY <1>5 DEF ReceiverFails
<1> QED
  BY <1>1, <1>2, <1>3, <1>4, <1>5

LEMMA ServiceInvStep == ServiceInv /\ [ServiceNext]_serviceVars => ServiceInv'
<1> SUFFICES ASSUME ServiceInv, [ServiceNext]_serviceVars PROVE ServiceInv'
  OBVIOUS
<1> USE DEF ServiceInv, mainVars
<1>1. CASE Main
  <2> USE DEF ServiceTypeOK, TornDown, Over, NeverOpened, Places, Starting, vars, clientVars,
              linkVars, InProgress
  <2>1. CASE Prepare
    BY <2>1 DEF Prepare
  <2>2. CASE Open
    BY <2>2 DEF Open
  <2>3. CASE StartFails
    BY <2>3 DEF StartFails
  <2>4. CASE Serve
    BY <2>4 DEF Serve, HandshakeBetween
  <2>5. CASE ConnectRaises
    BY <2>5 DEF ConnectRaises, HandshakeEnds, TeardownStarts
  <2>6. CASE Stop
    BY <2>6 DEF Stop, TeardownStarts
  <2>7. CASE Left
    BY <2>7 DEF Left, TeardownEnds
  <2>8. CASE CloseHttp
    BY <2>8 DEF CloseHttp
  <2>9. CASE Exit
    BY <2>9 DEF Exit
  <2> QED
    BY <1>1, <2>1, <2>2, <2>3, <2>4, <2>5, <2>6, <2>7, <2>8, <2>9 DEF Main
<1>2. ASSUME NEW c \in Calls, opened, main # "exited", UNCHANGED mainVars,
             Call(c) \/ Answer(c) \/ PeerCloses \/ ReceiverEnds \/ ReceiverFails
      PROVE  ServiceInv'
  <2>1. teardown' = teardown /\ (closed => closed')
        /\ (receiver # "running" => receiver' # "running")
    BY <1>2, ClientLeavesTeardown
  <2>2. ServiceTypeOK'
    BY <1>2, <2>1 DEF ServiceTypeOK, Starting, Places
  <2>3. TornDown'
    BY <2>1 DEF TornDown
  <2> QED
    BY <1>2, <2>2, <2>3 DEF Over, NeverOpened
<1>3. ASSUME NEW c \in Calls, MakeCall(c) PROVE ServiceInv'
  BY <1>2, <1>3 DEF MakeCall, Client, Call
<1>4. ASSUME NEW c \in Calls, Proceed(c) PROVE ServiceInv'
  BY <1>2, <1>4 DEF Proceed, Client, Call
<1>5. ASSUME NEW c \in Calls, Client(Answer(c)) PROVE ServiceInv'
  BY <1>2, <1>5 DEF Client
<1>6. CASE Connection
  <2>1. CASE Calls = {}
    <3>1. opened /\ main # "exited" /\ UNCHANGED mainVars
          /\ (PeerCloses \/ ReceiverEnds \/ ReceiverFails)
      BY <1>6 DEF Connection, Client
    <3>2. /\ teardown' = teardown
          /\ closed => closed'
          /\ receiver # "running" => receiver' # "running"
      BY <3>1 DEF PeerCloses, ReceiverEnds, ReceiverFails
    <3>3. ServiceTypeOK'
      BY <3>1, <3>2 DEF ServiceTypeOK, Starting, Places
    <3> QED
      BY <3>1, <3>2, <3>3 DEF TornDown, Over, NeverOpened
  <2>2. CASE \E c \in Calls : TRUE
    BY <1>2, <1>6, <2>2 DEF Connection, Client
  <2> QED
    BY <2>1, <2>2
<1>7. CASE UNCHANGED serviceVars
  BY <1>7 DEF serviceVars, vars, clientVars, linkVars, ServiceTypeOK, TornDown, Over,
              NeverOpened, InProgress, Starting, Places
<1> QED
  BY <1>1, <1>3, <1>4, <1>5, <1>6, <1>7 DEF ServiceNext

LEMMA ServiceInvariant == ServiceSpec => []ServiceInv
BY ServiceInvInit, ServiceInvStep, PTL DEF ServiceSpec

(***************************************************************************)
(* The type invariant of the program.                                      *)
(***************************************************************************)
THEOREM ServiceTypeCorrect == ServiceSpec => []ServiceTypeOK
<1>1. ServiceInv => ServiceTypeOK
  BY DEF ServiceInv
<1> QED
  BY <1>1, ServiceInvariant, PTL

(***************************************************************************)
(* The program leaves nothing behind: what is registered belongs to a call *)
(* in progress (RegistryCorrect), and at the end there is none.            *)
(***************************************************************************)
THEOREM ExitsCleanly == ServiceSpec => []ExitIsClean
<1>1. ServiceInv /\ TypeOK /\ EntriesHaveOwners => ExitIsClean
  <2> SUFFICES ASSUME ServiceInv, TypeOK, EntriesHaveOwners, main = "exited"
               PROVE  ExitIsClean
    BY DEF ExitIsClean
  <2>1. \A c \in Calls : ~ InProgress(c)
    BY DEF ServiceInv, Over
  <2>2. pending = << >>
    <3>1. \A i \in DOMAIN pending : FALSE
      BY <2>1, EntryType DEF EntriesHaveOwners
    <3>2. pending \in Seq(Entry)
      BY DEF TypeOK
    <3>3. Len(pending) \in Nat /\ DOMAIN pending = 1 .. Len(pending)
      BY <3>2, LenProperties
    <3>4. Len(pending) = 0
      BY <3>1, <3>3
    <3> QED
      BY <3>2, <3>4, EmptySeq
  <2> QED
    BY <2>1, <2>2 DEF ServiceInv, ServiceTypeOK, TornDown, ExitIsClean
<1> QED
  BY <1>1, ServiceInvariant, ProgramUsesClient, TypeCorrect, RegistryCorrect, PTL
===============================================================================
