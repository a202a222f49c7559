------------------------------- MODULE StateFeed -------------------------------
(***************************************************************************)
(* What the event stream of a Miniserver promises to the tools that read   *)
(* states: a log of messages is applied to one register per state, one     *)
(* message at a time, in order and as a whole, until a message is          *)
(* malformed or the connection is lost. A register has two columns, and an *)
(* event of one kind leaves the other column alone. There are no frames,   *)
(* no bytes and no parsers here: EventStream implements this specification.*)
(***************************************************************************)
EXTENDS Naturals, Sequences, FiniteSetsExt

CONSTANTS Uuids,     \* the states
          Messages,  \* what may be published
          Missing    \* the content of a column that was never written

VARIABLES
    log,      \* the messages published so far
    applied,  \* how many of them have been applied
    stopped,  \* "no", or why nothing is applied any more
    regs      \* the registers

vars == <<log, applied, stopped, regs>>

Response == 0      \* type of a message that answers a request
ValueStates == 2   \* type of a message that carries values
TextStates == 3    \* type of a message that carries texts
KnownTypes == 0 .. 7

(***************************************************************************)
(* A message is well-formed if its type is known and, when it carries      *)
(* events, nothing of it is missing and every text is UTF-8 (here: has no  *)
(* byte above 127); a response is UTF-8 as a whole.                        *)
(***************************************************************************)
WellFormed(m) ==
    /\ m.type \in KnownTypes
    /\ m.type = Response => m.utf8
    /\ m.type \in {ValueStates, TextStates} => m.cut = 0
    /\ m.type = TextStates => \A i \in DOMAIN m.events :
                                 \A j \in DOMAIN m.events[i].text : m.events[i].text[j] <= 127

(***************************************************************************)
(* The register of a state after a message: the last event about the state *)
(* decides, in the column the message is about.                            *)
(***************************************************************************)
About(m, u) == {i \in DOMAIN m.events : m.events[i].uuid = u}
LastAbout(m, u) == m.events[Max(About(m, u))]

After(m, u) ==
    IF About(m, u) = {} THEN regs[u]
    ELSE CASE m.type = ValueStates -> [regs[u] EXCEPT !.value = LastAbout(m, u).value]
           [] m.type = TextStates -> [regs[u] EXCEPT !.text = LastAbout(m, u).text]
           [] OTHER -> regs[u]

-------------------------------------------------------------------------------
Init ==
    /\ log = << >>
    /\ applied = 0
    /\ stopped = "no"
    /\ regs = [u \in Uuids |-> [value |-> Missing, text |-> Missing]]

Publish(m) ==
    /\ log' = Append(log, m)
    /\ UNCHANGED <<applied, stopped, regs>>

Following == log[applied + 1]

Apply ==
    /\ stopped = "no"
    /\ applied < Len(log)
    /\ WellFormed(Following)
    /\ applied' = applied + 1
    /\ regs' = [u \in Uuids |-> After(Following, u)]
    /\ UNCHANGED <<log, stopped>>

Reject ==
    /\ stopped = "no"
    /\ applied < Len(log)
    /\ ~ WellFormed(Following)
    /\ stopped' = "malformed"
    /\ UNCHANGED <<log, applied, regs>>

Lose ==
    /\ stopped = "no"
    /\ stopped' = "lost"
    /\ UNCHANGED <<log, applied, regs>>

Next == Apply \/ Reject \/ Lose \/ \E m \in Messages : Publish(m)

(***************************************************************************)
(* A published message does not stay unread while the feed is not stopped. *)
(***************************************************************************)
Spec == Init /\ [][Next]_vars /\ WF_vars(Apply \/ Reject)
===============================================================================
