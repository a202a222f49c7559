------------------------------ MODULE EventStream ------------------------------
(***************************************************************************)
(* From the bytes the Miniserver sends to the cached states the tools      *)
(* read: the two-frame protocol of the receive loop (adapter/client.py),   *)
(* the parsers of headers and events (adapter/messages.py) and the         *)
(* StateStore (adapter/state.py).                                          *)
(*                                                                         *)
(* A byte is a number below 256 and lengths are decoded as they are in the *)
(* code. A UUID and a double stay the bytes they are made of: formatting   *)
(* them is injective, and nothing computes with them.                      *)
(***************************************************************************)
EXTENDS Naturals, Sequences, SequencesExt

CONSTANTS UuidLength,   \* 16 in the code
          ValueLength,  \* size of a double, 8
          Uuids,        \* the UUIDs of states: sequences of UuidLength bytes
          Messages,     \* what the Miniserver may send
          MaxSent,      \* bound on the messages sent
          Missing,      \* None
          Malformed     \* MessageError, or a text that is not UTF-8

ASSUME LengthsAssumption == UuidLength \in Nat \ {0} /\ ValueLength \in Nat \ {0}
ASSUME UuidsAssumption == Uuids \subseteq [1 .. UuidLength -> 0 .. 255]
ASSUME MaxSentAssumption == MaxSent \in Nat

VARIABLES
    sent,      \* the messages sent so far
    wire,      \* frames sent and not yet received
    awaited,   \* "HEADER", or the type of the payload the loop awaits
    receiver,  \* whether the loop runs, or how it ended
    handled,   \* ghost: how many messages the loop has finished
    data       \* StateStore._data

vars == <<sent, wire, awaited, receiver, handled, data>>

HEADER_LENGTH == 8
ValueEventLength == UuidLength + ValueLength
TextEventHeaderLength == 2 * UuidLength + 4

Types == <<"TEXT", "BINARY_FILE", "EVENT_VALUES", "EVENT_TEXT",
           "EVENT_DAYTIMER", "OUT_OF_SERVICE", "KEEPALIVE", "EVENT_WEATHER">>

Slice(b, from, n) == SubSeq(b, from + 1, from + n)
Unsigned32(b) == b[1] + 256 * b[2] + 65536 * b[3] + 16777216 * b[4]

(***************************************************************************)
(* MessageHeader.parse.                                                    *)
(***************************************************************************)
ValidHeader(b) == Len(b) = HEADER_LENGTH /\ b[1] = 3 /\ b[2] < Len(Types)
HeaderType(b) == Types[b[2] + 1]
HeaderLength(b) == Unsigned32(Slice(b, 4, 4))

(***************************************************************************)
(* parse_value_events: records of fixed length.                            *)
(***************************************************************************)
ParseValueEvents(b) ==
    IF Len(b) % ValueEventLength # 0 THEN Malformed
    ELSE [i \in 1 .. Len(b) \div ValueEventLength |->
            LET offset == (i - 1) * ValueEventLength
            IN  [uuid |-> Slice(b, offset, UuidLength),
                 value |-> Slice(b, offset + UuidLength, ValueLength)]]

(***************************************************************************)
(* parse_text_events: the records from offset o on. Each has a header, the *)
(* text, and padding to a multiple of four, the last one too. Bytes above  *)
(* 127 stand for what bytes.decode refuses.                                *)
(***************************************************************************)
Padding(n) == (4 - (n % 4)) % 4

ParseTextEvents(b) ==
    LET record[o \in 0 .. Len(b)] ==
          IF o = Len(b) THEN << >>
          ELSE IF o + TextEventHeaderLength > Len(b) THEN Malformed
          ELSE LET start == o + TextEventHeaderLength
                   n == Unsigned32(Slice(b, o + 2 * UuidLength, 4))
                   end == start + n + Padding(n)
                   text == Slice(b, start, n)
               IN  IF end > Len(b) \/ \E i \in DOMAIN text : text[i] > 127 THEN Malformed
                   ELSE IF record[end] = Malformed THEN Malformed
                   ELSE <<[uuid |-> Slice(b, o, UuidLength), text |-> text]>> \o record[end]
    IN  record[0]

(***************************************************************************)
(* _dispatch_payload decodes the whole payload of a response.              *)
(***************************************************************************)
Decodes(b) == \A i \in DOMAIN b : b[i] <= 127

(***************************************************************************)
(* StateStore.set_value and set_text: the other column stays as it was.    *)
(***************************************************************************)
NoEntry == [value |-> Missing, text |-> Missing]

SetValueAlone(d, e) ==   \* mutant: a new entry, without the text
    [d EXCEPT ![e.uuid] = [NoEntry EXCEPT !.value = e.value]]

SetValue(d, e) == [d EXCEPT ![e.uuid].value = e.value]

SetTextAsValue(d, e) == [d EXCEPT ![e.uuid].value = e.text]   \* mutant: wrong column

SetText(d, e) == [d EXCEPT ![e.uuid].text = e.text]

-------------------------------------------------------------------------------
(***************************************************************************)
(* What the Miniserver puts on the wire. A message has a type byte, its    *)
(* events, and the number of bytes missing at its end; a keepalive and an  *)
(* empty message are header only. The events of a message that is not one  *)
(* of events just make up its payload; whether that is UTF-8 is what is    *)
(* said of a message as a response.                                        *)
(***************************************************************************)
Bytes32(n) == <<n % 256, (n \div 256) % 256, (n \div 65536) % 256, n \div 16777216>>
Zeros(n) == [i \in 1 .. n |-> 0]

Record(m, e) ==
    IF m.type = 2 THEN e.uuid \o e.value
    ELSE e.uuid \o e.uuid \o Bytes32(Len(e.text)) \o e.text
         \o Zeros(CHOOSE p \in 0 .. 3 : (Len(e.text) + p) % 4 = 0)

Records(m) == FlattenSeq([i \in DOMAIN m.events |-> Record(m, m.events[i])])

Encode(m) == SubSeq(Records(m), 1, Len(Records(m)) - m.cut)

HeaderOnly(m) == m.type = 6 \/ Len(Encode(m)) = 0

Frames(m) ==
    LET header == <<3, m.type, 0, 0>> \o Bytes32(Len(Encode(m)))
    IN  IF HeaderOnly(m) THEN <<header>> ELSE <<header, Encode(m)>>

(***************************************************************************)
(* What a message is made of: a type byte, and events of states with a     *)
(* double or with a text. Fewer bytes are missing than its last event has: *)
(* without a whole event it is the message of the events before. The       *)
(* lengths fit the four bytes they are sent in. No parser returns          *)
(* Malformed as its result.                                                *)
(***************************************************************************)
FitsFourBytes(n) == n \div 16777216 < 256

IsEvent(m, e) ==
    /\ e.uuid \in Uuids
    /\ IF m.type = 2
       THEN e.value \in [1 .. ValueLength -> 0 .. 255] /\ e = [uuid |-> e.uuid, value |-> e.value]
       ELSE /\ e.text \in Seq(0 .. 255) /\ e = [uuid |-> e.uuid, text |-> e.text]
            /\ FitsFourBytes(Len(e.text))

IsMessage(m) ==
    /\ m.type \in 0 .. 255
    /\ m.events \in Seq(Range(m.events))
    /\ \A i \in DOMAIN m.events : IsEvent(m, m.events[i])
    /\ m.cut \in Nat
    /\ m.cut # 0 => m.events # << >> /\ m.cut < Len(Record(m, Last(m.events)))
    /\ FitsFourBytes(Len(Encode(m)))
    /\ m.utf8 <=> Decodes(Encode(m))

ASSUME MessagesAssumption == \A m \in Messages : IsMessage(m)

ASSUME MalformedAssumption ==
    \A m \in Messages : \A i \in 1 .. Len(m.events) + 1 :
        SubSeq(m.events, i, Len(m.events)) # Malformed

Init ==
    /\ sent = << >> /\ wire = << >>
    /\ awaited = "HEADER"
    /\ receiver = "running"
    /\ handled = 0
    /\ data = [u \in Uuids |-> NoEntry]

Send(m) ==
    /\ Len(sent) < MaxSent
    /\ receiver # "ended"
    /\ sent' = Append(sent, m)
    /\ wire' = wire \o Frames(m)
    /\ UNCHANGED <<awaited, receiver, handled, data>>

(***************************************************************************)
(* The loop receives a frame as a header. A keepalive and a length of zero *)
(* have no payload.                                                        *)
(***************************************************************************)
Receives == receiver = "running" /\ wire # << >> /\ wire' = Tail(wire)

ReadHeaderAlways ==   \* mutant: a length of zero is not looked at
    /\ awaited = "HEADER"
    /\ Receives
    /\ ValidHeader(Head(wire))
    /\ LET skip == HeaderType(Head(wire)) = "KEEPALIVE"
       IN  /\ awaited' = IF skip THEN "HEADER" ELSE HeaderType(Head(wire))
           /\ handled' = IF skip THEN handled + 1 ELSE handled
    /\ UNCHANGED <<sent, receiver, data>>

ReadHeader ==
    /\ awaited = "HEADER"
    /\ Receives
    /\ ValidHeader(Head(wire))
    /\ LET skip == HeaderType(Head(wire)) = "KEEPALIVE" \/ HeaderLength(Head(wire)) = 0
       IN  /\ awaited' = IF skip THEN "HEADER" ELSE HeaderType(Head(wire))
           /\ handled' = IF skip THEN handled + 1 ELSE handled
    /\ UNCHANGED <<sent, receiver, data>>

(***************************************************************************)
(* _dispatch_payload: the whole payload is parsed before its events are    *)
(* recorded, in their order. A response (TEXT) has to be UTF-8, and then   *)
(* is Exchange's subject; the other types are ignored.                     *)
(***************************************************************************)
ReadPayload ==
    /\ awaited # "HEADER"
    /\ Receives
    /\ \/ /\ awaited = "EVENT_VALUES"
          /\ ParseValueEvents(Head(wire)) # Malformed
          /\ data' = FoldLeft(SetValue, data, ParseValueEvents(Head(wire)))
       \/ /\ awaited = "EVENT_TEXT"
          /\ ParseTextEvents(Head(wire)) # Malformed
          /\ data' = FoldLeft(SetText, data, ParseTextEvents(Head(wire)))
       \/ /\ awaited \notin {"EVENT_VALUES", "EVENT_TEXT"}
          /\ awaited = "TEXT" => Decodes(Head(wire))
          /\ data' = data
    /\ awaited' = "HEADER"
    /\ handled' = handled + 1
    /\ UNCHANGED <<sent, receiver>>

(***************************************************************************)
(* A header or a payload that cannot be parsed or decoded ends the loop.   *)
(***************************************************************************)
Fail ==
    /\ Receives
    /\ \/ awaited = "HEADER" /\ ~ ValidHeader(Head(wire))
       \/ awaited = "EVENT_VALUES" /\ ParseValueEvents(Head(wire)) = Malformed
       \/ awaited = "EVENT_TEXT" /\ ParseTextEvents(Head(wire)) = Malformed
       \/ awaited = "TEXT" /\ ~ Decodes(Head(wire))
    /\ receiver' = "failed"
    /\ UNCHANGED <<sent, awaited, handled, data>>

(***************************************************************************)
(* recv raises TransportClosedError, whatever was still on its way: the    *)
(* loop ends, and the cache keeps what it holds (nothing calls clear()).   *)
(***************************************************************************)
Disconnect ==
    /\ receiver = "running"
    /\ receiver' = "ended"
    /\ UNCHANGED <<sent, wire, awaited, handled, data>>

Loop == ReadHeader \/ ReadPayload \/ Fail

Next == Loop \/ Disconnect \/ \E m \in Messages : Send(m)

(***************************************************************************)
(* Fairness: recv returns a frame that has arrived. Nobody has to send.    *)
(***************************************************************************)
Spec == Init /\ [][Next]_vars /\ WF_vars(Loop)

-------------------------------------------------------------------------------
(***************************************************************************)
(* The type invariant.                                                     *)
(***************************************************************************)
TypeOK ==
    /\ sent \in Seq(Messages) /\ Len(sent) <= MaxSent
    /\ wire \in Seq(Seq(0 .. 255))
    /\ awaited \in {"HEADER"} \union {Types[i] : i \in DOMAIN Types}
    /\ receiver \in {"running", "failed", "ended"}
    /\ handled \in 0 .. Len(sent)
    /\ \A u \in Uuids : /\ data[u].value \in {Missing} \union [1 .. ValueLength -> 0 .. 255]
                        /\ data[u].text \in {Missing} \union Seq(0 .. 127)

(***************************************************************************)
(* The loop never takes a payload for a header or a header for a payload:  *)
(* while it runs, what is left on the wire is exactly the frames of the    *)
(* messages not handled yet, less the header it has read.                  *)
(***************************************************************************)
InStep ==
    receiver = "running" =>
        LET left == FlattenSeq([i \in 1 .. (Len(sent) - handled) |-> Frames(sent[handled + i])])
        IN  IF awaited = "HEADER" THEN wire = left ELSE wire = Tail(left)

(***************************************************************************)
(* Through the encoding, the frames, the parsers and the store, the stream *)
(* implements StateFeed: the cache changes once per message, by the whole  *)
(* message or not at all, in the order of sending, with no trace of a      *)
(* message that is malformed at its end; the loop ends on the first        *)
(* malformed message and on no other; and it reads on while it runs. This  *)
(* is what get_state returns.                                              *)
(***************************************************************************)
Feed == INSTANCE StateFeed WITH
            log <- sent,
            applied <- handled,
            stopped <- [running |-> "no", failed |-> "malformed", ended |-> "lost"][receiver],
            regs <- data

ImplementsFeed == Feed!Spec
===============================================================================
