----------------------------- MODULE MCEventStream -----------------------------
(***************************************************************************)
(* Two states, and messages of up to two events: texts of every length     *)
(* modulo four, followed by an empty or a padded one, and one that is not  *)
(* UTF-8, whole or cut short by one or three bytes; a response that is     *)
(* UTF-8 and one that is not; and one message of each kind that is not an  *)
(* event.                                                                  *)
(***************************************************************************)
EXTENDS EventStream

U == <<1, 1>>
V == <<2, 1>>
MCUuids == {U, V}

Texts == {<< >>, <<97>>, <<97, 98>>, <<97, 98, 99>>, <<97, 98, 99, 100>>, <<97, 98, 99, 100, 101>>}
TextEvents == {[uuid |-> u, text |-> t] : u \in MCUuids, t \in Texts}
ValueEvents == {[uuid |-> u, value |-> <<v>>] : u \in MCUuids, v \in {0, 7}}

Followers == {[uuid |-> u, text |-> t] : u \in MCUuids, t \in {<< >>, <<97, 98, 99>>}}

UpTo2(S, T) == {<< >>} \union {<<x>> : x \in S} \union (S \X T)
Content(t, es, c) == [type |-> t, events |-> es, cut |-> c]
Message(t, es, c) == [type |-> t, events |-> es, cut |-> c, utf8 |-> Decodes(Encode(Content(t, es, c)))]

MCMessages ==
    {Message(2, es, 0) : es \in UpTo2(ValueEvents, ValueEvents)}
    \union {Message(3, es, 0) : es \in UpTo2(TextEvents, Followers)}
    \union {Message(2, <<e>>, 1) : e \in ValueEvents}
    \union {Message(3, <<e, [uuid |-> U, text |-> t]>>, c) :
              e \in {[uuid |-> V, text |-> <<97>>]}, t \in Texts, c \in {1, 3}}
    \union {Message(3, <<[uuid |-> U, text |-> <<97>>], [uuid |-> V, text |-> <<200>>]>>, 0)}
    \union {Message(t, << >>, 0) : t \in {0, 5, 6, 9}}
    \union {Message(0, <<[uuid |-> U, text |-> t]>>, 0) : t \in {<<97>>, <<200>>}}
    \union {Message(7, <<[uuid |-> U, text |-> <<97>>]>>, 0)}
===============================================================================
