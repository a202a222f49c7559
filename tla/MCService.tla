------------------------------- MODULE MCService -------------------------------
(***************************************************************************)
(* One call stands for the handshake, two for the tools of turns, over two *)
(* paths of which one extends the other.                                   *)
(***************************************************************************)
EXTENDS Service

SetU == <<"dev", "sps", "io", "u", "set">>
SetU5 == <<"dev", "sps", "io", "u", "set", "5">>

MCKeys == {SetU, SetU5}
MCEchoes == [k \in MCKeys |-> {k, SetU}]
===============================================================================
