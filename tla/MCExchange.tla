------------------------------ MODULE MCExchange ------------------------------
(***************************************************************************)
(* Three calls over three command paths: a command, the same command with  *)
(* a value (client.py:207-210 makes the one extend the other), and a       *)
(* command to another control. A response echoes the full path or, for the *)
(* longer one, the stem.                                                   *)
(***************************************************************************)
EXTENDS Exchange, TLC

SetU == <<"dev", "sps", "io", "u", "set">>
SetU5 == <<"dev", "sps", "io", "u", "set", "5">>
OnV == <<"dev", "sps", "io", "v", "On">>

MCKeys == {SetU, SetU5, OnV}
MCEchoes == [k \in MCKeys |-> IF k = SetU5 THEN {SetU5, SetU} ELSE {k}]
Symmetry == Permutations(Calls)
===============================================================================
