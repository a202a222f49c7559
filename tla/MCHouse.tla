-------------------------------- MODULE MCHouse --------------------------------
(***************************************************************************)
(* Files of up to two controls at the top, each with up to one sub-control *)
(* of every form, over three uuids and the empty one; a prompt of at most  *)
(* two controls.                                                           *)
(***************************************************************************)
EXTENDS House

MCCategory == [Dimmer |-> "light", Switch |-> "switch"]

Leaf(uuid, form, name, type, favorite, subs) ==
    [uuid |-> uuid, form |-> form, name |-> name, room |-> None,
     type |-> type, favorite |-> favorite, subs |-> subs]

Leaves(uuids, subs) ==
    UNION {{Leaf(u, "good", 1, "Odd", FALSE, s), Leaf(u, "good", 2, "Dimmer", TRUE, s),
            Leaf(u, "good", 2, "Switch", FALSE, s), Leaf(u, "malformed", 1, "Odd", FALSE, s),
            Leaf(u, "unnested", 1, "Odd", TRUE, << >>),
            Leaf(u, "broken", 1, "Odd", FALSE, << >>)} : u \in uuids, s \in subs}

Unkeyed(subs) ==
    UNION {{Leaf("", "good", 1, "Odd", FALSE, s),
            Leaf("", "malformed", 1, "Odd", FALSE, s)} : s \in subs}

Below == Leaves({"a", "b"}, {<< >>}) \union Unkeyed({<< >>})
             \union {Leaf("c", "good", 2, "Switch", FALSE, << >>)}

Subs == {<< >>} \union {<<l>> : l \in Below}

MCEntries == Leaves({"a", "b"}, Subs) \union Unkeyed({<<l>> : l \in Below})
===============================================================================
