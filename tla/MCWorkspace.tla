----------------------------- MODULE MCWorkspace -----------------------------
(***************************************************************************)
(* Two windows with room for two tabs, three sidebar items, and a palette  *)
(* of two actions, one of which a query leaves out; zero is the text "0",  *)
(* which the server takes for empty and the script does not.               *)
(***************************************************************************)
EXTENDS Workspace

CONSTANTS a1, a2, u1, u2, u3, all, some, zero

FoundItems == (all :> 1..3) @@ (some :> {2})
Addresses == <<u1, u2, u3>>
TwoRankings == {<<a1, a2>>, <<a2, a1>>}
FoundActions == (all :> {a1, a2}) @@ (some :> {a2}) @@ (zero :> {a1})
=============================================================================
