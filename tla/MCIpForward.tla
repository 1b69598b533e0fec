------------------------------ MODULE MCIpForward ------------------------------
(* IpForward with the routers of MCRip; packets come from the far end of the  *)
(* line, so that they pass the router in the middle.                          *)
EXTENDS MCRip, IpForward

FarEnd == {C}

\* The line is a tree: towards "a" it is C, B, A, and nearest first the other
\* way round.
LineHop == [d \in {"a"} |-> (C :> <<B, "bc">>) @@ (B :> <<A, "ab">>) @@ (A :> <<>>)]
LineDepth == [d \in {"a"} |-> (C :> 2) @@ (B :> 1) @@ (A :> 0)]
ASSUME LineAssumption == TreeLike(LineHop, LineDepth) /\ HopsSuffice(LineDepth)
==============================================================================
