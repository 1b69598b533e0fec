-------------------------------- MODULE MCRip --------------------------------
(* The constants TLC checks Rip with: three routers, in a triangle or in a    *)
(* line, and the network behind one of them.                                  *)
EXTENDS Rip, TLC

CONSTANTS A, B, C

MCRouters == {A, B, C}
MCPrefixes == {"ab", "bc", "ca", "a"}
Triangle == (A :> {"ab", "ca", "a"}) @@ (B :> {"ab", "bc"}) @@ (C :> {"bc", "ca"})
TriangleNeighbors ==
    (A :> <<<<B, "ab">>, <<C, "ca">>>>) @@ (B :> <<<<A, "ab">>, <<C, "bc">>>>)
    @@ (C :> <<<<B, "bc">>, <<A, "ca">>>>)
Line == (A :> {"ab", "a"}) @@ (B :> {"ab", "bc"}) @@ (C :> {"bc"})
LineNeighbors ==
    (A :> <<<<B, "ab">>>>) @@ (B :> <<<<A, "ab">>, <<C, "bc">>>>) @@ (C :> <<<<B, "bc">>>>)
\* One interface of each kind: B and C are alike, and A's own network has no
\* other end.
LinksOfB == {<<A, "ab">>, <<B, "ab">>, <<B, "bc">>}
NetworkOfA == {"a"}
==============================================================================
