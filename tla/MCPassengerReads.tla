--------------------------- MODULE MCPassengerReads ---------------------------
(* An instance of PassengerReads for TLC. *)
EXTENDS PassengerReads, TLC

CONSTANTS c1, c2, g1, g2, r1, r2, v1, v2, v3, a1, a2, d1, d2, d3, d4

\* One client follows a route through the API, or two start the process together.
MCLoads == {c1 :> 4 @@ c2 :> 0, c1 :> 2 @@ c2 :> 1}
MCKinds == c1 :> {"search", "nearby", "directions", "segments"} @@ c2 :> {"ready", "nearby"}
\* The second generation changes one route and drops the other; a direction has
\* no label.
MCDataset    == g1 :> {<<r1, v1, a1>>, <<r2, v2, a1>>} @@ g2 :> {<<r1, v3, a2>>}
MCDirections == v1 :> {d1, d2} @@ v2 :> {d3} @@ v3 :> {d4}
MCLabelled   == v1 :> {d1} @@ v2 :> {d3} @@ v3 :> {d4}
=============================================================================
