------------------------------- MODULE Track -------------------------------
(***************************************************************************)
(* The vocabulary of the railway graph.  A block is a directed edge        *)
(* between two markers (EdgeRef in types.ts); it locks BOTH of its         *)
(* boundary markers, so two blocks conflict when they share a marker.      *)
(***************************************************************************)
CONSTANT Marker                \* the layout's marker ids

EdgeRef == Marker \X Marker
From(e) == e[1]
To(e)   == e[2]

EdgeSharesMarker(a, b) ==
    \/ From(a) = From(b) \/ From(a) = To(b)
    \/ To(a) = From(b)   \/ To(a) = To(b)

AnyEdgeSharesMarker(S, e) == \E h \in S : EdgeSharesMarker(h, e)
Touches(S, m) == \E h \in S : From(h) = m \/ To(h) = m
=============================================================================
