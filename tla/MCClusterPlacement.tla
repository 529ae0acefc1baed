------------------------- MODULE MCClusterPlacement -------------------------
(* Small instances of ClusterPlacement. *)
EXTENDS ClusterPlacement
=============================================================================
