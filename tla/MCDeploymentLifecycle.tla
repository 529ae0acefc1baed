----------------------- MODULE MCDeploymentLifecycle -----------------------
(* Two revisions of one package and one revision of a second package. *)
EXTENDS DeploymentLifecycle, TLC

MCPkg == [h \in Hashes |-> IF h = 3 THEN "q" ELSE "p"]

\* Calls are interchangeable.
CallSymmetry == Permutations(Calls)
=============================================================================
