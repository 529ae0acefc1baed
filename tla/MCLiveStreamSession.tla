------------------------ MODULE MCLiveStreamSession ------------------------
(* A context with a task in it, and a second context. *)
EXTENDS LiveStreamSession

CONSTANTS m1, m2

\* m1 is a message of the context, m2 names a task in it.
MCKey == [m \in Turns |-> IF m = m2 THEN "ctx/task" ELSE "ctx"]
MCContextKey == [m \in Turns |-> "ctx"]

\* Two contexts.
OtherKey == [m \in Turns |-> IF m = m1 THEN "ctx" ELSE "other"]
=============================================================================
