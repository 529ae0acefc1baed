--------------------------- MODULE MCTaskUpdates ---------------------------
(* Small instances of TaskUpdates. *)
EXTENDS TaskUpdates

\* A stream that works and produces, gives up and goes on, or completes; every chunk may
\* follow every other.
MCChunkKinds == {<<"WORKING", "artifact">>, <<"CANCELED">>, <<"COMPLETED", "message">>}
=============================================================================
