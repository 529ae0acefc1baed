--------------------------- MODULE MCIngressInbox ---------------------------
(* Small instances of IngressInbox for TLC: producer 1 is Slack, 2 Grafana. *)
EXTENDS IngressInbox

MCKind == [i \in Items |-> IF i \in {"s1", "s2", "s3"} THEN 1 ELSE 2]
=============================================================================
