------------------------- MODULE MCCallbackDelivery -------------------------
(* Small instances of CallbackDelivery for TLC. *)
EXTENDS CallbackDelivery

CONSTANTS a1, a2, t1, k1

\* Two subscribers of s1.
MCSubscriptions == {<<a1, "s1">>, <<a2, "s1">>}
MCOwner == [t \in Turns |-> a1]

Keyed   == [src |-> "s1", dedupe |-> k1, after |-> 0, turn |-> t1]
Plain   == [src |-> "s1", dedupe |-> NoKey, after |-> 1, turn |-> t1]

\* Every source key has a subscriber while its agent is deployed.
MCRequests == {Keyed, Plain}
=============================================================================
