------------------------ MODULE AtLeastOnceDelivery ------------------------
(***************************************************************************)
(* What the host promises about a durable item it has to hand to an agent, *)
(* whatever store and producer carry it: at-least-once delivery            *)
(* (crates/baml-rt-core/src/callback_store.rs, `CallbackStore`).           *)
(*                                                                         *)
(* An item is submitted, may be withdrawn while nobody has been given it,  *)
(* is handed over any number of times while it is queued, and leaves the   *)
(* queue only after its delivery was concluded.  Nothing is handed over    *)
(* once it has been withdrawn or settled.                                  *)
(***************************************************************************)
CONSTANT Items

VARIABLES
    state,      \* where each item stands: absent, queued, withdrawn or settled
    handed,     \* items that were given to an agent at least once
    disposed    \* items whose delivery was concluded

vars == <<state, handed, disposed>>

TypeOK ==
    /\ state \in [Items -> {"absent", "queued", "withdrawn", "settled"}]
    /\ handed \in SUBSET Items
    /\ disposed \in SUBSET Items

Init ==
    /\ state = [i \in Items |-> "absent"]
    /\ handed = {}
    /\ disposed = {}

Submit(i) ==
    /\ state[i] = "absent"
    /\ state' = [state EXCEPT ![i] = "queued"]
    /\ UNCHANGED <<handed, disposed>>

Withdraw(i) ==
    /\ state[i] = "queued"
    /\ i \notin handed
    /\ state' = [state EXCEPT ![i] = "withdrawn"]
    /\ UNCHANGED <<handed, disposed>>

\* The item is given to an agent, and that may conclude its delivery.
HandOver(i) ==
    /\ state[i] = "queued"
    /\ handed' = handed \cup {i}
    /\ disposed' \in {disposed, disposed \cup {i}}
    /\ UNCHANGED state

\* Delivery is concluded without an agent: nobody wants or can read the items.
Dispose(S) ==
    /\ \A i \in S : state[i] = "queued"
    /\ disposed' = disposed \cup S
    /\ UNCHANGED <<state, handed>>

\* Items that are known to have been disposed of leave the queue together.
Settle(S) ==
    /\ \A i \in S : state[i] = "queued" /\ i \in disposed
    /\ state' = [i \in Items |-> IF i \in S THEN "settled" ELSE state[i]]
    /\ UNCHANGED <<handed, disposed>>

Next ==
    \/ \E i \in Items : Submit(i) \/ Withdraw(i) \/ HandOver(i)
    \/ \E S \in SUBSET Items : Dispose(S) \/ Settle(S)

Spec == Init /\ [][Next]_vars
=============================================================================
