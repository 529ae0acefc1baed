---------------------------- MODULE IngressInbox ----------------------------
(***************************************************************************)
(* The durable inbox for pushed events: webhook handlers and the Slack     *)
(* socket enqueue items (deployment_state.rs), one inbox producer per      *)
(* source kind drains them (slack/src/producer.rs,                         *)
(* grafana-alerts/src/producer.rs, external_datasource.rs), the event      *)
(* dispatcher polls the producers one after the other and delivers         *)
(* (event_dispatcher.rs), and the poll loop saves their checkpoints at the *)
(* end of the cycle (lib.rs).                                              *)
(*                                                                         *)
(* The producers share one table, and requeue_stale is not restricted to   *)
(* the caller's source kind: a producer may put back what another one has  *)
(* already delivered but not yet reconciled.                               *)
(***************************************************************************)
EXTENDS Integers, FiniteSets

CONSTANTS
    Items,          \* ingress ids
    NumProducers,   \* inbox producers, polled in the order 1 .. NumProducers
    Kind,           \* the producer whose source kind an item has
    Malformed,      \* items whose stored payload does not convert to an event
    Strict,         \* producers whose poll fails on a malformed item (Slack)
    PollLimit,      \* items per poll
    MaxCrashes,     \* bound on runner crashes
    MaxFaults       \* bound on store errors and failed dispatches

Producers == 1 .. NumProducers

ASSUME ProducersAssumption == NumProducers \in Nat \ {0}
ASSUME KindAssumption == Kind \in [Items -> Producers]
ASSUME LimitAssumption == PollLimit \in Nat \ {0}
ASSUME BoundsAssumption == MaxCrashes \in Nat /\ MaxFaults \in Nat

VARIABLES
    \* --- table ingress_inbox, durable
    status,     \* absent, pending, emitted or delivered
    enqueuedAt, \* enqueued_at_unix_ms, as a serial number
    serial,     \* the next serial number
    stale,      \* emitted items whose retry timeout has passed
    \* --- table event_producer_checkpoints, durable
    savedCp,
    \* --- the poll loop
    pc,         \* next step of the poll cycle, or "down"
    p,          \* the producer being polled
    cp,         \* in-memory checkpoint of every producer
    todo,       \* claimed items the current phase still has to look at
    batch,      \* items of this poll turned into events
    failed,     \* items of this batch with a failed dispatch
    unsaved,    \* producers with outcome Ok whose checkpoint is still to be saved
    \* --- environment and history
    crashes, faults,
    handed,     \* items an agent's dispatch handler was called with
    concluded   \* items accepted by all subscribers, without subscriber, or malformed

inbox == <<status, enqueuedAt, serial, stale>>
locals == <<todo, batch, failed>>
loop == <<pc, p, cp, locals, unsaved>>
env == <<crashes, faults>>
history == <<handed, concluded>>
vars == <<inbox, savedCp, loop, env, history>>

-----------------------------------------------------------------------------
\* enqueue_ingress_item; a known ingress id, in whatever state, is refused.
Enqueue(i) ==
    /\ pc # "down"
    /\ status[i] = "absent"
    /\ status' = [status EXCEPT ![i] = "pending"]
    /\ enqueuedAt' = [enqueuedAt EXCEPT ![i] = serial]
    /\ serial' = serial + 1
    /\ UNCHANGED <<stale, savedCp, loop, env, history>>

\* The retry timeout of an emitted item passes (60 s after its claim).
TimeOut(i) ==
    /\ status[i] = "emitted"
    /\ i \notin stale
    /\ stale' = stale \cup {i}
    /\ UNCHANGED <<status, enqueuedAt, serial, savedCp, loop, env, history>>

-----------------------------------------------------------------------------
(* One producer's poll *)

\* Mutant: only items still marked emitted are confirmed.
ConfirmableMutant == {"emitted"}

\* mark_ingress_delivered confirms items another producer's poll has requeued.
Confirmable == {"pending", "emitted"}

Reconcile ==
    /\ pc = "poll"
    /\ status' = [i \in Items |-> IF i \in cp[p] /\ status[i] \in Confirmable
                                  THEN "delivered" ELSE status[i]]
    /\ pc' = "requeue"
    /\ UNCHANGED <<enqueuedAt, serial, stale, savedCp, p, cp, locals, unsaved, env, history>>

\* Mutant: an emitted item stays emitted.
RequeueStaleMutant ==
    /\ pc = "requeue"
    /\ pc' = "claim"
    /\ UNCHANGED <<inbox, savedCp, p, cp, locals, unsaved, env, history>>

\* requeue_stale_ingress, for the items of every producer
RequeueStale ==
    /\ pc = "requeue"
    /\ status' = [i \in Items |-> IF status[i] = "emitted" /\ i \in stale
                                  THEN "pending" ELSE status[i]]
    /\ stale' = {}
    /\ pc' = "claim"
    /\ UNCHANGED <<enqueuedAt, serial, savedCp, p, cp, locals, unsaved, env, history>>

\* list_pending_ingress_items: the oldest pending items of the producer's kind
Listed ==
    LET pending == {i \in Items : status[i] = "pending" /\ Kind[i] = p}
    IN {i \in pending :
          Cardinality({j \in pending : enqueuedAt[j] < enqueuedAt[i]}) < PollLimit}

\* Mutant: the rows are listed and not claimed.
ClaimPendingMutant ==
    /\ pc = "claim"
    /\ todo' = Listed
    /\ batch' = {}
    /\ failed' = {}
    /\ concluded' = concluded \cup (Listed \cap Malformed)
    /\ pc' = "convert"
    /\ UNCHANGED <<inbox, savedCp, p, cp, unsaved, env, handed>>

\* mark_ingress_emitted: one UPDATE claims what was listed.
ClaimPending ==
    /\ pc = "claim"
    /\ status' = [i \in Items |-> IF i \in Listed THEN "emitted" ELSE status[i]]
    /\ todo' = Listed
    /\ batch' = {}
    /\ failed' = {}
    /\ concluded' = concluded \cup (Listed \cap Malformed)
    /\ pc' = "convert"
    /\ UNCHANGED <<enqueuedAt, serial, stale, savedCp, p, cp, unsaved, env, handed>>

\* The poll of p is over; the cycle goes on with the next producer and, after
\* the last one, saves the checkpoints of those whose outcome is Ok.
PollOver(ok) ==
    /\ unsaved' = IF ok THEN unsaved \cup {p} ELSE unsaved
    /\ IF p = NumProducers
       THEN pc' = "save" /\ p' = 1
       ELSE pc' = "poll" /\ p' = p + 1
    /\ todo' = {} /\ batch' = {} /\ failed' = {}

\* Grafana and external datasources drop a malformed item as delivered.
DropMalformed(i) ==
    /\ pc = "convert"
    /\ p \notin Strict
    /\ i \in todo \cap Malformed
    /\ status' = [status EXCEPT ![i] = "delivered"]
    /\ todo' = todo \ {i}
    /\ UNCHANGED <<enqueuedAt, serial, stale, savedCp, pc, p, cp, batch, failed, unsaved, env, history>>

\* Slack's poll fails as a whole; the claimed rows wait for their timeout.
ConversionFails ==
    /\ pc = "convert"
    /\ p \in Strict
    /\ todo \cap Malformed # {}
    /\ PollOver(FALSE)
    /\ UNCHANGED <<inbox, savedCp, cp, env, history>>

\* The poll returns its events, or an empty checkpoint.
ReturnEvents ==
    /\ pc = "convert"
    /\ todo \cap Malformed = {}
    /\ IF todo = {}
       THEN cp' = [cp EXCEPT ![p] = {}] /\ PollOver(TRUE)
       ELSE batch' = todo /\ pc' = "dispatch" /\ UNCHANGED <<cp, p, todo, failed, unsaved>>
    /\ UNCHANGED <<inbox, savedCp, env, history>>

-----------------------------------------------------------------------------
(* Delivery of the batch *)

\* Every matched subscriber accepts.
Accepted(i) ==
    /\ pc = "dispatch"
    /\ i \in todo
    /\ todo' = todo \ {i}
    /\ handed' = handed \cup {i}
    /\ concluded' = concluded \cup {i}
    /\ UNCHANGED <<inbox, savedCp, pc, p, cp, batch, failed, unsaved, env>>

\* No agent's subscription matches: "advancing checkpoint".
Unmatched(i) ==
    /\ pc = "dispatch"
    /\ i \in todo
    /\ todo' = todo \ {i}
    /\ concluded' = concluded \cup {i}
    /\ UNCHANGED <<inbox, savedCp, pc, p, cp, batch, failed, unsaved, env, handed>>

\* A subscriber rejects, or cannot be reached; others may have had the event.
DispatchFails(i) ==
    /\ pc = "dispatch"
    /\ i \in todo
    /\ faults < MaxFaults
    /\ faults' = faults + 1
    /\ todo' = todo \ {i}
    /\ failed' = failed \cup {i}
    /\ handed' \in {handed, handed \cup {i}}
    /\ UNCHANGED <<inbox, savedCp, pc, p, cp, batch, unsaved, crashes, concluded>>

\* Mutant: the cursor advances whatever happened.
SettleBatchMutant ==
    /\ pc = "dispatch"
    /\ todo = {}
    /\ cp' = [cp EXCEPT ![p] = batch]
    /\ PollOver(TRUE)
    /\ UNCHANGED <<inbox, savedCp, env, history>>

SettleBatch ==
    /\ pc = "dispatch"
    /\ todo = {}
    /\ cp' = IF failed = {} THEN [cp EXCEPT ![p] = batch] ELSE cp
    /\ PollOver(TRUE)
    /\ UNCHANGED <<inbox, savedCp, env, history>>

\* A store error in the poll or a provenance error in a publish: outcome Err.
PollFails ==
    /\ \/ pc \in {"poll", "requeue", "claim", "convert"}
       \/ pc = "dispatch" /\ todo # {}
    /\ faults < MaxFaults
    /\ faults' = faults + 1
    /\ PollOver(FALSE)
    /\ UNCHANGED <<inbox, savedCp, cp, crashes, history>>

-----------------------------------------------------------------------------
(* End of the cycle; crash and restart *)

SaveCheckpoint(q) ==
    /\ pc = "save"
    /\ q \in unsaved
    /\ savedCp' = [savedCp EXCEPT ![q] = cp[q]]
    /\ unsaved' = unsaved \ {q}
    /\ UNCHANGED <<inbox, pc, p, cp, locals, env, history>>

SaveFails(q) ==
    /\ pc = "save"
    /\ q \in unsaved
    /\ faults < MaxFaults
    /\ faults' = faults + 1
    /\ unsaved' = unsaved \ {q}
    /\ UNCHANGED <<inbox, savedCp, pc, p, cp, locals, crashes, history>>

CycleOver ==
    /\ pc = "save"
    /\ unsaved = {}
    /\ pc' = "poll"
    /\ UNCHANGED <<inbox, savedCp, p, cp, locals, unsaved, env, history>>

Crash ==
    /\ pc # "down"
    /\ crashes < MaxCrashes
    /\ crashes' = crashes + 1
    /\ pc' = "down"
    /\ p' = 1
    /\ cp' = [q \in Producers |-> {}]
    /\ todo' = {} /\ batch' = {} /\ failed' = {} /\ unsaved' = {}
    /\ UNCHANGED <<inbox, savedCp, faults, history>>

Restart ==
    /\ pc = "down"
    /\ pc' = "poll"
    /\ cp' = savedCp
    /\ UNCHANGED <<inbox, savedCp, p, locals, unsaved, env, history>>

LoopStep ==
    \/ Reconcile \/ RequeueStale \/ ClaimPending \/ ConversionFails \/ ReturnEvents
    \/ SettleBatch \/ CycleOver \/ Restart
    \/ \E i \in Items : DropMalformed(i) \/ Accepted(i) \/ Unmatched(i)
    \/ \E q \in Producers : SaveCheckpoint(q)

Init ==
    /\ status = [i \in Items |-> "absent"]
    /\ enqueuedAt = [i \in Items |-> 0]
    /\ serial = 0 /\ stale = {}
    /\ savedCp = [q \in Producers |-> {}]
    /\ pc = "poll" /\ p = 1
    /\ cp = [q \in Producers |-> {}]
    /\ todo = {} /\ batch = {} /\ failed = {} /\ unsaved = {}
    /\ crashes = 0 /\ faults = 0
    /\ handed = {} /\ concluded = {}

Next ==
    \/ LoopStep
    \/ \E i \in Items : Enqueue(i) \/ TimeOut(i) \/ DispatchFails(i)
    \/ \E q \in Producers : SaveFails(q)
    \/ PollFails \/ Crash

Spec == Init /\ [][Next]_vars

\* The poll loop runs for ever and time passes; faults and crashes are finite.
FairSpec ==
    /\ Spec
    /\ WF_vars(LoopStep)
    /\ \A i \in Items : WF_vars(TimeOut(i))

-----------------------------------------------------------------------------
(* Properties *)

\* The variables have their types; a poll's locals are within its claim.
TypeOK ==
    /\ status \in [Items -> {"absent", "pending", "emitted", "delivered"}]
    /\ enqueuedAt \in [Items -> Nat] /\ serial \in Nat
    /\ stale \in SUBSET Items
    /\ savedCp \in [Producers -> SUBSET Items]
    /\ pc \in {"poll", "requeue", "claim", "convert", "dispatch", "save", "down"}
    /\ p \in Producers
    /\ cp \in [Producers -> SUBSET Items]
    /\ todo \in SUBSET Items /\ batch \in SUBSET Items
    /\ failed \in SUBSET Items
    /\ unsaved \in SUBSET Producers
    /\ crashes \in Nat /\ faults \in Nat
    /\ handed \in SUBSET Items /\ concluded \in SUBSET Items
    /\ pc \notin {"convert", "dispatch"} => todo = {} /\ batch = {} /\ failed = {}
    /\ pc = "convert" => batch = {} /\ failed = {}
    /\ pc = "dispatch" => todo \cup failed \subseteq batch

\* Nothing leaves the inbox before its delivery was concluded, whatever is
\* requeued, lost with a crash or saved too late (the rule that only a clean
\* batch advances the cursor).
DeliveredWasConcluded == \A i \in Items : status[i] = "delivered" => i \in concluded

\* An item that an in-memory checkpoint names is not dispatched again: its
\* producer confirms it before it lists, even when the poll of another
\* producer has put it back to pending in between.
ConfirmedNotRedispatched ==
    pc = "dispatch" => \A q \in Producers : batch \cap cp[q] = {}

\* While the events of a batch are with the agents their rows stay claimed.
ClaimStaysEmitted == pc = "dispatch" => \A i \in batch : status[i] = "emitted"

\* Refinement mapping onto the abstract queue.
Place(s) ==
    CASE s = "absent"    -> "absent"
      [] s = "delivered" -> "settled"
      [] OTHER           -> "queued"

AtLeastOnce == INSTANCE AtLeastOnceDelivery WITH
    state <- [i \in Items |-> Place(status[i])],
    disposed <- concluded

\* The inbox keeps the host's at-least-once promise.
AtLeastOnceSpec == AtLeastOnce!Spec

\* Every item that was enqueued leaves the inbox, unless it is malformed or
\* shares its producer with a malformed item that fails the whole poll.
Poisoned(i) == \E j \in Malformed : Kind[j] = Kind[i] /\ Kind[i] \in Strict

EnqueuedEventuallyDelivered ==
    \A i \in Items : ~ Poisoned(i) => (status[i] = "pending" ~> status[i] = "delivered")
=============================================================================
