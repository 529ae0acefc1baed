-------------------------- MODULE CallbackDelivery --------------------------
(***************************************************************************)
(* The path of a scheduled callback: the `system/callback` tool writes a   *)
(* row in the runner's state store (deployment_state.rs), the callback     *)
(* producer lists due rows, asks the delivery gate, claims them and turns  *)
(* them into events (callback_producer.rs, callback_delivery.rs), the      *)
(* event dispatcher publishes them to the subscribed agents and advances   *)
(* the producer's checkpoint (event_dispatcher.rs, event_delivery.rs), and *)
(* the poll loop persists that checkpoint (lib.rs).  The next poll turns   *)
(* the checkpoint into `delivered` rows.                                   *)
(*                                                                         *)
(* One poll cycle is cut at its awaits, so that agents' turns, schedule    *)
(* and cancel calls, deployments and a crash of the runner interleave      *)
(* with it.                                                                *)
(***************************************************************************)
EXTENDS Integers, FiniteSets

CONSTANTS
    Callbacks,      \* callback ids (UUIDs; the order of the numbers is the order of ids)
    Requests,       \* schedule requests: records [src, dedupe, after, turn]
    NoKey,          \* a request without dedupe key
    Agents,         \* agents the runner may host
    Subscriptions,  \* pairs <<agent, source key>>: manifests' subscriptions
    Turns,          \* A2A turns (context and task) that may schedule callbacks
    Owner,          \* the agent that runs a turn
    PollLimits,     \* values of MAX_CALLBACKS_PER_POLL to look at
    MaxNow,         \* bound on the clock
    MaxCrashes,     \* bound on runner crashes
    MaxFaults       \* bound on store errors and failed dispatches

ASSUME CallbacksAssumption == Callbacks \subseteq Nat
ASSUME LimitAssumption == PollLimits \subseteq Nat \ {0}
ASSUME BoundsAssumption == MaxNow \in Nat /\ MaxCrashes \in Nat /\ MaxFaults \in Nat
ASSUME OwnerAssumption == Owner \in [Turns -> Agents]
ASSUME RequestsAssumption == \A r \in Requests : r.after \in Nat /\ r.turn \in Turns

VARIABLES
    \* --- table scheduled_callbacks, durable
    req,        \* the immutable columns of the row an id stands for
    status,     \* absent, pending, delivered or cancelled
    dueAt,      \* scheduled_for_unix_ms
    emitted,    \* ids whose emitted_at_unix_ms is set
    \* --- table event_producer_checkpoints, durable
    savedCp,
    \* --- the runner process
    limit,      \* MAX_CALLBACKS_PER_POLL, fixed
    turn,       \* idle, running, or orphaned: running on, out of the registry or the map
    routed,     \* agents in the registry
    \* --- the poll loop
    pc,         \* next step of the poll cycle, or "down"
    cp,         \* the in-memory checkpoint: ids to reconcile
    todo,       \* ids the current phase of the poll still has to look at
    batch,      \* ids the poll has let through so far
    cur,        \* the event being fanned out: {} or the singleton of its id
    targets,    \* matched subscribers the event in hand still has to go to
    failed,     \* ids of this batch with a failure or without subscriber
    \* --- environment
    now, crashes, faults,
    \* --- history
    handed,     \* ids some agent's dispatch handler was called with
    clean       \* ids with a publish where a subscriber matched and all accepted

store == <<req, status, dueAt, emitted, savedCp, limit>>
process == <<turn, routed>>
loop == <<pc, cp, todo, batch, cur, targets, failed>>
env == <<now, crashes, faults>>
history == <<handed, clean>>
vars == <<store, process, loop, env, history>>

-----------------------------------------------------------------------------
(* The store's queries *)

\* Mutant: cancel and dedupe lookups forget emitted_at_unix_ms = NONE.
WithdrawableMutant(c) == status[c] = "pending"

\* find_pending_callback_by_id / _by_dedupe: a row that can still be withdrawn.
Withdrawable(c) == status[c] = "pending" /\ c \notin emitted

SameDedupe(c, d) ==
    /\ req[c].dedupe # NoKey
    /\ req[c].dedupe = req[d].dedupe
    /\ req[c].src = req[d].src

\* The dedupe lookup of schedule_callback_with_dedupe.
DedupeHitMutant(c) == \E d \in emitted : status[d] = "pending" /\ SameDedupe(c, d)

DedupeHit(c) == \E d \in Callbacks : Withdrawable(d) /\ SameDedupe(c, d)

Due(c) == status[c] = "pending" /\ dueAt[c] <= now

\* ORDER BY scheduled_for_unix_ms ASC, callback_id ASC
Before(c, d) == dueAt[c] < dueAt[d] \/ (dueAt[c] = dueAt[d] /\ c < d)

\* The first row of a set in list_due_callbacks' order.
IsFirst(c, S) == c \in S /\ \A d \in S \ {c} : Before(c, d)

\* Mutant: LIMIT counts the rows that are settled, too.
DueCallbacksMutant ==
    LET rows == {c \in Callbacks : status[c] # "absent" /\ dueAt[c] <= now}
    IN {c \in rows : status[c] = "pending" /\ Cardinality({d \in rows : Before(d, c)}) < limit}

\* list_due_callbacks: emitted rows are listed again until they are delivered.
DueCallbacks ==
    LET due == {c \in Callbacks : Due(c)}
    IN {c \in due : Cardinality({d \in due : Before(d, c)}) < limit}

\* RunnerCallbackDeliveryGate looks the turn up through the registry and the
\* session map: a run that left them is in flight only while a tool session of
\* it is open, and with an agent that is not routed any more not even then.
GateOpen(c) == turn[req[c].turn] # "running"
GateShut(c) ==
    \/ turn[req[c].turn] = "running"
    \/ turn[req[c].turn] = "orphaned" /\ Owner[req[c].turn] \in routed

\* subscriptions_match_published_event over the registry's current entries
Subscribers(c) == {a \in routed : <<a, req[c].src>> \in Subscriptions}

-----------------------------------------------------------------------------
(* Agents' turns and the system/callback tool *)

StartTurn(t) ==
    /\ pc # "down"
    /\ turn[t] = "idle"
    /\ Owner[t] \in routed
    /\ turn' = [turn EXCEPT ![t] = "running"]
    /\ UNCHANGED <<store, routed, loop, env, history>>

EndTurn(t) ==
    /\ turn[t] # "idle"
    /\ turn' = [turn EXCEPT ![t] = "idle"]
    /\ UNCHANGED <<store, routed, loop, env, history>>

\* The client drops its response stream: the session leaves the map, and the
\* agent's run goes on unseen by the gate (LiveStreamSession).
LoseClient(t) ==
    /\ turn[t] = "running"
    /\ turn' = [turn EXCEPT ![t] = "orphaned"]
    /\ UNCHANGED <<store, routed, loop, env, history>>

\* schedule_callback: under callback_lock a request with a dedupe key that
\* finds a withdrawable row returns that row and changes nothing.
ScheduleCallback(c) ==
    /\ pc # "down"
    /\ status[c] = "absent"
    /\ turn[req[c].turn] # "idle"
    /\ ~ DedupeHit(c)
    /\ status' = [status EXCEPT ![c] = "pending"]
    /\ dueAt' = [dueAt EXCEPT ![c] = now + req[c].after]
    /\ UNCHANGED <<limit, req, emitted, savedCp, process, loop, env, history>>

\* cancel_callback, by id or by dedupe key: the row it finds, if it finds one.
CancelCallback(c) ==
    /\ pc # "down"
    /\ \E t \in Turns : turn[t] # "idle"
    /\ Withdrawable(c)
    /\ status' = [status EXCEPT ![c] = "cancelled"]
    /\ emitted' = emitted \ {c}
    /\ UNCHANGED <<limit, req, dueAt, savedCp, process, loop, env, history>>

Deploy(a) ==
    /\ pc # "down"
    /\ a \notin routed
    /\ routed' = routed \cup {a}
    /\ UNCHANGED <<store, turn, loop, env, history>>

\* undeploy removes the agent when its turns ended or its drain timed out.
Undeploy(a) ==
    /\ a \in routed
    /\ routed' = routed \ {a}
    /\ turn' = [t \in Turns |-> IF Owner[t] = a /\ turn[t] = "running"
                                THEN "orphaned" ELSE turn[t]]
    /\ UNCHANGED <<store, loop, env, history>>

Tick ==
    /\ now < MaxNow
    /\ now' = now + 1
    /\ UNCHANGED <<store, process, loop, crashes, faults, history>>

-----------------------------------------------------------------------------
(* One poll cycle *)

PollLocalsDropped ==
    todo' = {} /\ batch' = {} /\ cur' = {} /\ targets' = {} /\ failed' = {}

\* The checkpoint of the previous poll becomes delivered rows.
Reconcile ==
    /\ pc = "idle"
    /\ status' = [c \in Callbacks |-> IF c \in cp /\ status[c] = "pending"
                                      THEN "delivered" ELSE status[c]]
    /\ pc' = "list"
    /\ UNCHANGED <<limit, req, dueAt, emitted, savedCp, process, env, history,
                   cp, todo, batch, cur, targets, failed>>

ListDue ==
    /\ pc = "list"
    /\ todo' = DueCallbacks
    /\ batch' = {}
    /\ pc' = "gate"
    /\ UNCHANGED <<store, process, env, history, cp, cur, targets, failed>>

\* One can_emit_callback call; the runner goes on between two of them.
AskGate(c) ==
    /\ pc = "gate"
    /\ IsFirst(c, todo)
    /\ todo' = todo \ {c}
    /\ \/ GateOpen(c) /\ batch' = batch \cup {c}
       \/ GateShut(c) /\ batch' = batch
    /\ UNCHANGED <<store, process, env, history, pc, cp, cur, targets, failed>>

\* Mutant: the claim trusts the list read without the lock.
EligibleMutant == batch

\* The rows of the batch that mark_callbacks_emitted finds still pending.
Eligible == {c \in batch : status[c] = "pending"}

\* mark_callbacks_emitted, and the checkpoint of a poll without events.
ClaimEmission ==
    /\ pc = "gate"
    /\ todo = {}
    /\ emitted' = emitted \cup Eligible
    /\ batch' = Eligible
    /\ todo' = Eligible
    /\ failed' = {}
    /\ IF Eligible = {}
       THEN pc' = "persist" /\ cp' = {}
       ELSE pc' = "dispatch" /\ cp' = cp
    /\ UNCHANGED <<limit, req, status, dueAt, savedCp, process, env, history, cur, targets>>

\* Mutant: an event without subscriber counts as delivered.
PublishEventMutant(c) ==
    /\ pc = "dispatch"
    /\ IsFirst(c, todo)
    /\ todo' = todo \ {c}
    /\ targets' = Subscribers(c)
    /\ IF Subscribers(c) = {}
       THEN cur' = {} /\ pc' = "dispatch"
       ELSE cur' = {c} /\ pc' = "fanout"
    /\ UNCHANGED <<store, process, env, history, cp, batch, failed>>

\* Publish the next event: a snapshot of the registry decides who gets it.
PublishEvent(c) ==
    /\ pc = "dispatch"
    /\ IsFirst(c, todo)
    /\ todo' = todo \ {c}
    /\ targets' = Subscribers(c)
    /\ IF Subscribers(c) = {}
       THEN failed' = failed \cup {c} /\ cur' = {} /\ pc' = "dispatch"
       ELSE failed' = failed /\ cur' = {c} /\ pc' = "fanout"
    /\ UNCHANGED <<store, process, env, history, cp, batch>>

\* The event in hand is done once its last target has answered.
FanOutStep(a, ok) ==
    /\ pc = "fanout"
    /\ a \in targets
    /\ targets' = targets \ {a}
    /\ failed' = IF ok THEN failed ELSE failed \cup cur
    /\ IF targets' = {}
       THEN pc' = "dispatch" /\ cur' = {} /\ clean' = clean \cup (cur \ failed')
       ELSE UNCHANGED <<pc, cur, clean>>
    /\ UNCHANGED <<store, process, cp, todo, batch, now, crashes>>

AgentAccepts(a) ==
    /\ a \in routed
    /\ handed' = handed \cup cur
    /\ FanOutStep(a, TRUE)
    /\ UNCHANGED faults

\* The agent's handler answers accepted = false, or fails.
AgentRejects(a) ==
    /\ a \in routed
    /\ faults < MaxFaults
    /\ faults' = faults + 1
    /\ handed' = handed \cup cur
    /\ FanOutStep(a, FALSE)

\* The agent is draining: its runner refuses the dispatch.
DispatchRefused(a) ==
    /\ a \in routed
    /\ faults < MaxFaults
    /\ faults' = faults + 1
    /\ FanOutStep(a, FALSE)
    /\ UNCHANGED handed

\* The agent left the registry after the snapshot: the dispatch port errors.
TargetGone(a) ==
    /\ a \notin routed
    /\ FanOutStep(a, FALSE)
    /\ UNCHANGED <<faults, handed>>

\* Mutant: the cursor advances whatever happened.
SettleBatchMutant ==
    /\ pc = "dispatch"
    /\ todo = {}
    /\ cp' = batch
    /\ pc' = "persist"
    /\ UNCHANGED <<store, process, env, history, todo, batch, cur, targets, failed>>

\* The cursor advances only after a batch without failures.
SettleBatch ==
    /\ pc = "dispatch"
    /\ todo = {}
    /\ cp' = IF failed = {} THEN batch ELSE cp
    /\ pc' = "persist"
    /\ UNCHANGED <<store, process, env, history, todo, batch, cur, targets, failed>>

PersistCheckpoint ==
    /\ pc = "persist"
    /\ savedCp' = cp
    /\ pc' = "idle"
    /\ PollLocalsDropped
    /\ UNCHANGED <<limit, req, status, dueAt, emitted, cp, process, env, history>>

\* A store or provenance error: before the end of delivery the poll ends in
\* Err and nothing is persisted, after it the failed save is only logged.
StoreFails ==
    /\ \/ pc \in {"idle", "list", "persist"}
       \/ pc = "gate" /\ todo = {}
       \/ pc = "dispatch" /\ todo # {}
    /\ faults < MaxFaults
    /\ faults' = faults + 1
    /\ pc' = "idle"
    /\ PollLocalsDropped
    /\ UNCHANGED <<store, cp, process, history, now, crashes>>

PollStep ==
    \/ Reconcile \/ ListDue \/ ClaimEmission \/ SettleBatch \/ PersistCheckpoint
    \/ \E c \in Callbacks : AskGate(c) \/ PublishEvent(c)
    \/ \E a \in Agents : AgentAccepts(a) \/ TargetGone(a)

-----------------------------------------------------------------------------
(* Crash and restart of the runner *)

Crash ==
    /\ pc # "down"
    /\ crashes < MaxCrashes
    /\ crashes' = crashes + 1
    /\ pc' = "down"
    /\ turn' = [t \in Turns |-> "idle"]
    /\ routed' = {}
    /\ cp' = {}
    /\ PollLocalsDropped
    /\ UNCHANGED <<store, now, faults, history>>

\* The deployments that can be restored are, before the poll loop starts from
\* the saved checkpoint.
Restart ==
    /\ pc = "down"
    /\ pc' = "idle"
    /\ cp' = savedCp
    /\ routed' \in SUBSET Agents
    /\ UNCHANGED <<store, turn, env, history, todo, batch, cur, targets, failed>>

-----------------------------------------------------------------------------
Init ==
    /\ limit \in PollLimits
    /\ req \in [Callbacks -> Requests]
    /\ status = [c \in Callbacks |-> "absent"]
    /\ dueAt = [c \in Callbacks |-> 0]
    /\ emitted = {} /\ savedCp = {}
    /\ turn = [t \in Turns |-> "idle"]
    /\ routed = Agents
    /\ pc = "idle"
    /\ cp = {} /\ todo = {} /\ batch = {} /\ cur = {} /\ targets = {} /\ failed = {}
    /\ now = 0 /\ crashes = 0 /\ faults = 0
    /\ handed = {} /\ clean = {}

Next ==
    \/ PollStep
    \/ \E a \in Agents : AgentRejects(a) \/ DispatchRefused(a) \/ Deploy(a) \/ Undeploy(a)
    \/ \E t \in Turns : StartTurn(t) \/ EndTurn(t) \/ LoseClient(t)
    \/ \E c \in Callbacks : ScheduleCallback(c) \/ CancelCallback(c)
    \/ StoreFails \/ Tick \/ Crash \/ Restart

Spec == Init /\ [][Next]_vars

\* The poll task loops for ever, turns end, and a runner that died is started
\* again.  Failures, crashes and the clock are bounded, the rest is not fair.
FairSpec ==
    /\ Spec
    /\ WF_vars(PollStep)
    /\ WF_vars(Restart)
    /\ \A t \in Turns : WF_vars(EndTurn(t))

-----------------------------------------------------------------------------
(* Properties *)

Statuses == {"absent", "pending", "delivered", "cancelled"}
PollPhases == {"idle", "list", "gate", "dispatch", "fanout", "persist", "down"}

\* The variables have their types, and a poll's locals are in use only in the
\* phases that set them.
TypeOK ==
    /\ limit \in PollLimits
    /\ req \in [Callbacks -> Requests]
    /\ status \in [Callbacks -> Statuses]
    /\ dueAt \in [Callbacks -> Nat]
    /\ emitted \in SUBSET Callbacks
    /\ savedCp \in SUBSET Callbacks
    /\ turn \in [Turns -> {"idle", "running", "orphaned"}]
    /\ routed \in SUBSET Agents
    /\ pc \in PollPhases
    /\ cp \in SUBSET Callbacks
    /\ todo \in SUBSET Callbacks
    /\ batch \in SUBSET Callbacks
    /\ cur \in SUBSET Callbacks
    /\ targets \in SUBSET Agents
    /\ failed \in SUBSET Callbacks
    /\ now \in Nat /\ crashes \in Nat /\ faults \in Nat
    /\ handed \in SUBSET Callbacks
    /\ clean \in SUBSET Callbacks
    /\ IF pc = "fanout" THEN \E c \in Callbacks : cur = {c} ELSE cur = {}
    /\ pc \notin {"dispatch", "fanout", "persist"} => failed = {}
    /\ pc \in {"dispatch", "fanout"} => todo \cup cur \cup failed \subseteq batch

\* A cancel that reported success is final: a cancelled callback never reached
\* an agent, although the due list a poll works from is read without the lock
\* (cancel_callback against list_due_callbacks and mark_callbacks_emitted).
CancelledNeverHanded == \A c \in Callbacks : status[c] = "cancelled" => c \notin handed

\* A callback becomes `delivered` only if in some publish at least one
\* subscriber matched and every matched one accepted (the zero-subscriber and
\* failure rules of poll_and_deliver), across crashes and lost saves.
DeliveredWasAccepted == \A c \in Callbacks : status[c] = "delivered" => c \in clean

\* From its claim to the end of its dispatch a batch stays pending: no cancel
\* or reconciliation takes a row away while its event is with the agents.
ClaimedStaysPending ==
    pc \in {"dispatch", "fanout"} =>
        \A c \in batch : status[c] = "pending" /\ c \in emitted

\* Among the callbacks that can still be withdrawn a dedupe key is unique
\* within its source key (schedule_callback_with_dedupe).
DedupeUnique ==
    \A c, d \in Callbacks :
        Withdrawable(c) /\ Withdrawable(d) /\ SameDedupe(c, d) => c = d

\* Refinement mapping: a row's status as a place of the abstract queue.
Place(s) ==
    CASE s = "pending"   -> "queued"
      [] s = "cancelled" -> "withdrawn"
      [] s = "delivered" -> "settled"
      [] OTHER           -> "absent"

AtLeastOnce == INSTANCE AtLeastOnceDelivery WITH
    Items <- Callbacks,
    state <- [c \in Callbacks |-> Place(status[c])],
    handed <- handed,
    disposed <- clean

\* The callback path keeps the host's at-least-once promise.
AtLeastOnceSpec == AtLeastOnce!Spec

Quiet == routed = Agents /\ turn = [t \in Turns |-> "idle"]

\* Once deployments and turns have come to rest, every due callback leaves the
\* queue, whatever crashed or failed before (the poll loop with its retries).
DueEventuallySettled ==
    <>[]Quiet =>
        \A c \in Callbacks : Due(c) ~> status[c] \in {"delivered", "cancelled"}
=============================================================================
