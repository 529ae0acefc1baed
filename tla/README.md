# Verification of the Agentium OS runtime

TLA+ models of the parts of the Agentium OS runner that keep state across
awaits, failures and restarts, the TLC runs that check them on small instances
and TLAPS proofs of what matters most for every instance. Paths are relative to
the repository; `crates/` is `src/crates/` here.

## 1. The system

A *runner* (`crates/baml-agent-runner`) hosts agents: packages of JavaScript and
BAML functions that run in QuickJS (`crates/baml-rt-quickjs`). Agents receive
A2A requests and streams (`crates/baml-rt-a2a`), publish and receive *events*
(`crates/baml-rt-core`), use tools (`crates/baml-rt-tools`, MCP, sandboxes) and
leave a provenance graph (`crates/baml-rt-provenance`). An HTTP API
(`crates/baml-rt-api`) deploys and undeploys them. Several runners form a cluster
through tables of a shared database (`crates/baml-agent-runner/src/cluster.rs`)
and forward requests to one another.

| Component | State it keeps | Operations | Interacts with | What is hard |
|---|---|---|---|---|
| Scheduled callbacks (`deployment_state.rs`, `callback_producer.rs`, `callback_delivery.rs`, the `system/callback` tool) | rows with status, due time, dedupe key, emission time | schedule, cancel, list due, claim, mark delivered | the gate asks the registry for the scheduling turn; events go through the dispatcher | a cancel against a poll that has already listed the row; a crash between hand-over and checkpoint |
| Durable ingress inbox (`deployment_state.rs`, `slack/src/producer.rs`, `grafana-alerts/src/producer.rs`, `external_datasource.rs`) | items: pending, emitted, delivered | enqueue, requeue stale, claim, confirm | webhooks and the Slack socket write, one producer per kind drains, all share the table | one producer requeues what another has delivered; malformed items |
| Event dispatch and publish (`event_dispatcher.rs`, `event_delivery.rs`) | in-memory checkpoint per producer; the saved ones | poll, fan out, advance, persist | all producers and all subscribed agents | one failure in a batch; lost saves; an agent that leaves between snapshot and dispatch |
| Deployment lifecycle (`runner.rs`, `lib.rs`, `deployment_restore.rs`) | routing maps, drain marks, deployment records | deploy, undeploy, drain, restore | HTTP handlers, artifact repository, cluster tables, provenance | two calls at a time, a failure or crash between two of the six writes |
| Cluster registry (`cluster.rs`) | runner rows with heartbeat, placements | register, heartbeat, sweep, resolve, record, remove | every runner of the cluster | a live runner swept by a peer; stale placements |
| Routing and forwarding (`routing.rs`, `baml-rt-router`) | none of its own | resolve, forward | registry, peers | two runners that hold different views |
| Cluster-wide deploy, migrate (`cluster_deploy.rs`, `handlers.rs` of `baml-rt-api`) | none of its own | deploy on peers, undeploy here | deployment lifecycle of several runners | one half fails, dies or answers too late |
| Live stream sessions and collector (`a2a_transport.rs`, `live_stream.rs`, `stream_collector.rs`, `a2a_stream.rs`, `quickjs_bridge/stream.rs`) | session map, in-flight flag, suspended collector, bridge lock and permits | message, resume, drain, finalize, time out | client streams, QuickJS, task store | a message to a session that is ending; the idle timeout of a suspended turn; streams that wait for each other at the limit |
| Tool sessions (`tool_sessions.rs`, `tool_fsm.rs`) | open sessions and their phase | open, send, next, finish, abort | the invocation's turn | abort against a late answer |
| Task store and updates (`task_subgraph_store.rs`, `task_update_broadcaster.rs`, `task_update_session.rs`, `task_graph_reader_impl.rs`) | states and artifacts in the graph, a broadcast channel per task, a cursor per subscriber | gate, commit, broadcast, retire, subscribe, replay, follow | collector, live session, tool events, HTTP API | three writers of one task; a subscriber that joins, lags or ends while they write |
| Sandboxed tools, MCP client | connections | call, cancel | external processes | a guest that dies in a call |
| Package repository, provenance graph | append-only tables | insert, query | everybody | a failed write |
| Builder, macros, CLI, web client, agents | files | generate, build | — | data transformation only |

What makes each component correct:

* **callbacks** - a cancel that said yes is final; a row is marked delivered only
  if somebody subscribed and everybody accepted; dedupe keys are unique; nothing
  is emitted into the turn that scheduled it; due callbacks are not starved;
* **inbox** - an item leaves only when its delivery was concluded; a confirmed
  item is not dispatched again; every well-formed item leaves in the end;
* **dispatch** - the cursor moves only past a clean batch;
* **deployment** - no revision overwrites another; what is stopped is not
  routed; routing, records and placements agree between calls and after a
  restart; calls return and the runner starts;
* **cluster** - a request reaches a runner that hosts the agent, or is answered
  otherwise; a migration does not lose the agent; killed runners are no longer
  routed to, and live ones are visible;
* **live streams** - an accepted turn's stream ends; a session is idle only when
  it can take the next message; an idle timeout means the agent was idle;
* **task updates** - a terminal state is final and ends every subscription; a
  subscriber sees updates in order, each once, and misses none;
* **tool sessions** - phases only move forward.

The hazards of this code, each at its line with the properties that would catch
it going wrong, are in `PROJECT.json`.

## 2. The modules

| Module | Models |
|---|---|
| `AtLeastOnceDelivery` | abstract: what the host promises of a durable item |
| `CallbackDelivery` | scheduled callbacks, from the tool call to the `delivered` row |
| `IngressInbox` | the durable inbox and its producers |
| `DeploymentLifecycle` | deploy, undeploy, drain, restore of one runner |
| `LiveStreamSession` | message.sendStream: handler, session task, collector, bridge |
| `TaskUpdates` | the states and artifacts of a task, from the chunk to the subscriber |
| `ClusterPlacement` | an agent on a cluster: registry, deploys, migrations, crashes, requests |
| `*Proofs` | the theorems about the module of that name |
| `MC*` | small instances for TLC |

### CallbackDelivery

State: the columns of `scheduled_callbacks` (`req`, `status`, `dueAt`,
`emitted`), the saved checkpoint (`savedCp`), the registry (`routed`), the
in-flight state of turns (`turn`) and the locals of the one poll task (`pc`, `cp`,
`todo`, `batch`, `cur`, `targets`, `failed`). A poll cycle is cut at its awaits:

    Reconcile -> ListDue -> AskGate* -> ClaimEmission
              -> (PublishEvent -> fan-out steps)* -> SettleBatch -> PersistCheckpoint

`Reconcile` is `mark_callbacks_delivered` of the checkpoint, `ListDue` is
`list_due_callbacks` (no lock, ordered, limited), `AskGate` one call of the
delivery gate, `ClaimEmission` is `mark_callbacks_emitted` (under the lock, only
rows still pending). `PublishEvent` takes the snapshot of matching subscribers;
the fan-out step of one agent is acceptance (`AgentAccepts`), rejection
(`AgentRejects`), refusal by a draining agent (`DispatchRefused`) or an agent
that left the registry (`TargetGone`). `StoreFails` ends a poll in `Err`, or, at
the end, is the save that is only logged. Between any two of these run
`ScheduleCallback`, `CancelCallback`, turns, deployments, the clock and `Crash`.
A turn of an undeployed agent, or one that lost its client (`LoseClient`), is
`orphaned`: it goes on, but the gate, which looks through the registry and its
session map, no longer finds it there. It still sees one of a routed agent while a
tool session of it is open (`GateShut`), which the model leaves to chance.

History variables: `handed` (an agent was called with it), `clean` (some publish
matched a subscriber and all accepted). `limit` and `req` are chosen in Init: `limit` is
the constant `MAX_CALLBACKS_PER_POLL`, for which several values are looked at; which request an id will
stand for is fixed by the caller, and the row exists only once it is scheduled.
The normalisation of keys, the payload and the dispatch scope are abstracted.

### IngressInbox

State: the table (`status`, `enqueuedAt`, `stale`), saved and in-memory
checkpoints per producer, and the locals of the poll of producer `p`. The
producers are polled one after the other, `Reconcile`, `RequeueStale`,
`ClaimPending`, conversion, dispatch, `SettleBatch`; the checkpoints of those with
outcome Ok are saved at the end of the cycle. `RequeueStale` touches items of all
kinds, as the SQL does. A malformed item fails the whole poll of a `Strict`
producer (Slack) and is dropped as delivered by the others. The fan-out of
an event is one step with three outcomes (`Accepted`, `Unmatched`,
`DispatchFails`), since its inner steps are those of `CallbackDelivery`. The
retry timeout is `TimeOut(i)`: it may pass at any time after the claim.

### DeploymentLifecycle

A call of the API is a process with one step per lock section or await:

    deploy:   Deploy Fetch [find drain remove unplace unrecord stop] Boot Insert
              SaveDeployment RecordPlacement
    undeploy: Undeploy Find Drained|DrainTimeout Remove RemovePlacement
              RemoveDeployment Stop

Each has its failure: an error answer, a rollback (`SaveDeploymentFails`), or a
logged warning. `slot[p]` is the boot number of the agent under package `p`, so
that two boots of one hash are told apart; `hash[p]` is its content hash. `Unroute`
removes by *name*, as the code does, whoever is under it by then. Requests are
`Admit` (the drain state is read), `Begin` (counted in flight, if a stream) and
`Finish`. After a `Crash`, `Restart` deletes superseded records
(`dedupe_deployments_for_restore`) and the restore loop deploys the rest before
the runner is up. With one element in `Calls` the model is an operator who
waits for each answer; with two, nothing orders them, as in the HTTP handlers.
While the runner is down `slot` and `hash` are history: they keep the agents whose
deploy had come as far as to save its record, the ones a restart owes something to.

### LiveStreamSession

Three kinds of process share the session map and the bridge. The *handler* of a
message claims the session of the message's key, or of its context, if it is not
in flight (`Attach`), is turned away if it is (`Refuse`), or registers a new one
(`Open`); the turn is sent after the lock is released (`Send`). The *session task*
(`task`) takes a turn (`Dequeue`), starts a run or resumes the suspended one, and
drains the channel into the response stream:

    recv -> start | resume -> drain -> suspend -> recv      (INPUT_REQUIRED)
                                   \-> closing -> over      (any other end)

`Suspend` clears `in_flight` while the response stream is still open, and
`Break` drops the channels before `Remove` takes the session out of the map: the
two windows in which the next message may come. The *run* with its collector
(`run`) takes the bridge's lock (`TakeBridge`), awaits a permit under it
(`StartRun`), yields, times out, waits for input, and is finalized:

    setup -> permit -> collect <-> input -> deliver -> collect ... -> finalize -> done

A session is named by the turn that opened it; `Key` and `ContextKey` stand for
the task and context ids of a request after stale task ids were stripped.
`out[s]` says which kinds of output wait in the channel, the order within a kind
being immaterial. A collector whose listener is gone notices it only when a send
fails, and the relay's buffer may take one more: `YieldChunk` may do either.
`idle` is the age of `last_yield_at`.
Errors (`MaxFaults`) may hit the start of the request, the persistence of a
resumed message, the setup before and after the permit, the drain, the delivery
of the input and the normalisation of a chunk.

### TaskUpdates

One task. A *chunk* of the agent's stream is the sequence of updates (states,
artifacts, messages) that `apply_task_chunk` makes of its fields. Three *writers*
record updates and nothing orders them: the collector (through the deduplicator,
with the injected SUBMITTED first), the drain of the live session, which applies
what the collector forwards once more, and the subscriber of the effect bus that
reports WORKING when a tool starts. Each update goes

    apply -> (Refuse | Mint -> Commit | CommitFails) -> Send -> [Retire]

`Mint` reads the head and takes the cursor; `Commit` writes the state node and the
head pointer in one transaction; `Send` finds or makes the task's channel and
`Retire` removes it after a terminal state. A channel is a log of frames; it is
closed when neither the map nor a writer holds its sender. A *subscriber* reads
the task (`GetTask`), joins the channel (`Subscribe`), replays the graph in the
three queries of `replay_since`, and follows the channel with `pos`, falling back
to a replay when it is more than `Capacity` behind. The duplicate test of the
deduplicator is by hash: a chunk of the same shape may or may not be taken for a
duplicate. `TaskRepository::cancel` has no caller and is not an action.

On the live route the client may be lost at any time (`gone`): the drain then stops at
the chunk it could not pass on, and drops the ones that were on their way to it; the
collector stops at the next chunk of the agent that nobody takes. The consumer of the
internal route is assumed to stay.

### ClusterPlacement

One agent package, several runners. The registry is `beat` (age of the row's
`last_heartbeat_ms` in intervals, or no row), the placements and their order; a
runner keeps `record` across a crash. A deploy is a job in one of the slots `Jobs`, cut
at its awaits (check, boot, save, place), an undeploy is cut likewise (find, drain, unplace,
remove), and both tell the caller that still waits: a client, the restore loop, a migration
or a cluster-wide deploy. A call whose caller timed out or died goes on without one
(`by = "none"`). `deploy_by_hash` takes no lock: any number of deploys go on beside each
other, on one runner too. The check answers `already_deployed` as soon as another deploy has
inserted the agent (`AlreadyDeployed`), and when that other deploy cannot save it, it takes
the agent off again (`SaveFails`; the history variable `rolledback` says where). A runner has
one undeploy and one migration at a time, and the cluster one cluster-wide deploy: concurrent
undeploys are `DeploymentLifecycle`'s subject, whose calls, restore and drain this
module abstracts.

    migration:  PostMigrate -> MigrateDeploy -> wait -> MigrateUndeploy -> undeploying -> migrated
    request:    Arrive -> Lookup -> Resolve -> Forward -> Lookup ...
    start:      Restart (sweep, register) -> restore -> Ready (heartbeats begin)

`Tick` is one heartbeat interval: every runner that is up has one heartbeat to send
before the next, which may fail. Two placements never have equal timestamps.

### AtLeastOnceDelivery and the refinements

An item is submitted, may be withdrawn before anybody has it, is handed over any
number of times while queued, and is settled only after its delivery was
concluded. `CallbackDelivery` maps `pending/cancelled/delivered` to
`queued/withdrawn/settled` and its clean publishes to `disposed`; `IngressInbox`
maps both `pending` and `emitted` to `queued`. Both checked by TLC and proved.

## 3. The runs

| Run | Instance | Shows |
|---|---|---|
| `callback` | 2 callbacks, keyed or plain, 2 agents, poll limit 1 or 2, 1 turn, clock 0..1, 1 crash, 1 fault | cancel is final, delivery is earned, a claim holds, dedupe, the refinement; every due callback is settled once turns and deployments rest |
| `ingress` | 2 producers, 3 items, the Slack item and one Grafana item malformed, 1 crash, 1 fault | concluded before delivered, no re-dispatch of confirmed items, claim, refinement; the items of the producer that is not poisoned all leave |
| `deployment_serial` | 1 call, 2 hashes of 1 package, 3 deploys, a stream that may never end, 1 crash, 1 fault, clock 0..1 | records, routes and placements agree; the restore keeps what was routed; calls return, the runner starts |
| `deployment_concurrent` | 2 calls, 2 hashes of 1 package, 3 deploys, 1 crash, 1 fault | no overwrite; stopped is not routed |
| `deployment_race`, `deployment_drain` (violations) | smallest that show it | findings 1 and 2 |
| `live` | 2 messages, a context and a task in it, 2 permits, 2 yields, 1 fault | sessions are exclusive and kept; suspended runs wait; idle sessions resume; streams and runs end |
| `live_limit` (violation) | 2 messages, 1 permit | finding 3 |
| `task_updates` | 2 applied chunks of 3 kinds, 1 subscriber, a ring of 1 frame, 1 incident (live drain, tool start or failure) | order, no lost status, complete ends, terminal states are final and end subscriptions, the doubled live stream settles |
| `task_gap` (violation) | the same without incidents | finding 4 |
| `cluster` | 2 runners, the agent on one, 1 request, TTL 2 intervals, 3 jobs, any 2 calls, crashes or failures | migrations keep the agent and cluster deploys report what is there, but for a deploy that is rolled back under them; requests end, and are served on a quiet cluster; sweeps spare the fresh; restarts restore |
| `cluster_sweep` (violation) | the same without requests | finding 5 |

The type invariants are proved for every instance (section 4) and not evaluated by the runs.

**Bounds.** `MaxCrashes`, `MaxFaults`, `MaxNow`/`MaxClock` and `MaxDeploys` cap what
would be unbounded; each is in a guard. Two callbacks are the fewest that share
a dedupe key, a batch (poll limit 2), or a due list longer than the limit (poll
limit 1); two subscribers
allow one to accept and one to refuse; two producers are needed for a foreign
requeue; two revisions of a package for superseding and three deploys for
deploy, supersede and deploy again. One crash and one fault reach every recovery
path alone, and a fault followed by a crash. That more of them only repeat paths is
not assumed: the theorems below have no such bound. Two messages of one context are
one that is suspended and one that resumes it, or comes too early or too late
(three were checked too while the invariant was found); `MaxYields` of two lets a run be
suspended twice, or yield and fall silent. An agent that yields for ever keeps
its stream open for ever and is outside `StreamsEnd`. In `TaskUpdates`, `MaxChunks`
bounds the chunks that are applied: two of the agent's on the internal route, one
applied twice on the live route. Two chunks of up to two updates, with SUBMITTED before
them, overrun a ring of one frame and reach every lag; one of the kinds is terminal
without ending the agent's stream (CANCELED), so that updates after a terminal
state happen. `MaxEvents` bounds the calls, crashes and failures of
`ClusterPlacement` together: two are a migration and one failure of any of its
steps or one deploy beside it, two crashes, or a crash and a slow restart. The rollback
under a migration or a cluster-wide deploy takes three, and is what the two properties leave out; the
theorems have no such bound. `Jobs` has as many slots as these events can have deploys in
progress (a cluster-wide deploy starts one on each of the two runners), so no deploy waits for a slot. Two runners
suffice for every role, since a third is one more source or target. A TTL of two intervals is
the smallest that a runner can hold by its heartbeat. Deadlock is checked except
in `task_updates` and `task_gap`: a task that is over stops.

**Fairness.** `FairSpec` of the two delivery modules: the poll task is a loop with
an interval timer (`lib.rs`), so its steps are weakly fair; a turn ends
because a stream has an idle timeout; a dead runner is started by its
supervisor, and an emitted item's timeout passes because time does. Nothing is
assumed of cancels, deployments or the fan-out's outcome: the liveness of
callbacks is conditional on `<>[]Quiet`, and faults are finite because each is
counted. In `DeploymentLifecycle` each call's thread is weakly fair and so is the
start; requests are *not* fair, so that `CallsReturn` rests on the drain's
30 s timeout. In `LiveStreamSession` spawned handlers, session tasks and collectors
are weakly fair, and time passes; nothing is assumed of clients and agents, so
`StreamsEnd` rests on the idle time-out. Tokio's mutex and semaphore are fair
queues, and the finitely many turns leave the lock free again and again, so weak
fairness of the steps that need it is enough. In `TaskUpdates` the writers and the
subscriber's task are weakly fair, the agent, tools and clients are not. In
`ClusterPlacement` time passes, the heartbeats of each runner are weakly fair, and so is `Work`, the
steps of all calls and requests together, which is less than fairness of each task and
enough, since there are finitely many such steps; nothing makes a client call or a runner that is down
start again, so `RestartRestores` and `UpIsListed` begin where a start has begun.

**Findings.** Places where the code does other than a comment or document says,
each with the run that shows it:

1. An undeploy and a deploy of the same hash at the same time leave the agent
   routed without a record.
2. A request is admitted before it is counted in flight; a drain in between
   finishes under it.
3. A stream waits for its permit with the bridge's lock held; permits are
   returned, and time-outs noticed, under that lock. One stream more than
   `stream_concurrency` (suspended ones count) stops all streams of the agent.
4. A replay is three queries. An artifact committed after the artifact query and
   followed by a status before the status query is not in the replay, and its live
   frame is skipped, since the status moved the cursor past it. Statuses are read
   last, so no status is lost this way (`StatusesKept`).
5. A runner that restores for longer than the TTL can be swept by a peer that starts
   meanwhile; its heartbeats then update no row, succeed, and it stays unlisted.

More that a caller should know, seen while modelling and part of the models unless
marked (*), but not runs of their own.

*Delivery and deployment*

* a failed save of a checkpoint is only logged while the in-memory one has
  moved, so the next poll may mark rows delivered from a checkpoint that was
  never persisted; the refinement shows that nothing undelivered is lost by it;
* an inbox event that matches no subscriber, for example during a redeploy, is
  confirmed (`Unmatched`): "concluded" in `DeliveredWasConcluded` includes it;
* a crash between the deletion of the record and `AgentStopped` (`runner.rs:1084`)
  leaves neither the event nor a re-deploy, other than the comment there says;
* a turn that lost its client, or whose agent was undeployed when the drain timed out, goes on
  and is seen by the delivery gate only while a tool session of it is open. In between,
  the callback it scheduled is emitted beside it, other than `callback_delivery.rs:5` ("gates
  emission until the scheduling A2A turn quiesces") and `a2a_transport.rs:613-615` ("until the
  originating turn has actually quiesced") say. The model has this step (`AskGate` of an
  orphaned turn); no property says that emission waits for the turn.

*Live streams*

* a client that disconnects takes the session out of the map while the run goes
  on (`LoseClient`, `RunsEnd`): until its collector notices, the drain sees it only if
  it has a tool session open (so does the callback gate, see above), and the key's
  next message starts a second run beside it;
* a start that fails in `run_eval_with_scope` leaves its session, and the permit it
  owns, in the bridge's map (`EvalFails`), other than the doc comment at
  `quickjs_bridge/stream.rs:298` says;
* `last_yield_at` is not set on the yield that asks for input (`a2a_stream.rs:972`),
  so a resumed run can be timed out at once.

*Task updates*

* a subscriber that reads the task before it ends and joins the channel after it was
  retired gets a fresh channel nobody closes: it sees the terminal state and waits on;
* the live drain stores every chunk again, without deduplication: artifacts are
  recorded twice, and since reading the head and committing the next state are two awaits, a
  stale status that passed the drain's gate earlier can overwrite the COMPLETED the collector wrote
  meanwhile, although `a2a_store.rs:114-115` promises one critical section for a chunk. The
  drain's copy of the last chunk repairs it (`DrainSettles`), unless the drain loses its client before
  that and drops it: then the task stays in the stale state;
* an automatic WORKING of a tool start that passed the gate earlier can overwrite a terminal
  head in the same way, and nothing repairs it (`DrainSettles` leaves tool starts out);
* artifacts of the chunk that completes a task are sent on a new channel after the
  old one was retired; followers do not see them live;
* a replay that fails after a lag ends the subscription like one that is complete.

*Cluster*

* a migration to the runner itself, or two that cross, takes the agent off the cluster
  and reports `migrated: true`; `MigrationKeepsAgent` excludes both;
* a deploy is told `already_deployed` of an agent that another deploy of the same hash has inserted
  and not saved yet (`runner.rs:865-872`). When that save fails the agent is removed
  (`runner.rs:976-980`), and the first caller (a client, a cluster-wide deploy that reports success,
  a migration that goes on to undeploy the source) was told otherwise, although
  `deployment.rs:89` says "Ensure the artifact identified by `content_hash` is active".
  `MigrationKeepsAgent` and `ClusterDeployCovers` leave out exactly the runners where a deploy was
  rolled back, and say that nothing else breaks them;
* a migration deploys on the target first and drains the source after that, so both take requests
  for a time; the doc comment of `post_migrate` (`handlers.rs:459-460`) says the reverse. The order
  is what `MigrationKeepsAgent` rests on;
* `already_deployed` is also the answer while the agent drains, and when its
  placement could not be recorded: a retry does not repair the placement;
* a request that comes to a runner whose own placement is the newest, while the agent
  is not routed there, is answered NotFound although another runner may have the agent;
* (*) `PLACEMENT_TTL_MS` is not checked against the heartbeat interval; with a TTL of one
  interval or less a healthy runner is excluded between two heartbeats;
* (*) the internal route of agents (`route_from`) does not look at the drain state.

## 4. The proofs

Assumptions are the named `ASSUME`s of the modules: sets are typed, limits are
positive, `Owner`, `Kind` and `Pkg` are functions. No theorem bounds the number of
callbacks, items, agents, producers, hashes, calls, requests, runners, deploys at a
time, crashes or faults.

**CallbackDeliveryProofs.** `TypeCorrect`, `CancelIsFinal`, `DeliveryIsEarned`, `ClaimHolds`,
`DedupeHolds`, `CallbacksAtLeastOnce`. None of
the safety invariants is inductive alone. `IInv` adds: what was handed over is
emitted and an emitted row is never cancelled (so a cancel, which asks for
`emitted_at = NONE`, cannot hit a row an agent has seen); everything in a
checkpoint, saved or not, is `clean`, and so is each event of the batch that is
neither waiting, in hand, nor failed (so a crash at any point leaves a
checkpoint that may be reconciled).

**IngressInboxProofs.** `TypeCorrect`, `NothingIsLost`, `ClaimHolds`, `NoRedispatch`,
`InboxAtLeastOnce`. The invariant has four parts: claimed rows are `emitted`; what
checkpoints name is concluded; a producer's checkpoint and batch hold only items
of its kind; and from its reconciliation to the end of its poll everything in
`p`'s checkpoint is `delivered`. The last two are what makes the foreign requeue
harmless: another producer may put an item back to `pending`, but the only
producer that lists it confirms it first.

**DeploymentLifecycleProofs.** `TypeCorrect`, `StopIsFinal`, `NoOverwrite` for any
number of concurrent calls; `RecordsBackRoutes`, `RestoreIsFaithful`,
`RecordsAreRouted` and `PlacementsAreRoutes` for `Calls` with one element, an operator
who waits for each answer (finding 1 is two calls, and the first of these fails).
`StopIsFinal` needs that boot numbers are fresh and that the victim of a call past
its removal is in no slot (removal is by name, so this is not obvious: the
name may hold a younger agent, which then is taken out in its stead).
`RecordsBackRoutes` needs the serial invariant: a routed agent has an active
record or its own call is about to save it.

`RestoreIsFaithful` holds whatever has failed before. A failed removal leaves the
records of superseded revisions behind as active, any number of them, and the restart picks
the one with the latest date. `DateInv` says that this is the routed one: no record is
dated ahead of the clock, a deploy about to save has a stamp no older than any record,
and of a package's active records that of its routed agent is the latest. The
attempt to prove it with any number of failures refuted an earlier form of the property,
which the run with one fault had passed: after two failed removals of records, an older revision that
is deployed again is routed before its record is saved again, and a crash in between
restores the newer revision. That deploy was never answered, so the restore
owes it nothing; the history kept over a crash now excludes it.

`RecordsAreRouted` and `PlacementsAreRoutes` are about a runner on which crashes happen
but no write fails. `CleanInv` follows the records through the calls: a package has at most
one active record; an active record is routed, waits to be restored, or is in the
hands of the call that will route or delete it (`Underway`); a placement stands for an
active record, and a routed agent has its placement or a call about to write it.

**LiveStreamSessionProofs.** `TypeCorrect`, `SessionsAreKept`, `SessionsAreExclusive`,
`SuspendedRunsWait`, `IdleSessionsResume`, for any number of messages and keys and
any limit. The four invariants need each other: a session that is not in
flight is suspended, therefore its task is at `recv` or on its way there, so a
message that claims it finds it alive; a turn that has a session keeps
`in_flight` set, so nobody else claims it; and a session that is torn down is in
flight until it has left the map (`ClosingInv`). `TaskInv` (one running turn per task),
`KeyInv` (a session is under its own key) and `RunInv` (the terminal of a
suspended run is taken before the run can be resumed) make this inductive. From
`SessionsAreKept` it follows that the handler's "closed before input injection"
and the session's "live session missing" branches are never taken.

**TaskUpdatesProofs.** `TypeCorrect`, `DeliveryIsOrdered`, `TerminalStays`,
`NoStatusIsSkipped`, `SubscriptionsEndComplete` and `DrainLeavesTerminal`, for any
chunks, subscribers, capacity and, unless said otherwise, failures. Order needs that what was delivered to a
subscriber is at or below its `last` cursor, that what its replay found and did not
deliver yet is above it (`DeliveryInv`), and that no two committed updates have the
same cursor (`CursorInv`); with that, whatever a channel holds in whatever order, the
filter of `Recv` keeps the order. `TerminalStays` needs that without drain and tools the
other two writers are idle, so that the head a writer read at `Mint` is the head it
replaces at `Commit`.

`NoStatusIsSkipped` and `SubscriptionsEndComplete` are about one writer (`Serial`) and any
number of subscribers that join, lag, replay and end at any time (`OneWriterInv`). A single
writer commits in the order of its cursors (`PendingInv`), so every channel carries frames of
the graph in that order (`LogInv`). A status of the graph is, for a subscriber past the last
query of its replay, at or below its cursor, among what the replay found, or still ahead of it
on its channel, the update between commit and send included (`CoverInv`); for that it
must be on the channel the writer will send on, which holds until the terminal state was
sent (`AttachInv`), and it must not have run ahead of what is committed (`LastInv`,
`PosInv`). What the replay found is closed downwards, which is why delivering a found frame skips
no status although artifacts and messages come from older queries. `EndInv` adds why a
subscription ends: the task was terminal when it was read, so nothing was added since, or
its channel was closed, so the terminal frame was the last one on it.

`DrainLeavesTerminal` is about two writers that apply the same stream, with no order between
them. `SettleInv` finds the one that matters: the writer that stores the chunk that ends the
stream while no other is at work (`Sole`: on the live route the drain, once it is the
only chunk left, elsewhere the collector). That writer is `Settling`: the task
is terminal, or an update that makes it so is among those it has not committed; a gate that
refuses such an update has seen a terminal state, and the gate's answer cannot be outdated at the commit
because nobody else writes. The other writer may still overwrite a terminal head before
that, and does. It needs `TodoInv`, by which the deduplicator cannot swallow the final
chunk (no final chunk was marked before), and `SubmitInv`, by which nothing but SUBMITTED
reaches a task without a state. A tool start, a failed write and a drain that stopped because its client was
lost are excluded by the property: the first may overwrite the terminal state afterwards, the second
may lose it, and the third may leave an overwritten one behind.

**ClusterPlacementProofs.** `TypeCorrect`, `MigrationIsSafe`, `SweepIsSafe` and
`ClusterDeployIsSound`, for any number of runners and requests and any TTL, and
`QuietClusterIsRouted` for a TTL of more than one heartbeat interval. `MigrationIsSafe` rests on two invariants. `CallInv`
says who waits for whom: a deploy that has a migration for its caller is on that migration's
target, is the only one, and the migration still waits; an undeploy belongs to a migration past
its deploy or to a client. `ServeInv` says what holds while nothing was undeployed, nothing
crashed and no deploy on a target was rolled back (`Undisturbed`): on every runner either nothing
undeploys the agent (`Settled`: only the deploy that inserted it may take it off again, and then it
has not saved it and is the only one past its insertion), or the target of its migration has it
(`Served`: running, and recorded or about to be). The target keeps it, since the one migration
there is has another source. `Settled` is what makes deploys beside each other harmless on the
runners a migration leaves alone: an agent with a record is not rolled back, because the maps are
re-checked before the insertion, so at most one deploy is between insertion and save.

`ClusterDeployIsSound` uses the same invariants: the answer a cluster-wide deploy counts for a
runner comes from a deploy on that runner, its own or by `already_deployed` another's, at a point
where the agent is running and its record written or being written; an answer after
the time-out has no caller any more. What was counted stays while nothing is undeployed,
migrated or killed, unless the other deploy is rolled back.

`QuietClusterIsRouted` assumes `Ttl > 1`. The default is 90 s for heartbeats every 5 s;
`PLACEMENT_TTL_MS` is not checked, and with a TTL of one interval the property is false,
for a row is that old just before its next heartbeat. `QuietInv` says that every row is fresh or
its heartbeat is due in this interval, that placements, records and routed agents are the
same set, and where a request can be: one that is resolved came to a runner without the agent, one
that is forwarded goes to a runner with it. That `resolve` always finds a newest placement
(`NewestExists`) is a fact about finite orders, from the well-foundedness of the strict
subset relation on finite sets.

Every safety invariant and every action property that a passing run checks is a theorem,
and both refinements are. Only model-checked: `DueEventuallySettled`,
`EnqueuedEventuallyDelivered`, `CallsReturn`, `StartCompletes`, `StreamsEnd`, `RunsEnd`,
`TerminalEndsStream`, `RequestsEnd`, `RestartRestores` (liveness and
`ENABLED` are beyond the prover, and so is induction over data). The five violations are
counterexamples of TLC.

## 5. Plan

Done: callbacks, inbox, deployment, live streams, task updates, the cluster. Next:

1. Theorems: the serial results of `DeploymentLifecycle` for concurrent calls of different
   packages; what is left of `StatusesKept` when a tool starts beside the collector.
2. **ToolSession** - the session state machine and what a turn leaves open.
3. A composition of `LiveStreamSession` with the drain of `DeploymentLifecycle` and
   the gate of `CallbackDelivery`, which now abstract it by `Begin`/`Finish` and
   `StartTurn`/`EndTurn`/`LoseClient`; and chunks told apart, to state which of a
   batch are dropped after INPUT_REQUIRED.
4. Sandbox protocol framing with a guest that dies.

## 6. Not modelled

Artifact contents, the JavaScript runtime and LLM calls (one step that succeeds
or fails); the wire formats, authentication and reconnection of Slack and
webhooks; SQL and transactions (a statement is one atomic step, a transaction
under the lock too); the provenance graph beyond "a write may fail"; repository
search; code generation, CLI, web client and manifests. These are I/O or data
transformation without a protocol of their own.

They are also most of the repository: of its 209,000 lines of implementation the
largest parts are the provenance normalizer, queries and graph export, the package
builder and its generated bindings, tool adapters (Slack, Grafana, memory, MCP), the
registration of BAML functions and the front ends. They compute an output from an
input, hold no state across an await and have no failure to recover from, so there is
no state machine to write that would not be a transliteration. The models cover the
parts that do: what is left of that kind is the tool session and the sandbox protocol,
named in the plan.
