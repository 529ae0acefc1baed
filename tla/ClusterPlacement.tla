-------------------------- MODULE ClusterPlacement --------------------------
(***************************************************************************)
(* One agent package on a cluster of runners that share a registry: the    *)
(* rows of live runners and of placements (cluster.rs), the deploys,       *)
(* undeploys, migrations and cluster-wide deploys that move the agent      *)
(* (runner.rs, handlers.rs, cluster_deploy.rs), the start of a runner      *)
(* (lib.rs), and the requests that are routed by what the registry says    *)
(* (runner.rs, routing.rs, forward.rs).                                    *)
(*                                                                         *)
(* Any number of deploys go on beside each other, on one runner too.  A    *)
(* runner has at most one undeploy and one outgoing migration at a time:   *)
(* what two of them do to each other is DeploymentLifecycle's subject.     *)
(* Equal timestamps of two placements are not modelled.                    *)
(***************************************************************************)
EXTENDS Integers, FiniteSets

CONSTANTS
    Runners,      \* pods: their runner_id is derived, so it survives a restart
    Requests,     \* A2A requests for the agent
    Jobs,         \* slots of deploys in progress: as many may go on at a time
    Deployed,     \* the runners that have the agent at first
    Ttl,          \* placement_ttl_ms, in heartbeat intervals
    MaxEvents     \* bound on client calls other than requests, crashes and failures

NoRow == -1

ASSUME RunnersAssumption ==
    IsFiniteSet(Runners) /\ Runners \cap {"client", "restore", "fan", "none", "self"} = {}
ASSUME DeployedAssumption == Deployed \subseteq Runners
ASSUME TtlAssumption == Ttl \in Nat \ {0}
ASSUME BoundAssumption == MaxEvents \in Nat

VARIABLES
    \* --- the registry, and what a runner keeps on disk
    beat,     \* age of last_heartbeat_ms, or NoRow
    placed,   \* runners with an active placement of the agent
    newer,    \* the order of their updated_at_ms
    record,   \* runners with a deployment record, of either status
    \* --- runners
    life,     \* "down", "restoring" or "up"
    due,      \* runners with a heartbeat to send in this interval
    hosted,   \* the agent's route: "no", "running" or "draining"
    rolledback, \* where a deploy that could not be saved has removed it
    job, on, by, \* step of a deploy in progress, its runner, and who waits for its result
    und, uby, \* step of the undeploy in progress, and who waits for its result
    mig, to,  \* step of the outgoing migration, and its target
    \* --- POST /cluster/deploy
    coord,    \* the runner that serves it
    listed,   \* the runners it was sent to
    fan,      \* those that have not answered
    fanok,    \* whether all others succeeded
    \* --- requests
    rpc, at,  \* next step, and the runner that has the request or gets it next
    via,      \* runners that wait for it
    \* --- environment
    calls, undeploys, migrations, crashes, faults

placements == <<placed, newer>>
registry == <<beat, placements, record>>
process == <<life, due>>
jobs == <<job, on, by>>
deploys == <<hosted, rolledback, jobs>>
undeploying == <<und, uby>>
migrating == <<mig, to>>
fanout == <<coord, listed, fan, fanok>>
requests == <<rpc, at, via>>
env == <<calls, undeploys, migrations, crashes, faults>>
vars == <<registry, process, deploys, undeploying, migrating, fanout, requests, env>>

Bounded == calls + crashes + faults < MaxEvents

Call ==
    /\ Bounded
    /\ calls' = calls + 1
    /\ UNCHANGED <<crashes, faults>>

Fault ==
    /\ Bounded
    /\ faults' = faults + 1
    /\ UNCHANGED <<calls, undeploys, migrations, crashes>>

-----------------------------------------------------------------------------
(* The registry *)

\* Mutant: a time-to-live one interval short.
FreshEarly(r) == beat[r] \in 0 .. Ttl - 2

\* The freshness join of resolve and list_runners.
Fresh(r) == beat[r] \in 0 .. Ttl - 1

\* Mutant: the sweep is a step ahead of the join.
StaleMutant(r) == beat[r] >= Ttl - 1

\* The predicate of sweep_stale_runners.
Stale(r) == beat[r] > Ttl

\* What resolve selects: the newest placement on a fresh runner.
Newest(r) ==
    /\ r \in placed /\ Fresh(r)
    /\ \A p \in placed \ {r} : Fresh(p) => <<r, p>> \in newer

NewerBesides(r) == {n \in newer : n[1] # r /\ n[2] # r}

Tick ==
    /\ due = {}
    /\ beat' = [r \in Runners |-> IF beat[r] \in 0 .. Ttl THEN beat[r] + 1 ELSE beat[r]]
    /\ due' = {r \in Runners : life[r] = "up"}
    /\ UNCHANGED <<placements, record, life, deploys, undeploying, migrating, fanout, requests, env>>

\* UPDATE touches a row that is there; without one it succeeds as well.
Heartbeat(r) ==
    /\ r \in due
    /\ due' = due \ {r}
    /\ beat' = [beat EXCEPT ![r] = IF @ = NoRow THEN NoRow ELSE 0]
    /\ UNCHANGED <<placements, record, life, deploys, undeploying, migrating, fanout, requests, env>>

HeartbeatFails(r) ==
    /\ r \in due /\ Fault
    /\ due' = due \ {r}
    /\ UNCHANGED <<registry, life, deploys, undeploying, migrating, fanout, requests>>

-----------------------------------------------------------------------------
(* deploy_by_hash *)

\* Mutant: the migration goes on although the deploy failed.
AnswerMutant(j, ok) ==
    /\ job' = [job EXCEPT ![j] = "idle"]
    /\ on' = [on EXCEPT ![j] = "none"]
    /\ by' = [by EXCEPT ![j] = "none"]
    /\ \/ by[j] = "fan" /\ fan' = fan \ {on[j]} /\ fanok' = (fanok /\ ok) /\ UNCHANGED mig
       \/ by[j] \in Runners /\ UNCHANGED <<fan, fanok>>
          /\ mig' = [mig EXCEPT ![by[j]] = "undeploy"]
       \/ by[j] \notin Runners \cup {"fan"} /\ UNCHANGED <<fan, fanok, mig>>

\* Mutant: POST /cluster/deploy takes every answer for a success.
AnswerLenient(j, ok) ==
    /\ job' = [job EXCEPT ![j] = "idle"]
    /\ on' = [on EXCEPT ![j] = "none"]
    /\ by' = [by EXCEPT ![j] = "none"]
    /\ \/ by[j] = "fan" /\ fan' = fan \ {on[j]} /\ fanok' = fanok /\ UNCHANGED mig
       \/ by[j] \in Runners /\ UNCHANGED <<fan, fanok>>
          /\ mig' = [mig EXCEPT ![by[j]] = IF ok THEN "undeploy" ELSE "failed"]
       \/ by[j] \notin Runners \cup {"fan"} /\ UNCHANGED <<fan, fanok, mig>>

\* The result goes to the caller that still waits for it.
Answer(j, ok) ==
    /\ job' = [job EXCEPT ![j] = "idle"]
    /\ on' = [on EXCEPT ![j] = "none"]
    /\ by' = [by EXCEPT ![j] = "none"]
    /\ \/ by[j] = "fan" /\ fan' = fan \ {on[j]} /\ fanok' = (fanok /\ ok) /\ UNCHANGED mig
       \/ by[j] \in Runners /\ UNCHANGED <<fan, fanok>>
          /\ mig' = [mig EXCEPT ![by[j]] = IF ok THEN "undeploy" ELSE "failed"]
       \/ by[j] \notin Runners \cup {"fan"} /\ UNCHANGED <<fan, fanok, mig>>

FreeJob == CHOOSE j \in Jobs : job[j] = "idle"

Begin(r, who) ==
    \E j \in Jobs :
        /\ job[j] = "idle" /\ j = FreeJob
        /\ job' = [job EXCEPT ![j] = "check"]
        /\ on' = [on EXCEPT ![j] = r]
        /\ by' = [by EXCEPT ![j] = who]

\* A caller reaches the runner.
Deploy(r, who) == life[r] = "up" /\ Begin(r, who)

PostDeploy(r) ==
    /\ Call /\ Deploy(r, "client")
    /\ UNCHANGED <<registry, process, hosted, rolledback, undeploying, migrating, fanout, requests, undeploys, migrations>>

\* already_deployed, before the boot or when it is to be inserted: whatever state the agent
\* is in, and whether it is saved and placed or not.
AlreadyDeployed(j) ==
    /\ job[j] \in {"check", "boot"} /\ hosted[on[j]] # "no"
    /\ Answer(j, TRUE)
    /\ UNCHANGED <<registry, process, hosted, rolledback, undeploying, to, coord, listed, requests, env>>

\* Not in the maps: the artifact is fetched and booted.
Fetch(j) ==
    /\ job[j] = "check" /\ hosted[on[j]] = "no"
    /\ job' = [job EXCEPT ![j] = "boot"]
    /\ UNCHANGED <<registry, process, hosted, rolledback, on, by, undeploying, migrating, fanout, requests, env>>

\* Still not in the maps: inserted.
Boot(j) ==
    /\ job[j] = "boot" /\ hosted[on[j]] = "no"
    /\ hosted' = [hosted EXCEPT ![on[j]] = "running"]
    /\ job' = [job EXCEPT ![j] = "save"]
    /\ UNCHANGED <<registry, process, rolledback, on, by, undeploying, migrating, fanout, requests, env>>

BootFails(j) ==
    /\ job[j] = "boot" /\ Fault
    /\ Answer(j, FALSE)
    /\ UNCHANGED <<registry, process, hosted, rolledback, undeploying, to, coord, listed, requests>>

SaveDeployment(j) ==
    /\ job[j] = "save"
    /\ record' = record \cup {on[j]}
    /\ job' = [job EXCEPT ![j] = "place"]
    /\ UNCHANGED <<beat, placements, process, hosted, rolledback, on, by, undeploying, migrating, fanout, requests, env>>

\* Rolled back: whatever is in the maps under the name goes, also if others were told that
\* it is there.
SaveFails(j) ==
    /\ job[j] = "save" /\ Fault
    /\ hosted' = [hosted EXCEPT ![on[j]] = "no"]
    /\ rolledback' = rolledback \cup {on[j]}
    /\ Answer(j, FALSE)
    /\ UNCHANGED <<registry, process, undeploying, to, coord, listed, requests>>

RecordPlacement(j) ==
    /\ job[j] = "place"
    /\ placed' = placed \cup {on[j]}
    /\ newer' = NewerBesides(on[j]) \cup {<<on[j], p>> : p \in placed \ {on[j]}}
    /\ Answer(j, TRUE)
    /\ UNCHANGED <<beat, record, process, hosted, rolledback, undeploying, to, coord, listed, requests, env>>

\* Logged; the deploy succeeds.
RecordPlacementFails(j) ==
    /\ job[j] = "place" /\ Fault
    /\ Answer(j, TRUE)
    /\ UNCHANGED <<registry, process, hosted, rolledback, undeploying, to, coord, listed, requests>>

-----------------------------------------------------------------------------
(* undeploy_by_hash *)

AnswerUndeploy(r, ok) ==
    /\ und' = [und EXCEPT ![r] = "idle"]
    /\ uby' = [uby EXCEPT ![r] = "none"]
    /\ mig' = IF uby[r] = "self" THEN [mig EXCEPT ![r] = IF ok THEN "migrated" ELSE "failed"]
                                 ELSE mig

Undeploy(r, who) ==
    /\ life[r] = "up" /\ und[r] = "idle"
    /\ und' = [und EXCEPT ![r] = "find"]
    /\ uby' = [uby EXCEPT ![r] = who]

PostUndeploy(r) ==
    /\ Call /\ Undeploy(r, "client")
    /\ undeploys' = undeploys + 1
    /\ UNCHANGED <<registry, process, deploys, migrating, fanout, requests, migrations>>

\* Nothing to remove: no error.
NotDeployed(r) ==
    /\ und[r] = "find" /\ hosted[r] = "no"
    /\ AnswerUndeploy(r, TRUE)
    /\ UNCHANGED <<registry, process, deploys, to, fanout, requests, env>>

SetDraining(r) ==
    /\ und[r] = "find" /\ hosted[r] # "no"
    /\ hosted' = [hosted EXCEPT ![r] = "draining"]
    /\ und' = [und EXCEPT ![r] = "drain"]
    /\ UNCHANGED <<registry, process, rolledback, jobs, uby, migrating, fanout, requests, env>>

\* Drained, or the deadline has passed.
Unroute(r) ==
    /\ und[r] = "drain"
    /\ hosted' = [hosted EXCEPT ![r] = "no"]
    /\ und' = [und EXCEPT ![r] = "unplace"]
    /\ UNCHANGED <<registry, process, rolledback, jobs, uby, migrating, fanout, requests, env>>

RemovePlacement(r) ==
    /\ und[r] = "unplace"
    /\ placed' = placed \ {r}
    /\ newer' = NewerBesides(r)
    /\ und' = [und EXCEPT ![r] = "remove"]
    /\ UNCHANGED <<beat, record, process, deploys, uby, migrating, fanout, requests, env>>

RemovePlacementFails(r) ==
    /\ und[r] = "unplace" /\ Fault
    /\ und' = [und EXCEPT ![r] = "remove"]
    /\ UNCHANGED <<registry, process, deploys, uby, migrating, fanout, requests>>

RemoveDeployment(r) ==
    /\ und[r] = "remove"
    /\ record' = record \ {r}
    /\ AnswerUndeploy(r, TRUE)
    /\ UNCHANGED <<beat, placements, process, deploys, to, fanout, requests, env>>

RemoveFails(r) ==
    /\ und[r] = "remove" /\ Fault
    /\ AnswerUndeploy(r, FALSE)
    /\ UNCHANGED <<registry, process, deploys, to, fanout, requests>>

-----------------------------------------------------------------------------
(* post_migrate and post_cluster_deploy *)

PostMigrate(r, t) ==
    /\ Call /\ life[r] = "up" /\ mig[r] \in {"idle", "migrated", "failed"}
    /\ mig' = [mig EXCEPT ![r] = "deploy"]
    /\ to' = [to EXCEPT ![r] = t]
    /\ migrations' = migrations + 1
    /\ UNCHANGED <<registry, process, deploys, undeploying, fanout, requests, undeploys>>

MigrateDeploy(r) ==
    /\ mig[r] = "deploy"
    /\ Deploy(to[r], r)
    /\ mig' = [mig EXCEPT ![r] = "wait"]
    /\ UNCHANGED <<registry, process, hosted, rolledback, undeploying, to, fanout, requests, env>>

MigrateUnreachable(r) ==
    /\ mig[r] = "deploy" /\ life[to[r]] # "up"
    /\ mig' = [mig EXCEPT ![r] = "failed"]
    /\ UNCHANGED <<registry, process, deploys, undeploying, to, fanout, requests, env>>

\* The deploy goes on without a caller.
MigrateTimeout(r) ==
    /\ mig[r] = "wait" /\ Fault
    /\ mig' = [mig EXCEPT ![r] = "failed"]
    /\ by' = [j \in Jobs |-> IF by[j] = r THEN "none" ELSE by[j]]
    /\ UNCHANGED <<registry, process, hosted, rolledback, job, on, undeploying, to, fanout, requests>>

MigrateUndeploy(r) ==
    /\ mig[r] = "undeploy"
    /\ Undeploy(r, "self")
    /\ mig' = [mig EXCEPT ![r] = "undeploying"]
    /\ UNCHANGED <<registry, process, deploys, to, fanout, requests, env>>

PostClusterDeploy(r) ==
    /\ Call /\ life[r] = "up" /\ fan = {}
    /\ listed' = {p \in Runners : Fresh(p)}
    /\ fan' = listed'
    /\ fanok' = TRUE
    /\ coord' = r
    /\ UNCHANGED <<registry, process, deploys, undeploying, migrating, requests, undeploys, migrations>>

\* The cluster-wide deploy waits for the runner's answer.
Fanned(p) == \E j \in Jobs : on[j] = p /\ by[j] = "fan"

FanDeploy(p) ==
    /\ p \in fan /\ ~ Fanned(p)
    /\ Deploy(p, "fan")
    /\ UNCHANGED <<registry, process, hosted, rolledback, undeploying, migrating, fanout, requests, env>>

FanUnreachable(p) ==
    /\ p \in fan /\ life[p] # "up"
    /\ fan' = fan \ {p}
    /\ fanok' = FALSE
    /\ UNCHANGED <<registry, process, deploys, undeploying, migrating, coord, listed, requests, env>>

\* Only a peer's deploy has a time-out; it goes on too.
FanTimeout(p) ==
    /\ p \in fan \ {coord} /\ Fanned(p) /\ Fault
    /\ fan' = fan \ {p}
    /\ fanok' = FALSE
    /\ by' = [j \in Jobs |-> IF on[j] = p /\ by[j] = "fan" THEN "none" ELSE by[j]]
    /\ UNCHANGED <<registry, process, hosted, rolledback, job, on, undeploying, migrating, coord, listed, requests>>

-----------------------------------------------------------------------------
(* handle_a2a_by_key, resolve and forward_to_runner *)

Arrive(q, r) ==
    /\ rpc[q] = "new" /\ life[r] = "up"
    /\ rpc' = [rpc EXCEPT ![q] = "lookup"]
    /\ at' = [at EXCEPT ![q] = r]
    /\ via' = [via EXCEPT ![q] = {r}]
    /\ UNCHANGED <<registry, process, deploys, undeploying, migrating, fanout, env>>

Answered == {"served", "refused", "notfound", "failed"}

\* The request is answered, and with it every runner that waits for it.
End(q, answer) ==
    /\ rpc' = [rpc EXCEPT ![q] = answer]
    /\ at' = [at EXCEPT ![q] = "none"]
    /\ via' = [via EXCEPT ![q] = {}]

Lookup(q) ==
    /\ rpc[q] = "lookup"
    /\ \/ hosted[at[q]] = "running" /\ End(q, "served")
       \/ hosted[at[q]] = "draining" /\ End(q, "refused")
       \/ /\ hosted[at[q]] = "no"
          /\ rpc' = [rpc EXCEPT ![q] = "resolve"]
          /\ UNCHANGED <<at, via>>
    /\ UNCHANGED <<registry, process, deploys, undeploying, migrating, fanout, env>>

\* Mutant: a runner forwards to itself when the placement says so.
ResolveMutant(q) ==
    /\ rpc[q] = "resolve"
    /\ \/ /\ \E p \in Runners :
               Newest(p) /\ at' = [at EXCEPT ![q] = p]
          /\ rpc' = [rpc EXCEPT ![q] = "forward"]
          /\ UNCHANGED via
       \/ /\ \A p \in Runners : ~ Newest(p)
          /\ End(q, "notfound")
    /\ UNCHANGED <<registry, process, deploys, undeploying, migrating, fanout, env>>

\* A placement on the runner that asks is no placement.
Resolve(q) ==
    /\ rpc[q] = "resolve"
    /\ \/ /\ \E p \in Runners \ {at[q]} :
               Newest(p) /\ at' = [at EXCEPT ![q] = p]
          /\ rpc' = [rpc EXCEPT ![q] = "forward"]
          /\ UNCHANGED via
       \/ /\ \A p \in Runners \ {at[q]} : ~ Newest(p)
          /\ End(q, "notfound")
    /\ UNCHANGED <<registry, process, deploys, undeploying, migrating, fanout, env>>

Forward(q) ==
    /\ rpc[q] = "forward"
    /\ \/ /\ life[at[q]] = "up"
          /\ rpc' = [rpc EXCEPT ![q] = "lookup"]
          /\ via' = [via EXCEPT ![q] = @ \cup {at[q]}]
          /\ UNCHANGED at
       \/ life[at[q]] # "up" /\ End(q, "failed")
    /\ UNCHANGED <<registry, process, deploys, undeploying, migrating, fanout, env>>

\* The lookup fails, or the forward times out.
RequestFails(q) ==
    /\ rpc[q] \in {"resolve", "forward"} /\ Fault
    /\ End(q, "failed")
    /\ UNCHANGED <<registry, process, deploys, undeploying, migrating, fanout>>

-----------------------------------------------------------------------------
(* Crash and start of a runner *)

Crash(r) ==
    /\ life[r] # "down"
    /\ Bounded
    /\ crashes' = crashes + 1
    /\ life' = [life EXCEPT ![r] = "down"]
    /\ due' = due \ {r}
    /\ hosted' = [hosted EXCEPT ![r] = "no"]
    /\ job' = [j \in Jobs |-> IF on[j] = r THEN "idle" ELSE job[j]]
    /\ on' = [j \in Jobs |-> IF on[j] = r THEN "none" ELSE on[j]]
    /\ by' = [j \in Jobs |-> IF on[j] = r \/ by[j] = r \/ (coord = r /\ by[j] = "fan")
                             THEN "none" ELSE by[j]]
    /\ und' = [und EXCEPT ![r] = "idle"]
    /\ uby' = [uby EXCEPT ![r] = "none"]
    /\ mig' = [p \in Runners |-> IF p = r THEN "idle"
                                 ELSE IF \E j \in Jobs : on[j] = r /\ by[j] = p THEN "failed" ELSE mig[p]]
    /\ fan' = IF coord = r THEN {} ELSE IF Fanned(r) THEN fan \ {r} ELSE fan
    /\ fanok' = (fanok /\ coord # r /\ ~ Fanned(r))
    /\ rpc' = [q \in Requests |-> IF r \in via[q] THEN "failed" ELSE rpc[q]]
    /\ at' = [q \in Requests |-> IF r \in via[q] THEN "none" ELSE at[q]]
    /\ via' = [q \in Requests |-> IF r \in via[q] THEN {} ELSE via[q]]
    /\ UNCHANGED <<registry, rolledback, to, coord, listed, calls, undeploys, migrations, faults>>

\* Mutant: nothing is restored.
StartMutant(r, swept) ==
    /\ life[r] = "down"
    /\ beat' = [p \in Runners |-> IF p = r THEN 0 ELSE IF p \in swept THEN NoRow ELSE beat[p]]
    /\ life' = [life EXCEPT ![r] = "restoring"]
    /\ UNCHANGED <<placements, record, due, deploys, undeploying, migrating, fanout, requests>>

\* ClusterManager::new sweeps and registers before the restore loop; a sweep that fails is
\* logged.  The heartbeat starts after the loop.
Start(r, swept) ==
    /\ life[r] = "down"
    /\ beat' = [p \in Runners |-> IF p = r THEN 0 ELSE IF p \in swept THEN NoRow ELSE beat[p]]
    /\ life' = [life EXCEPT ![r] = "restoring"]
    /\ \/ r \in record /\ Begin(r, "restore")
       \/ r \notin record /\ UNCHANGED jobs
    /\ UNCHANGED <<placements, record, due, hosted, rolledback, undeploying, migrating, fanout, requests>>

Restart(r) ==
    /\ Start(r, {p \in Runners : Stale(p)})
    /\ UNCHANGED env

RestartUnswept(r) ==
    /\ Start(r, {})
    /\ Fault

Ready(r) ==
    /\ life[r] = "restoring" /\ \A j \in Jobs : on[j] # r
    /\ life' = [life EXCEPT ![r] = "up"]
    /\ due' = due \cup {r}
    /\ UNCHANGED <<registry, deploys, undeploying, migrating, fanout, requests, env>>

-----------------------------------------------------------------------------

\* A cluster at rest: the agent is deployed on some runners.
Init ==
    /\ placed = Deployed /\ record = Deployed
    /\ newer \in {n \in SUBSET (Deployed \X Deployed) :
           /\ \A p, q \in Deployed : <<p, q>> \in n <=> p # q /\ <<q, p>> \notin n
           /\ \A p, q, t \in Deployed : <<p, q>> \in n /\ <<q, t>> \in n => <<p, t>> \in n}
    /\ hosted = [r \in Runners |-> IF r \in record THEN "running" ELSE "no"]
    /\ beat = [r \in Runners |-> 0]
    /\ life = [r \in Runners |-> "up"] /\ due = {}
    /\ job = [j \in Jobs |-> "idle"] /\ on = [j \in Jobs |-> "none"] /\ by = [j \in Jobs |-> "none"]
    /\ rolledback = {}
    /\ und = [r \in Runners |-> "idle"] /\ uby = [r \in Runners |-> "none"]
    /\ mig = [r \in Runners |-> "idle"] /\ to = [r \in Runners |-> "none"]
    /\ coord = "none" /\ listed = {} /\ fan = {} /\ fanok = TRUE
    /\ rpc = [q \in Requests |-> "new"]
    /\ at = [q \in Requests |-> "none"]
    /\ via = [q \in Requests |-> {}]
    /\ calls = 0 /\ undeploys = 0 /\ migrations = 0 /\ crashes = 0 /\ faults = 0

DeployStep(j) ==
    \/ AlreadyDeployed(j) \/ Fetch(j) \/ Boot(j) \/ BootFails(j) \/ SaveDeployment(j) \/ SaveFails(j)
    \/ RecordPlacement(j) \/ RecordPlacementFails(j)

UndeployStep(r) ==
    \/ NotDeployed(r) \/ SetDraining(r) \/ Unroute(r)
    \/ RemovePlacement(r) \/ RemovePlacementFails(r) \/ RemoveDeployment(r) \/ RemoveFails(r)

MigrateStep(r) ==
    MigrateDeploy(r) \/ MigrateUnreachable(r) \/ MigrateTimeout(r) \/ MigrateUndeploy(r)

FanStep(p) == FanDeploy(p) \/ FanUnreachable(p) \/ FanTimeout(p)

RequestStep(q) == Lookup(q) \/ Resolve(q) \/ Forward(q) \/ RequestFails(q)

RunnerStep(r) == Heartbeat(r) \/ HeartbeatFails(r) \/ Ready(r)

ClientStep(r) ==
    \/ PostDeploy(r) \/ PostUndeploy(r) \/ PostClusterDeploy(r)
    \/ \E t \in Runners : PostMigrate(r, t)
    \/ \E q \in Requests : Arrive(q, r)

Next ==
    \/ Tick
    \/ \E r \in Runners :
          \/ RunnerStep(r) \/ UndeployStep(r) \/ MigrateStep(r) \/ FanStep(r)
          \/ ClientStep(r) \/ Crash(r) \/ Restart(r) \/ RestartUnswept(r)
    \/ \E j \in Jobs : DeployStep(j)
    \/ \E q \in Requests : RequestStep(q)

Spec == Init /\ [][Next]_vars

\* A step of some call or request.
Work ==
    \/ \E j \in Jobs : DeployStep(j)
    \/ \E q \in Requests : RequestStep(q)
    \/ \E r \in Runners : UndeployStep(r) \/ MigrateStep(r) \/ FanStep(r)

\* Time passes, heartbeat tasks are polled, and calls and requests that can go on do not all
\* stand still.  Nothing makes a client call, a runner crash, or one that is down start again.
FairSpec ==
    /\ Spec
    /\ WF_vars(Tick)
    /\ \A r \in Runners : WF_vars(RunnerStep(r))
    /\ WF_vars(Work)

-----------------------------------------------------------------------------
(* Properties *)

Callers == {"none", "client", "restore", "fan"} \cup Runners

\* Every variable has its type, only calls in progress are waited for, and a request under
\* way is with a runner.
TypeOK ==
    /\ beat \in [Runners -> -1 .. Ttl + 1] /\ record \subseteq Runners
    /\ placed \subseteq Runners /\ newer \subseteq Runners \X Runners
    /\ life \in [Runners -> {"down", "restoring", "up"}] /\ due \subseteq Runners
    /\ hosted \in [Runners -> {"no", "running", "draining"}]
    /\ rolledback \subseteq Runners
    /\ job \in [Jobs -> {"idle", "check", "boot", "save", "place"}]
    /\ on \in [Jobs -> Runners \cup {"none"}] /\ by \in [Jobs -> Callers]
    /\ und \in [Runners -> {"idle", "find", "drain", "unplace", "remove"}]
    /\ uby \in [Runners -> {"none", "client", "self"}]
    /\ mig \in [Runners -> {"idle", "deploy", "wait", "undeploy", "undeploying", "migrated", "failed"}]
    /\ to \in [Runners -> Runners \cup {"none"}]
    /\ coord \in Runners \cup {"none"} /\ listed \subseteq Runners
    /\ fan \subseteq listed /\ fanok \in BOOLEAN
    /\ rpc \in [Requests -> {"new", "lookup", "resolve", "forward"} \cup Answered]
    /\ at \in [Requests -> Runners \cup {"none"}] /\ via \in [Requests -> SUBSET Runners]
    /\ calls \in Nat /\ undeploys \in Nat /\ migrations \in Nat /\ crashes \in Nat /\ faults \in Nat
    /\ \A j \in Jobs : (job[j] = "idle" <=> on[j] = "none") /\ (by[j] # "none" => job[j] # "idle")
    /\ \A q \in Requests : rpc[q] \in {"lookup", "resolve", "forward"} => at[q] # "none"

\* A request is answered without the help of its time-outs: stale placements never send it
\* back and forth, for resolve takes a placement on its own runner for none.
RequestsEnd == \A q \in Requests : rpc[q] = "lookup" ~> rpc[q] \in Answered

\* On a cluster that has the agent, and where nothing is called and nothing fails, a request
\* is served, whichever runner it comes to and however heartbeats and time interleave.
QuietClusterServes ==
    calls = 0 /\ crashes + faults = 0 /\ record # {} =>
        \A q \in Requests : rpc[q] \notin {"refused", "notfound", "failed"}

\* A deploy on the runner has inserted the agent and is about to save it.
Saving(r) == \E j \in Jobs : on[j] = r /\ job[j] = "save"

\* No undeploy and no crash so far, and at most one migration, to another runner and one
\* where no deploy had to be rolled back.
Undisturbed ==
    /\ undeploys = 0 /\ crashes = 0 /\ migrations <= 1
    /\ \A r \in Runners : to[r] # r /\ to[r] \notin rolledback

\* The agent runs where its record is, or on a target where the record is being written.
Alive ==
    \E r \in Runners :
        hosted[r] = "running" /\ (r \in record \/ (Saving(r) /\ \E s \in Runners : to[s] = r))

\* A migration never takes the agent off its last runner, whatever it fails at, whatever is
\* deployed beside it and whichever of those deploys fail, but for one: a deploy on the target
\* that is rolled back (post_migrate deploys on the target first).
MigrationKeepsAgent == [][Undisturbed' /\ Alive => Alive']_vars

\* A runner that reported success to POST /cluster/deploy has the agent, and its record
\* written or being written, whatever failed on others or was timed out; but for a runner
\* where a deploy was rolled back.
ClusterDeployCovers ==
    fanok /\ undeploys = 0 /\ migrations = 0 /\ crashes = 0 =>
        \A p \in (listed \ fan) \ rolledback : hosted[p] = "running" /\ (p \in record \/ Saving(p))

\* A start never removes the row of a runner that is still routed to
\* (sweep_stale_runners: "The predicate matches the resolver's freshness join").
SweepSparesFresh == [][\A r \in Runners : Fresh(r) => beat'[r] # NoRow]_vars

\* A runner that starts again gets its agent and its placement back.
RestartRestores ==
    \A r \in Runners :
        life[r] = "restoring" /\ r \in record
            ~> \/ life[r] = "down" \/ faults > 0
               \/ hosted[r] = "running" /\ r \in placed

\* e2e-k8s.md: "recovers automatically on restart".
UpIsListed == \A r \in Runners : life[r] = "up" ~> life[r] # "up" \/ Fresh(r)
=============================================================================
