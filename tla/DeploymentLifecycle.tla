------------------------ MODULE DeploymentLifecycle ------------------------
(***************************************************************************)
(* How a runner brings agents up and takes them down: deploy_by_hash and   *)
(* undeploy_by_hash (runner.rs), the drain of an agent's requests, the     *)
(* runner's deployment records (deployment_state.rs), the placement rows   *)
(* other runners route by (cluster.rs), and the restore of the records     *)
(* when the runner starts (lib.rs, deployment_restore.rs).                 *)
(*                                                                         *)
(* The HTTP handlers run every call on a thread of its own and nothing     *)
(* orders two calls, so a call is a process with one step per lock section *)
(* or await.  With a single element in Calls the module describes an       *)
(* operator who waits for each answer.                                     *)
(***************************************************************************)
EXTENDS Integers, FiniteSets

CONSTANTS
    Packages,    \* agent package names
    Hashes,      \* content hashes, as positive numbers in the order of their text
    Pkg,         \* the package a hash is an artifact of
    Calls,       \* deploy and undeploy calls that may be under way together
    Requests,    \* requests to agents
    Streams,     \* the requests a drain sees: message.sendStream turns, open tool sessions
    MaxDeploys,  \* bound on deploy calls
    MaxClock,    \* bound on the seconds that pass
    MaxCrashes,  \* bound on runner crashes
    MaxFaults    \* bound on failed store writes and failed boots

None == 0

ASSUME HashesAssumption == Hashes \subseteq Nat \ {None}
ASSUME PkgAssumption == Pkg \in [Hashes -> Packages]
ASSUME StreamsAssumption == Streams \subseteq Requests
ASSUME BoundsAssumption ==
    MaxDeploys \in Nat /\ MaxClock \in Nat /\ MaxCrashes \in Nat /\ MaxFaults \in Nat

VARIABLES
    \* --- durable: runner state database and cluster registry
    rec,         \* status of a hash's deployment record: none, active, failed
    deployedAt,  \* deployed_at of the record
    placed,      \* packages with a placement row of this runner
    \* --- the runner's memory
    mode,        \* up, restoring or down
    toRestore,   \* records the restore loop still has to deploy
    slot,        \* agents and routed_agents: the booted agent under a package name
    hash,        \* its content_hash
    draining,    \* booted agents in lifecycle state Draining
    \* --- calls
    pc,          \* next step
    target,      \* the hash being deployed, None for a plain undeploy
    old,         \* the hash being undeployed
    victim,      \* the booted agent found for it
    fresh,       \* the agent this deploy has booted
    stamp,       \* deployed_at this deploy will save
    \* --- requests
    reqPc, reqBoot,
    \* --- environment and history
    clock, boots, deploys, crashes, faults,
    timedOut,    \* booted agents whose drain ran into the 30 s limit
    stopped      \* booted agents with an AgentStopped event

records == <<rec, deployedAt, placed>>
routes == <<slot, hash, draining>>
callVars == <<pc, target, old, victim, fresh, stamp>>
reqVars == <<reqPc, reqBoot>>
env == <<clock, deploys, crashes, faults>>
history == <<boots, timedOut, stopped>>
vars == <<records, mode, toRestore, routes, callVars, reqVars, env, history>>

-----------------------------------------------------------------------------
(* Helpers *)

Goto(c, l) == pc' = [pc EXCEPT ![c] = l]

\* The call returns; its locals are gone.
Return(c) ==
    /\ Goto(c, "idle")
    /\ target' = [target EXCEPT ![c] = None]
    /\ old' = [old EXCEPT ![c] = None]
    /\ victim' = [victim EXCEPT ![c] = None]
    /\ fresh' = [fresh EXCEPT ![c] = None]
    /\ stamp' = [stamp EXCEPT ![c] = 0]

Faulty == faults < MaxFaults /\ faults' = faults + 1

\* The call returns an error.  The restore loop then marks the record failed;
\* that save can itself fail.
ReturnErr(c) ==
    /\ rec' \in IF mode = "restoring" THEN {[rec EXCEPT ![target[c]] = "failed"], rec}
                                      ELSE {rec}
    /\ Return(c)

\* agents.values().any(|a| a.content_hash() == hash)
Deployed(h) == slot[Pkg[h]] # None /\ hash[Pkg[h]] = h

\* has_any_in_flight: dispatches and unary requests set no flag.
HasAnyInFlight(b) == \E r \in Streams : reqPc[r] = "running" /\ reqBoot[r] = b

-----------------------------------------------------------------------------
(* deploy_by_hash *)

\* The answer already_deployed changes nothing, and is not a step.
Deploy(c, h) ==
    /\ mode = "up" /\ pc[c] = "idle"
    /\ deploys < MaxDeploys
    /\ ~ Deployed(h)
    /\ deploys' = deploys + 1
    /\ target' = [target EXCEPT ![c] = h]
    /\ Goto(c, "fetch")
    /\ UNCHANGED <<records, mode, toRestore, routes, old, victim, fresh, stamp, reqVars,
                   clock, crashes, faults, history>>

\* The artifact is fetched and verified, and the agents map is read again.
Fetch(c) ==
    /\ pc[c] = "fetch"
    /\ LET p == Pkg[target[c]] IN
       \/ /\ slot[p] = None
          /\ Goto(c, "boot")
          /\ UNCHANGED <<target, old, victim, fresh, stamp>>
       \/ Deployed(target[c]) /\ Return(c)
       \/ /\ slot[p] # None /\ ~ Deployed(target[c])
          /\ old' = [old EXCEPT ![c] = hash[p]]
          /\ Goto(c, "find")
          /\ UNCHANGED <<target, victim, fresh, stamp>>
    /\ UNCHANGED <<records, mode, toRestore, routes, reqVars, env, history>>

FetchFails(c) ==
    /\ pc[c] = "fetch"
    /\ Faulty
    /\ ReturnErr(c)
    /\ UNCHANGED <<deployedAt, placed, mode, toRestore, routes, reqVars, clock, deploys, crashes, history>>

\* boot_from_blob_bytes
Boot(c) ==
    /\ pc[c] = "boot"
    /\ boots' = boots + 1
    /\ fresh' = [fresh EXCEPT ![c] = boots + 1]
    /\ Goto(c, "insert")
    /\ UNCHANGED <<records, mode, toRestore, routes, target, old, victim, stamp, reqVars, env, timedOut, stopped>>

BootFails(c) ==
    /\ pc[c] = "boot"
    /\ Faulty
    /\ ReturnErr(c)
    /\ UNCHANGED <<deployedAt, placed, mode, toRestore, routes, reqVars, clock, deploys, crashes, history>>

\* Mutant: the maps are not looked at again after the boot.
InsertableMutant(c) == TRUE

\* The second look at the maps, under the write lock.
Insertable(c) == slot[Pkg[target[c]]] = None

Insert(c) ==
    /\ pc[c] = "insert"
    /\ Insertable(c)
    /\ slot' = [slot EXCEPT ![Pkg[target[c]]] = fresh[c]]
    /\ hash' = [hash EXCEPT ![Pkg[target[c]]] = target[c]]
    /\ stamp' = [stamp EXCEPT ![c] = clock]
    /\ Goto(c, "save")
    /\ UNCHANGED <<records, mode, toRestore, draining, target, old, victim, fresh, reqVars, env, history>>

\* Another call deployed the hash meanwhile, or another revision: Conflict.
InsertRefused(c) ==
    /\ pc[c] = "insert"
    /\ ~ Insertable(c)
    /\ IF Deployed(target[c]) THEN Return(c) /\ rec' = rec ELSE ReturnErr(c)
    /\ UNCHANGED <<deployedAt, placed, mode, toRestore, routes, reqVars, env, history>>

SaveDeployment(c) ==
    /\ pc[c] = "save"
    /\ rec' = [rec EXCEPT ![target[c]] = "active"]
    /\ deployedAt' = [deployedAt EXCEPT ![target[c]] = stamp[c]]
    /\ Goto(c, "place")
    /\ UNCHANGED <<placed, mode, toRestore, routes, target, old, victim, fresh, stamp, reqVars, env, history>>

\* Mutant: the agent stays in the maps.
UnrouteMutant(c) == UNCHANGED <<slot, hash>>

\* agents.remove(&name) and routed.remove(&route_key), for whichever agent is
\* under the name by then
Unroute(c) ==
    LET p == Pkg[IF pc[c] = "save" THEN target[c] ELSE old[c]]
    IN /\ slot' = [slot EXCEPT ![p] = None]
       /\ hash' = [hash EXCEPT ![p] = None]

SaveDeploymentFails(c) ==
    /\ pc[c] = "save"
    /\ Faulty
    /\ Unroute(c)
    /\ ReturnErr(c)
    /\ UNCHANGED <<deployedAt, placed, mode, toRestore, draining, reqVars, clock, deploys, crashes, history>>

\* Mutant: restored agents are not recorded in the cluster.
RecordPlacementMutant(c) ==
    /\ pc[c] = "place"
    /\ placed' = IF mode = "up" THEN placed \cup {Pkg[target[c]]} ELSE placed
    /\ Return(c)
    /\ UNCHANGED <<rec, deployedAt, mode, toRestore, routes, reqVars, env, history>>

\* record_placement; its failure is only logged.
RecordPlacement(c) ==
    /\ pc[c] = "place"
    /\ \/ placed' = placed \cup {Pkg[target[c]]} /\ faults' = faults
       \/ placed' = placed /\ Faulty
    /\ Return(c)
    /\ UNCHANGED <<rec, deployedAt, mode, toRestore, routes, reqVars, clock, deploys, crashes, history>>

-----------------------------------------------------------------------------
(* undeploy_by_hash, on its own or within a deploy of another revision *)

Undeploy(c, h) ==
    /\ mode = "up" /\ pc[c] = "idle"
    /\ old' = [old EXCEPT ![c] = h]
    /\ Goto(c, "find")
    /\ UNCHANGED <<records, mode, toRestore, routes, target, victim, fresh, stamp, reqVars, env, history>>

\* The end of undeploy_by_hash: the deploy that superseded goes on.
UndeployDone(c) ==
    IF target[c] = None
    THEN Return(c)
    ELSE /\ old' = [old EXCEPT ![c] = None]
         /\ victim' = [victim EXCEPT ![c] = None]
         /\ Goto(c, "boot")
         /\ UNCHANGED <<target, fresh, stamp>>

Find(c) ==
    /\ pc[c] = "find"
    /\ IF Deployed(old[c])
       THEN LET b == slot[Pkg[old[c]]] IN
            /\ draining' = draining \cup {b}
            /\ victim' = [victim EXCEPT ![c] = b]
            /\ Goto(c, "drain")
            /\ UNCHANGED <<target, old, fresh, stamp>>
       ELSE UndeployDone(c) /\ UNCHANGED draining
    /\ UNCHANGED <<records, mode, toRestore, slot, hash, reqVars, env, history>>

Drained(c) ==
    /\ pc[c] = "drain"
    /\ ~ HasAnyInFlight(victim[c])
    /\ Goto(c, "remove")
    /\ UNCHANGED <<records, mode, toRestore, routes, target, old, victim, fresh, stamp, reqVars, env, history>>

\* Mutant: the drain waits as long as it takes.
DrainTimeoutMutant(c) ==
    /\ pc[c] = "drain"
    /\ ~ HasAnyInFlight(victim[c])
    /\ timedOut' = timedOut \cup {victim[c]}
    /\ Goto(c, "remove")
    /\ UNCHANGED <<records, mode, toRestore, routes, target, old, victim, fresh, stamp, reqVars, env, boots, stopped>>

\* "drain timeout exceeded after 30s, proceeding with undeploy"
DrainTimeout(c) ==
    /\ pc[c] = "drain"
    /\ HasAnyInFlight(victim[c])
    /\ timedOut' = timedOut \cup {victim[c]}
    /\ Goto(c, "remove")
    /\ UNCHANGED <<records, mode, toRestore, routes, target, old, victim, fresh, stamp, reqVars, env, boots, stopped>>

Remove(c) ==
    /\ pc[c] = "remove"
    /\ Unroute(c)
    /\ Goto(c, "unplace")
    /\ UNCHANGED <<records, mode, toRestore, draining, target, old, victim, fresh, stamp, reqVars, env, boots, timedOut, stopped>>

\* remove_placement; its failure is only logged.
RemovePlacement(c) ==
    /\ pc[c] = "unplace"
    /\ \/ placed' = placed \ {Pkg[old[c]]} /\ faults' = faults
       \/ placed' = placed /\ Faulty
    /\ Goto(c, "unrecord")
    /\ UNCHANGED <<rec, deployedAt, mode, toRestore, routes, target, old, victim, fresh, stamp, reqVars,
                   clock, deploys, crashes, history>>

\* Mutant: the record is kept.
RemoveDeploymentMutant(c) ==
    /\ pc[c] = "unrecord"
    /\ Goto(c, "stop")
    /\ UNCHANGED <<records, mode, toRestore, routes, target, old, victim, fresh, stamp, reqVars, env, history>>

RemoveDeployment(c) ==
    /\ pc[c] = "unrecord"
    /\ rec' = [rec EXCEPT ![old[c]] = "none"]
    /\ Goto(c, "stop")
    /\ UNCHANGED <<deployedAt, placed, mode, toRestore, routes, target, old, victim, fresh, stamp, reqVars, env, history>>

RemoveDeploymentFails(c) ==
    /\ pc[c] = "unrecord"
    /\ Faulty
    /\ ReturnErr(c)
    /\ UNCHANGED <<deployedAt, placed, mode, toRestore, routes, reqVars, clock, deploys, crashes, history>>

\* The AgentStopped event.
Stop(c) ==
    /\ pc[c] = "stop"
    /\ stopped' = stopped \cup {victim[c]}
    /\ UndeployDone(c)
    /\ UNCHANGED <<records, mode, toRestore, routes, reqVars, env, boots, timedOut>>

\* The event could not be written, which is only logged.
StopUnreported(c) ==
    /\ pc[c] = "stop"
    /\ Faulty
    /\ UndeployDone(c)
    /\ UNCHANGED <<records, mode, toRestore, routes, reqVars, clock, deploys, crashes, history>>

CallStep(c) ==
    \/ Fetch(c) \/ FetchFails(c) \/ Boot(c) \/ BootFails(c)
    \/ Insert(c) \/ InsertRefused(c) \/ SaveDeployment(c) \/ SaveDeploymentFails(c)
    \/ RecordPlacement(c)
    \/ Find(c) \/ Drained(c) \/ DrainTimeout(c) \/ Remove(c) \/ RemovePlacement(c)
    \/ RemoveDeployment(c) \/ RemoveDeploymentFails(c)
    \/ Stop(c) \/ StopUnreported(c)

-----------------------------------------------------------------------------
(* Requests *)

\* The drain state and the route are read under one lock.
Admit(r, p) ==
    /\ mode = "up"
    /\ reqPc[r] = "idle"
    /\ slot[p] # None /\ slot[p] \notin draining
    /\ reqPc' = [reqPc EXCEPT ![r] = "admitted"]
    /\ reqBoot' = [reqBoot EXCEPT ![r] = slot[p]]
    /\ UNCHANGED <<records, mode, toRestore, routes, callVars, env, history>>

\* The agent takes the turn up; a stream session is marked in flight.
Begin(r) ==
    /\ reqPc[r] = "admitted"
    /\ reqPc' = [reqPc EXCEPT ![r] = "running"]
    /\ UNCHANGED <<records, mode, toRestore, routes, callVars, reqBoot, env, history>>

Finish(r) ==
    /\ reqPc[r] = "running"
    /\ reqPc' = [reqPc EXCEPT ![r] = "idle"]
    /\ reqBoot' = [reqBoot EXCEPT ![r] = None]
    /\ UNCHANGED <<records, mode, toRestore, routes, callVars, env, history>>

-----------------------------------------------------------------------------
(* Crash, restart and restore *)

\* The memory is gone.  Until the restart slot and hash keep the agents that were routed and
\* whose deploy had come to save its record.
Crash ==
    /\ mode # "down"
    /\ crashes < MaxCrashes
    /\ crashes' = crashes + 1
    /\ mode' = "down"
    /\ toRestore' = {}
    /\ slot' = [p \in Packages |-> IF \E c \in Calls : pc[c] = "save" /\ Pkg[target[c]] = p
                                   THEN None ELSE slot[p]]
    /\ pc' = [c \in Calls |-> "idle"]
    /\ target' = [c \in Calls |-> None]
    /\ old' = [c \in Calls |-> None]
    /\ victim' = [c \in Calls |-> None]
    /\ fresh' = [c \in Calls |-> None]
    /\ stamp' = [c \in Calls |-> 0]
    /\ reqPc' = [r \in Requests |-> "idle"]
    /\ reqBoot' = [r \in Requests |-> None]
    /\ UNCHANGED <<records, hash, draining, clock, deploys, faults, history>>

\* Mutant: the older record wins.
BetterForRestoreMutant(a, b) ==
    IF rec[a] # rec[b] THEN rec[a] = "active"
    ELSE deployedAt[a] < deployedAt[b] \/ (deployedAt[a] = deployedAt[b] /\ a > b)

\* better_for_restore: active before failed, then the later, then the larger hash
BetterForRestore(a, b) ==
    IF rec[a] # rec[b] THEN rec[a] = "active"
    ELSE deployedAt[a] > deployedAt[b] \/ (deployedAt[a] = deployedAt[b] /\ a > b)

\* dedupe_deployments_for_restore: the records of a package that lose
Superseded ==
    {h \in Hashes : rec[h] # "none" /\
        \E g \in Hashes : Pkg[g] = Pkg[h] /\ rec[g] # "none" /\ BetterForRestore(g, h)}

\* Superseded records are deleted; a delete that fails is only logged.
Restart ==
    /\ mode = "down"
    /\ mode' = "restoring"
    /\ \E kept \in SUBSET Superseded :
         /\ \/ kept = {} /\ faults' = faults
            \/ kept # {} /\ Faulty
         /\ rec' = [h \in Hashes |-> IF h \in Superseded \ kept THEN "none" ELSE rec[h]]
    /\ toRestore' = {h \in Hashes : rec[h] # "none"} \ Superseded
    /\ slot' = [p \in Packages |-> None]
    /\ hash' = [p \in Packages |-> None]
    /\ UNCHANGED <<deployedAt, placed, draining, callVars, reqVars, clock, deploys, crashes, history>>

\* The restore loop deploys one record after the other.
RestoreNext(c, h) ==
    /\ mode = "restoring"
    /\ \A d \in Calls : pc[d] = "idle"
    /\ h \in toRestore
    /\ toRestore' = toRestore \ {h}
    /\ IF Deployed(h)
       THEN UNCHANGED callVars
       ELSE /\ target' = [target EXCEPT ![c] = h]
            /\ Goto(c, "fetch")
            /\ UNCHANGED <<old, victim, fresh, stamp>>
    /\ UNCHANGED <<records, mode, routes, reqVars, env, history>>

\* Mutant: a record that cannot be restored keeps the runner from starting.
ReadyMutant ==
    /\ mode = "restoring"
    /\ toRestore = {}
    /\ \A d \in Calls : pc[d] = "idle"
    /\ \A h \in Hashes : rec[h] # "failed"
    /\ mode' = "up"
    /\ UNCHANGED <<records, toRestore, routes, callVars, reqVars, env, history>>

Ready ==
    /\ mode = "restoring"
    /\ toRestore = {}
    /\ \A d \in Calls : pc[d] = "idle"
    /\ mode' = "up"
    /\ UNCHANGED <<records, toRestore, routes, callVars, reqVars, env, history>>

Tick ==
    /\ clock < MaxClock
    /\ clock' = clock + 1
    /\ UNCHANGED <<records, mode, toRestore, routes, callVars, reqVars, deploys, crashes, faults, history>>

RestoreStep == Restart \/ Ready \/ \E c \in Calls, h \in Hashes : RestoreNext(c, h)

Init ==
    /\ rec = [h \in Hashes |-> "none"]
    /\ deployedAt = [h \in Hashes |-> 0]
    /\ placed = {}
    /\ mode = "up" /\ toRestore = {}
    /\ slot = [p \in Packages |-> None]
    /\ hash = [p \in Packages |-> None]
    /\ draining = {}
    /\ pc = [c \in Calls |-> "idle"]
    /\ target = [c \in Calls |-> None]
    /\ old = [c \in Calls |-> None]
    /\ victim = [c \in Calls |-> None]
    /\ fresh = [c \in Calls |-> None]
    /\ stamp = [c \in Calls |-> 0]
    /\ reqPc = [r \in Requests |-> "idle"]
    /\ reqBoot = [r \in Requests |-> None]
    /\ clock = 0 /\ boots = 0 /\ deploys = 0 /\ crashes = 0 /\ faults = 0
    /\ timedOut = {} /\ stopped = {}

Next ==
    \/ \E c \in Calls : CallStep(c) \/ \E h \in Hashes : Deploy(c, h) \/ Undeploy(c, h)
    \/ \E r \in Requests : Begin(r) \/ Finish(r) \/ \E p \in Packages : Admit(r, p)
    \/ RestoreStep
    \/ Crash
    \/ Tick

Spec == Init /\ [][Next]_vars

\* Every call's thread goes on, and so does the start of the runner.
FairSpec ==
    /\ Spec
    /\ \A c \in Calls : WF_vars(CallStep(c))
    /\ WF_vars(RestoreStep)

-----------------------------------------------------------------------------
(* Properties *)

CallPcs == {"idle", "fetch", "boot", "insert", "save", "place", "find", "drain",
            "remove", "unplace", "unrecord", "stop"}

DurableTypes ==
    /\ rec \in [Hashes -> {"none", "active", "failed"}]
    /\ deployedAt \in [Hashes -> Nat]
    /\ placed \subseteq Packages
    /\ mode \in {"up", "restoring", "down"}
    /\ toRestore \subseteq Hashes

RouteTypes ==
    /\ slot \in [Packages -> Nat]
    /\ hash \in [Packages -> Hashes \cup {None}]
    /\ draining \subseteq Nat \ {None}
    /\ \A p \in Packages : slot[p] # None => hash[p] \in Hashes /\ Pkg[hash[p]] = p

CallTypes ==
    /\ pc \in [Calls -> CallPcs]
    /\ target \in [Calls -> Hashes \cup {None}]
    /\ old \in [Calls -> Hashes \cup {None}]
    /\ victim \in [Calls -> Nat]
    /\ fresh \in [Calls -> Nat]
    /\ stamp \in [Calls -> Nat]
    /\ \A c \in Calls :
         /\ pc[c] \in {"fetch", "boot", "insert", "save", "place"} => target[c] # None
         /\ pc[c] \in {"insert", "save"} => fresh[c] # None
         /\ pc[c] \in {"find", "drain", "remove", "unplace", "unrecord", "stop"} => old[c] # None
         /\ pc[c] \in {"drain", "remove", "unplace", "unrecord", "stop"} => victim[c] # None

OtherTypes ==
    /\ reqPc \in [Requests -> {"idle", "admitted", "running"}]
    /\ reqBoot \in [Requests -> Nat]
    /\ clock \in Nat /\ boots \in Nat /\ deploys \in Nat
    /\ crashes \in Nat /\ faults \in Nat
    /\ timedOut \subseteq Nat /\ stopped \subseteq Nat

\* The variables have their types; a call knows what its next step needs, and
\* an agent is under the name of its hash's package.
TypeOK == DurableTypes /\ RouteTypes /\ CallTypes /\ OtherTypes

\* Two deploys of one package never overwrite each other: an agent in the
\* routing maps is taken out before another revision is put in.
NeverReplaced ==
    [][\A p \in Packages : slot[p] # None /\ slot'[p] # slot[p] => slot'[p] = None]_vars

\* An AgentStopped event is only ever written for an agent no request can be
\* routed to any more, whatever other calls do to the same package.
StoppedNotRouted == \A p \in Packages : slot[p] \notin stopped

Quiet == mode = "up" /\ \A c \in Calls : pc[c] = "idle"

\* "the agent isn't routable without a persistent deployment record (it
\* wouldn't survive a restart)": between calls, whatever failed in them.
RoutedHasRecord ==
    Quiet => \A p \in Packages : slot[p] # None => rec[hash[p]] = "active"

\* Between calls, a record that says active is backed by a routed agent, as
\* long as no store write and no boot has failed.
ActiveIsRouted ==
    Quiet /\ faults = 0 => \A h \in Hashes : rec[h] = "active" => Deployed(h)

\* Between calls, and again after every restart, the placement rows other
\* runners route by name exactly the packages routed here, as long as no write
\* has failed: a crash between two writes of a call is made good by the restore.
PlacementsMatchRoutes ==
    Quiet /\ faults = 0 => placed = {p \in Packages : slot[p] # None}

\* The restore keeps the record of the agent that was deployed when the runner
\* went down, however many store writes have failed before; only another
\* revision saved within the same second can take its place.
RestoreKeepsRouted ==
    [][Restart => \A p \in Packages :
         slot[p] # None /\ rec[hash[p]] = "active" =>
           \/ hash[p] \in toRestore'
           \/ \E g \in Hashes : /\ g # hash[p] /\ Pkg[g] = p /\ rec[g] = "active"
                                /\ deployedAt[g] = deployedAt[hash[p]]]_vars

\* Every call returns, also when the agent's requests never end.
CallsReturn == \A c \in Calls : pc[c] # "idle" ~> pc[c] = "idle"

\* The runner comes up, whatever its records and whichever of them cannot be
\* deployed any more.
StartCompletes == mode = "down" ~> mode = "up"

\* "Used by the drain mechanism to wait for all in-flight work to complete
\* before undeploying an agent": short of the timeout, an agent reported as
\* stopped has no request left.
StoppedIsIdle ==
    \A r \in Requests : reqPc[r] # "idle" => reqBoot[r] \notin stopped \ timedOut
=============================================================================
