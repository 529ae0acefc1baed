------------------------ MODULE ClusterPlacementProofs ------------------------
(* What holds of ClusterPlacement for any number of runners, requests and events. *)
EXTENDS ClusterPlacement, FiniteSetTheorems, WellFoundedInduction, TLAPS

\* A cluster at rest has the types.
LEMMA InitType == Init => TypeOK
  BY RunnersAssumption, DeployedAssumption, TtlAssumption DEF Init, TypeOK, Callers

\* The part of TypeOK an answered deploy changes.
DeployTypes ==
    /\ job \in [Jobs -> {"idle", "check", "boot", "save", "place"}]
    /\ on \in [Jobs -> Runners \cup {"none"}] /\ by \in [Jobs -> Callers]
    /\ mig \in [Runners -> {"idle", "deploy", "wait", "undeploy", "undeploying", "migrated", "failed"}]
    /\ fan \subseteq listed /\ fanok \in BOOLEAN
    /\ \A k \in Jobs : (job[k] = "idle" <=> on[k] = "none") /\ (by[k] # "none" => job[k] # "idle")

\* An answer keeps them, whoever it goes to.
LEMMA AnswerType ==
    ASSUME TypeOK, NEW j \in Jobs, NEW ok \in BOOLEAN, Answer(j, ok), UNCHANGED listed
    PROVE  DeployTypes'
<1> USE DEF Answer, TypeOK
<1>1. /\ job' \in [Jobs -> {"idle", "check", "boot", "save", "place"}]
      /\ on' \in [Jobs -> Runners \cup {"none"}] /\ by' \in [Jobs -> Callers]
  BY DEF Callers
<1>2. mig' \in [Runners -> {"idle", "deploy", "wait", "undeploy", "undeploying", "migrated", "failed"}]
  OBVIOUS
<1>3. fan' \subseteq listed'
  OBVIOUS
<1>4. fanok' \in BOOLEAN
  OBVIOUS
<1>5. \A k \in Jobs : (job'[k] = "idle" <=> on'[k] = "none") /\ (by'[k] # "none" => job'[k] # "idle")
  OBVIOUS
<1> QED BY <1>1, <1>2, <1>3, <1>4, <1>5 DEF DeployTypes

\* Who waits for whom, and how often what was called.
CallInv ==
    /\ \A r \in Runners : mig[r] # "idle" => to[r] # "none"
    /\ \A r \in Runners, j \in Jobs : by[j] = r => mig[r] = "wait" /\ to[r] = on[j]
    /\ \A j, k \in Jobs : by[j] = by[k] /\ by[j] \in Runners => j = k
    /\ \A r \in Runners : uby[r] = "self" => mig[r] = "undeploying"
    /\ \A r \in Runners : und[r] # "idle" => uby[r] # "none"
    /\ \A r \in Runners : uby[r] = "client" => undeploys > 0
    /\ \A r \in Runners : life[r] = "down" => crashes > 0
    /\ migrations = 0 => \A r \in Runners : to[r] = "none"
    /\ migrations <= 1 => \A r, s \in Runners : to[r] # "none" /\ to[s] # "none" => r = s

\* Every step keeps the types.
LEMMA TypeStep == TypeOK /\ CallInv /\ [Next]_vars => TypeOK'
<1> SUFFICES ASSUME TypeOK, CallInv, [Next]_vars PROVE TypeOK'
  OBVIOUS
<1> USE RunnersAssumption, TtlAssumption
    DEF TypeOK, Callers, Answered, placements, registry, process, deploys, undeploying, migrating, fanout,
        requests, env, jobs
<1>0. CASE UNCHANGED vars
  BY <1>0 DEF vars
<1>1. CASE Tick
  BY <1>1 DEF Tick
<1>2. ASSUME NEW r \in Runners, Heartbeat(r) PROVE TypeOK'
  BY <1>2 DEF Heartbeat
<1>3. ASSUME NEW r \in Runners, HeartbeatFails(r) PROVE TypeOK'
  BY <1>3 DEF HeartbeatFails, Fault
<1>4. ASSUME NEW r \in Runners, Ready(r) PROVE TypeOK'
  BY <1>4 DEF Ready
<1>5. ASSUME NEW j \in Jobs, AlreadyDeployed(j) PROVE TypeOK'
  BY <1>5 DEF AlreadyDeployed, Answer
<1>6. ASSUME NEW j \in Jobs, Boot(j) PROVE TypeOK'
  BY <1>6 DEF Boot
<1>7. ASSUME NEW j \in Jobs, BootFails(j) PROVE TypeOK'
  <2>1. Answer(j, FALSE) /\ UNCHANGED listed
    BY <1>7 DEF BootFails
  <2>2. DeployTypes'
    BY <2>1, AnswerType
  <2> QED BY <1>7, <2>2 DEF BootFails, Fault, DeployTypes
<1>8. ASSUME NEW j \in Jobs, SaveDeployment(j) PROVE TypeOK'
  BY <1>8 DEF SaveDeployment
<1>9. ASSUME NEW j \in Jobs, SaveFails(j) PROVE TypeOK'
  <2>1. Answer(j, FALSE) /\ UNCHANGED listed
    BY <1>9 DEF SaveFails
  <2>2. DeployTypes'
    BY <2>1, AnswerType
  <2>3. hosted' \in [Runners -> {"no", "running", "draining"}] /\ rolledback' \subseteq Runners
    BY <1>9 DEF SaveFails
  <2>4. UNCHANGED <<registry, process, undeploying, to, coord, listed, requests>> /\ faults' \in Nat
        /\ UNCHANGED <<calls, undeploys, migrations, crashes>>
    BY <1>9 DEF SaveFails, Fault
  <2> QED BY <2>2, <2>3, <2>4 DEF DeployTypes
<1>10. ASSUME NEW j \in Jobs, RecordPlacement(j) PROVE TypeOK'
  BY <1>10 DEF RecordPlacement, NewerBesides, Answer
<1>11. ASSUME NEW j \in Jobs, RecordPlacementFails(j) PROVE TypeOK'
  BY <1>11 DEF RecordPlacementFails, Answer, Fault
<1>12. ASSUME NEW r \in Runners, NotDeployed(r) PROVE TypeOK'
  BY <1>12 DEF NotDeployed, AnswerUndeploy
<1>13. ASSUME NEW r \in Runners, SetDraining(r) PROVE TypeOK'
  BY <1>13 DEF SetDraining
<1>14. ASSUME NEW r \in Runners, Unroute(r) PROVE TypeOK'
  BY <1>14 DEF Unroute
<1>15. ASSUME NEW r \in Runners, RemovePlacement(r) PROVE TypeOK'
  BY <1>15 DEF RemovePlacement, NewerBesides
<1>16. ASSUME NEW r \in Runners, RemovePlacementFails(r) PROVE TypeOK'
  BY <1>16 DEF RemovePlacementFails, Fault
<1>17. ASSUME NEW r \in Runners, RemoveDeployment(r) PROVE TypeOK'
  BY <1>17 DEF RemoveDeployment, AnswerUndeploy
<1>18. ASSUME NEW r \in Runners, RemoveFails(r) PROVE TypeOK'
  BY <1>18 DEF RemoveFails, AnswerUndeploy, Fault
<1>19. ASSUME NEW r \in Runners, MigrateDeploy(r) PROVE TypeOK'
  BY <1>19 DEF MigrateDeploy, Deploy, Begin, CallInv
<1>20. ASSUME NEW r \in Runners, MigrateUnreachable(r) PROVE TypeOK'
  BY <1>20 DEF MigrateUnreachable
<1>21. ASSUME NEW r \in Runners, MigrateTimeout(r) PROVE TypeOK'
  BY <1>21 DEF MigrateTimeout, Fault
<1>22. ASSUME NEW r \in Runners, MigrateUndeploy(r) PROVE TypeOK'
  BY <1>22 DEF MigrateUndeploy, Undeploy
<1>23. ASSUME NEW r \in Runners, FanDeploy(r) PROVE TypeOK'
  BY <1>23 DEF FanDeploy, Deploy, Begin
<1>24. ASSUME NEW r \in Runners, FanUnreachable(r) PROVE TypeOK'
  BY <1>24 DEF FanUnreachable
<1>25. ASSUME NEW r \in Runners, FanTimeout(r) PROVE TypeOK'
  <2>1. by' \in [Jobs -> Callers] /\ \A k \in Jobs : (job'[k] = "idle" <=> on'[k] = "none") /\ (by'[k] # "none" => job'[k] # "idle")
    BY <1>25 DEF FanTimeout, Fault
  <2>2. fan' \subseteq listed' /\ fanok' \in BOOLEAN
    BY <1>25 DEF FanTimeout, Fault
  <2> QED BY <1>25, <2>1, <2>2 DEF FanTimeout, Fault
<1>26. ASSUME NEW r \in Runners, PostDeploy(r) PROVE TypeOK'
  BY <1>26 DEF PostDeploy, Call, Deploy, Begin
<1>27. ASSUME NEW r \in Runners, PostUndeploy(r) PROVE TypeOK'
  BY <1>27 DEF PostUndeploy, Call, Undeploy
<1>28. ASSUME NEW r \in Runners, PostClusterDeploy(r) PROVE TypeOK'
  BY <1>28 DEF PostClusterDeploy, Call
<1>29. ASSUME NEW r \in Runners, Crash(r) PROVE TypeOK'
  BY <1>29 DEF Crash, Fanned
<1>30. ASSUME NEW r \in Runners, Restart(r) PROVE TypeOK'
  <2>1. beat' \in [Runners -> -1 .. Ttl + 1]
    BY <1>30 DEF Restart, Start, Begin, NoRow
  <2>2. /\ job' \in [Jobs -> {"idle", "check", "boot", "save", "place"}]
        /\ on' \in [Jobs -> Runners \cup {"none"}] /\ by' \in [Jobs -> Callers]
    BY <1>30 DEF Restart, Start, Begin
  <2>3. \A k \in Jobs : (job'[k] = "idle" <=> on'[k] = "none") /\ (by'[k] # "none" => job'[k] # "idle")
    BY <1>30 DEF Restart, Start, Begin
  <2> QED BY <1>30, <2>1, <2>2, <2>3 DEF Restart, Start, Begin
<1>31. ASSUME NEW r \in Runners, RestartUnswept(r) PROVE TypeOK'
  BY <1>31 DEF RestartUnswept, Start, Begin, Fault
<1>32. ASSUME NEW r \in Runners, NEW t \in Runners, PostMigrate(r, t) PROVE TypeOK'
  BY <1>32 DEF PostMigrate, Call
<1>33. ASSUME NEW r \in Runners, NEW q \in Requests, Arrive(q, r) PROVE TypeOK'
  BY <1>33 DEF Arrive
<1>34. ASSUME NEW q \in Requests, Lookup(q) PROVE TypeOK'
  BY <1>34 DEF Lookup, End
<1>35. ASSUME NEW q \in Requests, Resolve(q) PROVE TypeOK'
  BY <1>35 DEF Resolve, End
<1>36. ASSUME NEW q \in Requests, Forward(q) PROVE TypeOK'
  <2>1. rpc' \in [Requests -> {"new", "lookup", "resolve", "forward"} \cup Answered]
    BY <1>36 DEF Forward, End
  <2>2. at' \in [Requests -> Runners \cup {"none"}]
    BY <1>36 DEF Forward, End
  <2>3. via' \in [Requests -> SUBSET Runners]
    <3>1. CASE life[at[q]] = "up"
      BY <1>36, <3>1 DEF Forward
    <3>2. CASE life[at[q]] # "up"
      BY <1>36, <3>2 DEF Forward, End
    <3> QED BY <3>1, <3>2
  <2>4. \A p \in Requests : rpc'[p] \in {"lookup", "resolve", "forward"} => at'[p] # "none"
    BY <1>36 DEF Forward, End
  <2> QED BY <1>36, <2>1, <2>2, <2>3, <2>4 DEF Forward
<1>38. ASSUME NEW j \in Jobs, Fetch(j) PROVE TypeOK'
  BY <1>38 DEF Fetch
<1>37. ASSUME NEW q \in Requests, RequestFails(q) PROVE TypeOK'
  BY <1>37 DEF RequestFails, End, Fault
<1> QED
  BY <1>0, <1>1, <1>2, <1>3, <1>4, <1>5, <1>6, <1>7, <1>8, <1>9, <1>10, <1>11, <1>12, <1>13,
     <1>14, <1>15, <1>16, <1>17, <1>18, <1>19, <1>20, <1>21, <1>22, <1>23, <1>24, <1>25, <1>26,
     <1>27, <1>28, <1>29, <1>30, <1>31, <1>32, <1>33, <1>34, <1>35, <1>36, <1>37, <1>38 DEF Next,
     RunnerStep, DeployStep, UndeployStep, MigrateStep, FanStep, ClientStep, RequestStep

\* Every step keeps what callers wait for.
LEMMA CallStep == TypeOK /\ CallInv /\ [Next]_vars => CallInv'
<1> SUFFICES ASSUME TypeOK, CallInv, [Next]_vars PROVE CallInv'
  OBVIOUS
<1> USE RunnersAssumption
    DEF TypeOK, Callers, CallInv, placements, registry, process, deploys, undeploying, migrating, fanout,
        requests, env, jobs
<1>0. CASE UNCHANGED vars
  BY <1>0 DEF vars
<1>1. CASE Tick
  BY <1>1 DEF Tick
<1>2. ASSUME NEW r \in Runners, Heartbeat(r) PROVE CallInv'
  BY <1>2 DEF Heartbeat
<1>3. ASSUME NEW r \in Runners, HeartbeatFails(r) PROVE CallInv'
  BY <1>3 DEF HeartbeatFails, Fault
<1>4. ASSUME NEW r \in Runners, Ready(r) PROVE CallInv'
  BY <1>4 DEF Ready
<1>5. ASSUME NEW j \in Jobs, AlreadyDeployed(j) PROVE CallInv'
  BY <1>5 DEF AlreadyDeployed, Answer
<1>6. ASSUME NEW j \in Jobs, Boot(j) PROVE CallInv'
  BY <1>6 DEF Boot
<1>7. ASSUME NEW j \in Jobs, BootFails(j) PROVE CallInv'
  BY <1>7 DEF BootFails, Answer, Fault
<1>8. ASSUME NEW j \in Jobs, SaveDeployment(j) PROVE CallInv'
  BY <1>8 DEF SaveDeployment
<1>9. ASSUME NEW j \in Jobs, SaveFails(j) PROVE CallInv'
  BY <1>9 DEF SaveFails, Answer, Fault
<1>10. ASSUME NEW j \in Jobs, RecordPlacement(j) PROVE CallInv'
  BY <1>10 DEF RecordPlacement, Answer
<1>11. ASSUME NEW j \in Jobs, RecordPlacementFails(j) PROVE CallInv'
  BY <1>11 DEF RecordPlacementFails, Answer, Fault
<1>12. ASSUME NEW r \in Runners, NotDeployed(r) PROVE CallInv'
  BY <1>12 DEF NotDeployed, AnswerUndeploy
<1>13. ASSUME NEW r \in Runners, SetDraining(r) PROVE CallInv'
  BY <1>13 DEF SetDraining
<1>14. ASSUME NEW r \in Runners, Unroute(r) PROVE CallInv'
  BY <1>14 DEF Unroute
<1>15. ASSUME NEW r \in Runners, RemovePlacement(r) PROVE CallInv'
  BY <1>15 DEF RemovePlacement
<1>16. ASSUME NEW r \in Runners, RemovePlacementFails(r) PROVE CallInv'
  BY <1>16 DEF RemovePlacementFails, Fault
<1>17. ASSUME NEW r \in Runners, RemoveDeployment(r) PROVE CallInv'
  BY <1>17 DEF RemoveDeployment, AnswerUndeploy
<1>18. ASSUME NEW r \in Runners, RemoveFails(r) PROVE CallInv'
  BY <1>18 DEF RemoveFails, AnswerUndeploy, Fault
<1>19. ASSUME NEW r \in Runners, MigrateDeploy(r) PROVE CallInv'
  BY <1>19 DEF MigrateDeploy, Deploy, Begin
<1>20. ASSUME NEW r \in Runners, MigrateUnreachable(r) PROVE CallInv'
  BY <1>20 DEF MigrateUnreachable
<1>21. ASSUME NEW r \in Runners, MigrateTimeout(r) PROVE CallInv'
  BY <1>21 DEF MigrateTimeout, Fault
<1>22. ASSUME NEW r \in Runners, MigrateUndeploy(r) PROVE CallInv'
  BY <1>22 DEF MigrateUndeploy, Undeploy
<1>23. ASSUME NEW r \in Runners, FanDeploy(r) PROVE CallInv'
  BY <1>23 DEF FanDeploy, Deploy, Begin
<1>24. ASSUME NEW r \in Runners, FanUnreachable(r) PROVE CallInv'
  BY <1>24 DEF FanUnreachable
<1>25. ASSUME NEW r \in Runners, FanTimeout(r) PROVE CallInv'
  BY <1>25 DEF FanTimeout, Fault
<1>26. ASSUME NEW r \in Runners, PostDeploy(r) PROVE CallInv'
  BY <1>26 DEF PostDeploy, Call, Deploy, Begin
<1>27. ASSUME NEW r \in Runners, PostUndeploy(r) PROVE CallInv'
  BY <1>27 DEF PostUndeploy, Call, Undeploy
<1>28. ASSUME NEW r \in Runners, PostClusterDeploy(r) PROVE CallInv'
  BY <1>28 DEF PostClusterDeploy, Call
<1>29. ASSUME NEW r \in Runners, Crash(r) PROVE CallInv'
  <2>1. \A p \in Runners, j \in Jobs : by'[j] = p => mig'[p] = "wait" /\ to'[p] = on'[j]
    <3> SUFFICES ASSUME NEW p \in Runners, NEW j \in Jobs, by'[j] = p
                 PROVE  mig'[p] = "wait" /\ to'[p] = on'[j]
      OBVIOUS
    <3>1. by[j] = p /\ p # r /\ on[j] # r
      BY <1>29 DEF Crash
    <3>2. ~ \E k \in Jobs : on[k] = r /\ by[k] = p
      BY <3>1
    <3> QED BY <1>29, <3>1, <3>2 DEF Crash
  <2>2. \A j, k \in Jobs : by'[j] = by'[k] /\ by'[j] \in Runners => j = k
    BY <1>29 DEF Crash
  <2>3. \A p \in Runners : uby'[p] = "self" => mig'[p] = "undeploying"
    BY <1>29 DEF Crash
  <2> QED BY <1>29, <2>1, <2>2, <2>3 DEF Crash
<1>30. ASSUME NEW r \in Runners, Restart(r) PROVE CallInv'
  <2>1. /\ UNCHANGED <<mig, to, und, uby, undeploys, migrations, crashes>>
        /\ Begin(r, "restore") \/ UNCHANGED jobs
    BY <1>30 DEF Restart, Start
  <2>2. \A p \in Runners : life'[p] = "down" => life[p] = "down"
    BY <1>30 DEF Restart, Start
  <2>3. \A j \in Jobs : by'[j] \in Runners => by'[j] = by[j] /\ on'[j] = on[j]
    BY <2>1 DEF Begin
  <2> QED BY <2>1, <2>2, <2>3
<1>31. ASSUME NEW r \in Runners, RestartUnswept(r) PROVE CallInv'
  <2>1. /\ UNCHANGED <<mig, to, und, uby, undeploys, migrations, crashes>>
        /\ Begin(r, "restore") \/ UNCHANGED jobs
    BY <1>31 DEF RestartUnswept, Start, Fault
  <2>2. \A p \in Runners : life'[p] = "down" => life[p] = "down"
    BY <1>31 DEF RestartUnswept, Start, Fault
  <2>3. \A j \in Jobs : by'[j] \in Runners => by'[j] = by[j] /\ on'[j] = on[j]
    BY <2>1 DEF Begin
  <2> QED BY <2>1, <2>2, <2>3
<1>32. ASSUME NEW r \in Runners, NEW t \in Runners, PostMigrate(r, t) PROVE CallInv'
  BY <1>32 DEF PostMigrate, Call
<1>33. ASSUME NEW r \in Runners, NEW q \in Requests, Arrive(q, r) PROVE CallInv'
  BY <1>33 DEF Arrive
<1>34. ASSUME NEW q \in Requests, Lookup(q) PROVE CallInv'
  BY <1>34 DEF Lookup
<1>35. ASSUME NEW q \in Requests, Resolve(q) PROVE CallInv'
  BY <1>35 DEF Resolve
<1>36. ASSUME NEW q \in Requests, Forward(q) PROVE CallInv'
  BY <1>36 DEF Forward
<1>38. ASSUME NEW j \in Jobs, Fetch(j) PROVE CallInv'
  BY <1>38 DEF Fetch
<1>37. ASSUME NEW q \in Requests, RequestFails(q) PROVE CallInv'
  BY <1>37 DEF RequestFails, Fault
<1> QED
  BY <1>0, <1>1, <1>2, <1>3, <1>4, <1>5, <1>6, <1>7, <1>8, <1>9, <1>10, <1>11, <1>12, <1>13,
     <1>14, <1>15, <1>16, <1>17, <1>18, <1>19, <1>20, <1>21, <1>22, <1>23, <1>24, <1>25, <1>26,
     <1>27, <1>28, <1>29, <1>30, <1>31, <1>32, <1>33, <1>34, <1>35, <1>36, <1>37, <1>38 DEF Next,
     RunnerStep, DeployStep, UndeployStep, MigrateStep, FanStep, ClientStep, RequestStep

\* At first nobody waits for anything.
LEMMA InitCall == Init => CallInv
  BY RunnersAssumption DEF Init, CallInv

\* The types hold on every cluster, however many runners it has and deploys go on.
THEOREM TypeCorrect == Spec => []TypeOK
<1>1. Init => TypeOK /\ CallInv
  BY InitType, InitCall
<1>2. TypeOK /\ CallInv /\ [Next]_vars => (TypeOK /\ CallInv)'
  BY TypeStep, CallStep
<1> QED BY <1>1, <1>2, PTL DEF Spec

-----------------------------------------------------------------------------
(* Migration *)

\* The agent is on t, and saved unless it is about to be.
Served(t) == hosted[t] = "running" /\ (t \in record \/ Saving(t))

\* Deploys that have inserted the agent on r.
Inserted(r) == {j \in Jobs : on[j] = r /\ job[j] \in {"save", "place"}}

\* Nothing undeploys the agent on r: only the deploy that inserted it may take it off again,
\* and has not saved it yet.
Settled(r) ==
    /\ und[r] = "idle" /\ hosted[r] # "draining"
    /\ hosted[r] = "no" => r \notin record /\ Inserted(r) = {}
    /\ hosted[r] = "running" => r \in record \/ Saving(r)
    /\ \A j \in Inserted(r) : job[j] = "save" => r \notin record /\ Inserted(r) = {j}

\* A runner that is being left, or was, has the agent on its target.
ServeInv ==
    Undisturbed =>
        /\ \A r \in Runners : Settled(r) \/ (to[r] \in Runners /\ Served(to[r]))
        /\ \A r \in Runners : mig[r] \in {"undeploy", "undeploying"} => Served(to[r])

\* Only a deploy that is rolled back takes the agent off a runner that nothing undeploys.
LEMMA ServedKept ==
    ASSUME TypeOK, [Next]_vars, NEW x \in Runners, Served(x), und[x] = "idle", crashes' = crashes,
           ~ Saving(x) \/ x \notin rolledback'
    PROVE  Served(x)' /\ (x \in record => x \in record')
<1> DEFINE Stays == Served(x)' /\ (x \in record => x \in record')
<1> USE RunnersAssumption
    DEF TypeOK, Callers, Served, Saving, placements, registry, process, deploys, undeploying, migrating, fanout,
        requests, env, jobs
<1>0. CASE UNCHANGED vars
  BY <1>0 DEF vars
<1>1. CASE Tick
  BY <1>1 DEF Tick
<1>2. ASSUME NEW r \in Runners, Heartbeat(r) PROVE Stays
  BY <1>2 DEF Heartbeat
<1>3. ASSUME NEW r \in Runners, HeartbeatFails(r) PROVE Stays
  BY <1>3 DEF HeartbeatFails, Fault
<1>4. ASSUME NEW r \in Runners, Ready(r) PROVE Stays
  BY <1>4 DEF Ready
<1>5. ASSUME NEW j \in Jobs, AlreadyDeployed(j) PROVE Stays
  BY <1>5 DEF AlreadyDeployed, Answer
<1>6. ASSUME NEW j \in Jobs, Boot(j) PROVE Stays
  BY <1>6 DEF Boot
<1>7. ASSUME NEW j \in Jobs, BootFails(j) PROVE Stays
  BY <1>7 DEF BootFails, Answer, Fault
<1>8. ASSUME NEW j \in Jobs, SaveDeployment(j) PROVE Stays
  BY <1>8 DEF SaveDeployment
<1>9. ASSUME NEW j \in Jobs, SaveFails(j) PROVE Stays
  BY <1>9 DEF SaveFails, Answer, Fault
<1>10. ASSUME NEW j \in Jobs, RecordPlacement(j) PROVE Stays
  BY <1>10 DEF RecordPlacement, Answer
<1>11. ASSUME NEW j \in Jobs, RecordPlacementFails(j) PROVE Stays
  BY <1>11 DEF RecordPlacementFails, Answer, Fault
<1>12. ASSUME NEW r \in Runners, NotDeployed(r) PROVE Stays
  BY <1>12 DEF NotDeployed, AnswerUndeploy
<1>13. ASSUME NEW r \in Runners, SetDraining(r) PROVE Stays
  BY <1>13 DEF SetDraining
<1>14. ASSUME NEW r \in Runners, Unroute(r) PROVE Stays
  BY <1>14 DEF Unroute
<1>15. ASSUME NEW r \in Runners, RemovePlacement(r) PROVE Stays
  BY <1>15 DEF RemovePlacement
<1>16. ASSUME NEW r \in Runners, RemovePlacementFails(r) PROVE Stays
  BY <1>16 DEF RemovePlacementFails, Fault
<1>17. ASSUME NEW r \in Runners, RemoveDeployment(r) PROVE Stays
  BY <1>17 DEF RemoveDeployment, AnswerUndeploy
<1>18. ASSUME NEW r \in Runners, RemoveFails(r) PROVE Stays
  BY <1>18 DEF RemoveFails, AnswerUndeploy, Fault
<1>19. ASSUME NEW r \in Runners, MigrateDeploy(r) PROVE Stays
  BY <1>19 DEF MigrateDeploy, Deploy, Begin
<1>20. ASSUME NEW r \in Runners, MigrateUnreachable(r) PROVE Stays
  BY <1>20 DEF MigrateUnreachable
<1>21. ASSUME NEW r \in Runners, MigrateTimeout(r) PROVE Stays
  BY <1>21 DEF MigrateTimeout, Fault
<1>22. ASSUME NEW r \in Runners, MigrateUndeploy(r) PROVE Stays
  BY <1>22 DEF MigrateUndeploy, Undeploy
<1>23. ASSUME NEW r \in Runners, FanDeploy(r) PROVE Stays
  BY <1>23 DEF FanDeploy, Deploy, Begin
<1>24. ASSUME NEW r \in Runners, FanUnreachable(r) PROVE Stays
  BY <1>24 DEF FanUnreachable
<1>25. ASSUME NEW r \in Runners, FanTimeout(r) PROVE Stays
  BY <1>25 DEF FanTimeout, Fault
<1>26. ASSUME NEW r \in Runners, PostDeploy(r) PROVE Stays
  BY <1>26 DEF PostDeploy, Call, Deploy, Begin
<1>27. ASSUME NEW r \in Runners, PostUndeploy(r) PROVE Stays
  BY <1>27 DEF PostUndeploy, Call, Undeploy
<1>28. ASSUME NEW r \in Runners, PostClusterDeploy(r) PROVE Stays
  BY <1>28 DEF PostClusterDeploy, Call
<1>29. ASSUME NEW r \in Runners, Crash(r) PROVE Stays
  BY <1>29 DEF Crash, Fanned
<1>30. ASSUME NEW r \in Runners, Restart(r) PROVE Stays
  BY <1>30 DEF Restart, Start, Begin
<1>31. ASSUME NEW r \in Runners, RestartUnswept(r) PROVE Stays
  BY <1>31 DEF RestartUnswept, Start, Begin, Fault
<1>32. ASSUME NEW r \in Runners, NEW t \in Runners, PostMigrate(r, t) PROVE Stays
  BY <1>32 DEF PostMigrate, Call
<1>33. ASSUME NEW r \in Runners, NEW q \in Requests, Arrive(q, r) PROVE Stays
  BY <1>33 DEF Arrive
<1>34. ASSUME NEW q \in Requests, Lookup(q) PROVE Stays
  BY <1>34 DEF Lookup
<1>35. ASSUME NEW q \in Requests, Resolve(q) PROVE Stays
  BY <1>35 DEF Resolve
<1>36. ASSUME NEW q \in Requests, Forward(q) PROVE Stays
  BY <1>36 DEF Forward
<1>38. ASSUME NEW j \in Jobs, Fetch(j) PROVE Stays
  BY <1>38 DEF Fetch
<1>37. ASSUME NEW q \in Requests, RequestFails(q) PROVE Stays
  BY <1>37 DEF RequestFails, Fault
<1> QED
  BY <1>0, <1>1, <1>2, <1>3, <1>4, <1>5, <1>6, <1>7, <1>8, <1>9, <1>10, <1>11, <1>12, <1>13,
     <1>14, <1>15, <1>16, <1>17, <1>18, <1>19, <1>20, <1>21, <1>22, <1>23, <1>24, <1>25, <1>26,
     <1>27, <1>28, <1>29, <1>30, <1>31, <1>32, <1>33, <1>34, <1>35, <1>36, <1>37, <1>38 DEF Next,
     RunnerStep, DeployStep, UndeployStep, MigrateStep, FanStep, ClientStep, RequestStep

\* What disturbs a migration does so for ever, and an undisturbed one keeps its target.
LEMMA UndisturbedBefore ==
    ASSUME TypeOK, CallInv, [Next]_vars, Undisturbed'
    PROVE  /\ Undisturbed /\ crashes' = crashes
           /\ \A x \in Runners : to[x] \in Runners => to'[x] = to[x]
<1> DEFINE Before == /\ Undisturbed /\ crashes' = crashes
                     /\ \A x \in Runners : to[x] \in Runners => to'[x] = to[x]
<1> USE RunnersAssumption
    DEF TypeOK, CallInv, Undisturbed, placements, registry, process, deploys, undeploying, migrating, fanout,
        requests, env, jobs
<1>0. CASE UNCHANGED vars
  BY <1>0 DEF vars
<1>1. CASE Tick
  BY <1>1 DEF Tick
<1>2. ASSUME NEW r \in Runners, Heartbeat(r) PROVE Before
  BY <1>2 DEF Heartbeat
<1>3. ASSUME NEW r \in Runners, HeartbeatFails(r) PROVE Before
  BY <1>3 DEF HeartbeatFails, Fault
<1>4. ASSUME NEW r \in Runners, Ready(r) PROVE Before
  BY <1>4 DEF Ready
<1>5. ASSUME NEW j \in Jobs, AlreadyDeployed(j) PROVE Before
  BY <1>5 DEF AlreadyDeployed, Answer
<1>6. ASSUME NEW j \in Jobs, Boot(j) PROVE Before
  BY <1>6 DEF Boot
<1>7. ASSUME NEW j \in Jobs, BootFails(j) PROVE Before
  BY <1>7 DEF BootFails, Answer, Fault
<1>8. ASSUME NEW j \in Jobs, SaveDeployment(j) PROVE Before
  BY <1>8 DEF SaveDeployment
<1>9. ASSUME NEW j \in Jobs, SaveFails(j) PROVE Before
  BY <1>9 DEF SaveFails, Answer, Fault
<1>10. ASSUME NEW j \in Jobs, RecordPlacement(j) PROVE Before
  BY <1>10 DEF RecordPlacement, Answer
<1>11. ASSUME NEW j \in Jobs, RecordPlacementFails(j) PROVE Before
  BY <1>11 DEF RecordPlacementFails, Answer, Fault
<1>12. ASSUME NEW r \in Runners, NotDeployed(r) PROVE Before
  BY <1>12 DEF NotDeployed, AnswerUndeploy
<1>13. ASSUME NEW r \in Runners, SetDraining(r) PROVE Before
  BY <1>13 DEF SetDraining
<1>14. ASSUME NEW r \in Runners, Unroute(r) PROVE Before
  BY <1>14 DEF Unroute
<1>15. ASSUME NEW r \in Runners, RemovePlacement(r) PROVE Before
  BY <1>15 DEF RemovePlacement
<1>16. ASSUME NEW r \in Runners, RemovePlacementFails(r) PROVE Before
  BY <1>16 DEF RemovePlacementFails, Fault
<1>17. ASSUME NEW r \in Runners, RemoveDeployment(r) PROVE Before
  BY <1>17 DEF RemoveDeployment, AnswerUndeploy
<1>18. ASSUME NEW r \in Runners, RemoveFails(r) PROVE Before
  BY <1>18 DEF RemoveFails, AnswerUndeploy, Fault
<1>19. ASSUME NEW r \in Runners, MigrateDeploy(r) PROVE Before
  BY <1>19 DEF MigrateDeploy, Deploy, Begin
<1>20. ASSUME NEW r \in Runners, MigrateUnreachable(r) PROVE Before
  BY <1>20 DEF MigrateUnreachable
<1>21. ASSUME NEW r \in Runners, MigrateTimeout(r) PROVE Before
  BY <1>21 DEF MigrateTimeout, Fault
<1>22. ASSUME NEW r \in Runners, MigrateUndeploy(r) PROVE Before
  BY <1>22 DEF MigrateUndeploy, Undeploy
<1>23. ASSUME NEW r \in Runners, FanDeploy(r) PROVE Before
  BY <1>23 DEF FanDeploy, Deploy, Begin
<1>24. ASSUME NEW r \in Runners, FanUnreachable(r) PROVE Before
  BY <1>24 DEF FanUnreachable
<1>25. ASSUME NEW r \in Runners, FanTimeout(r) PROVE Before
  BY <1>25 DEF FanTimeout, Fault
<1>26. ASSUME NEW r \in Runners, PostDeploy(r) PROVE Before
  BY <1>26 DEF PostDeploy, Call, Deploy, Begin
<1>27. ASSUME NEW r \in Runners, PostUndeploy(r) PROVE Before
  BY <1>27 DEF PostUndeploy, Call, Undeploy
<1>28. ASSUME NEW r \in Runners, PostClusterDeploy(r) PROVE Before
  BY <1>28 DEF PostClusterDeploy, Call
<1>29. ASSUME NEW r \in Runners, Crash(r) PROVE Before
  BY <1>29 DEF Crash, Fanned
<1>30. ASSUME NEW r \in Runners, Restart(r) PROVE Before
  BY <1>30 DEF Restart, Start, Begin
<1>31. ASSUME NEW r \in Runners, RestartUnswept(r) PROVE Before
  BY <1>31 DEF RestartUnswept, Start, Begin, Fault
<1>32. ASSUME NEW r \in Runners, NEW t \in Runners, PostMigrate(r, t) PROVE Before
  BY <1>32 DEF PostMigrate, Call
<1>33. ASSUME NEW r \in Runners, NEW q \in Requests, Arrive(q, r) PROVE Before
  BY <1>33 DEF Arrive
<1>34. ASSUME NEW q \in Requests, Lookup(q) PROVE Before
  BY <1>34 DEF Lookup
<1>35. ASSUME NEW q \in Requests, Resolve(q) PROVE Before
  BY <1>35 DEF Resolve
<1>36. ASSUME NEW q \in Requests, Forward(q) PROVE Before
  BY <1>36 DEF Forward
<1>38. ASSUME NEW j \in Jobs, Fetch(j) PROVE Before
  BY <1>38 DEF Fetch
<1>37. ASSUME NEW q \in Requests, RequestFails(q) PROVE Before
  BY <1>37 DEF RequestFails, Fault
<1> QED
  BY <1>0, <1>1, <1>2, <1>3, <1>4, <1>5, <1>6, <1>7, <1>8, <1>9, <1>10, <1>11, <1>12, <1>13,
     <1>14, <1>15, <1>16, <1>17, <1>18, <1>19, <1>20, <1>21, <1>22, <1>23, <1>24, <1>25, <1>26,
     <1>27, <1>28, <1>29, <1>30, <1>31, <1>32, <1>33, <1>34, <1>35, <1>36, <1>37, <1>38 DEF Next,
     RunnerStep, DeployStep, UndeployStep, MigrateStep, FanStep, ClientStep, RequestStep

\* The target of the only migration is not being left.
LEMMA TargetStays ==
    ASSUME TypeOK, CallInv, Undisturbed, NEW r \in Runners, to[r] \in Runners
    PROVE  und[to[r]] = "idle" /\ to[to[r]] = "none"
<1>1. to[to[r]] = "none"
  BY RunnersAssumption DEF TypeOK, CallInv, Undisturbed
<1>2. mig[to[r]] = "idle"
  BY <1>1 DEF TypeOK, CallInv
<1>3. uby[to[r]] = "none"
  BY <1>2 DEF TypeOK, CallInv, Undisturbed
<1> QED BY <1>1, <1>3 DEF TypeOK, CallInv

\* Only the last half of a migration starts to take the agent off a runner.
LEMMA SettledKept ==
    ASSUME TypeOK, CallInv, [Next]_vars, NEW x \in Runners, Settled(x), Undisturbed'
    PROVE  Settled(x)' \/ (mig[x] = "undeploy" /\ to[x] \in Runners)
<1> DEFINE Kept == Settled(x)' \/ (mig[x] = "undeploy" /\ to[x] \in Runners)
<1> USE RunnersAssumption, UndisturbedBefore
    DEF TypeOK, CallInv, Settled, Saving, Inserted, placements, registry, process, deploys, undeploying, migrating, fanout,
        requests, env, jobs
<1>0. CASE UNCHANGED vars
  BY <1>0 DEF vars
<1>1. CASE Tick
  BY <1>1 DEF Tick
<1>2. ASSUME NEW r \in Runners, Heartbeat(r) PROVE Kept
  BY <1>2 DEF Heartbeat
<1>3. ASSUME NEW r \in Runners, HeartbeatFails(r) PROVE Kept
  BY <1>3 DEF HeartbeatFails, Fault
<1>4. ASSUME NEW r \in Runners, Ready(r) PROVE Kept
  BY <1>4 DEF Ready
<1>5. ASSUME NEW j \in Jobs, AlreadyDeployed(j) PROVE Kept
  BY <1>5 DEF AlreadyDeployed, Answer
<1>6. ASSUME NEW j \in Jobs, Boot(j) PROVE Kept
  BY <1>6 DEF Boot
<1>7. ASSUME NEW j \in Jobs, BootFails(j) PROVE Kept
  BY <1>7 DEF BootFails, Answer, Fault
<1>8. ASSUME NEW j \in Jobs, SaveDeployment(j) PROVE Kept
  BY <1>8 DEF SaveDeployment
<1>9. ASSUME NEW j \in Jobs, SaveFails(j) PROVE Kept
  BY <1>9 DEF SaveFails, Answer, Fault
<1>10. ASSUME NEW j \in Jobs, RecordPlacement(j) PROVE Kept
  BY <1>10 DEF RecordPlacement, Answer
<1>11. ASSUME NEW j \in Jobs, RecordPlacementFails(j) PROVE Kept
  BY <1>11 DEF RecordPlacementFails, Answer, Fault
<1>12. ASSUME NEW r \in Runners, NotDeployed(r) PROVE Kept
  BY <1>12 DEF NotDeployed, AnswerUndeploy
<1>13. ASSUME NEW r \in Runners, SetDraining(r) PROVE Kept
  BY <1>13 DEF SetDraining
<1>14. ASSUME NEW r \in Runners, Unroute(r) PROVE Kept
  BY <1>14 DEF Unroute
<1>15. ASSUME NEW r \in Runners, RemovePlacement(r) PROVE Kept
  BY <1>15 DEF RemovePlacement
<1>16. ASSUME NEW r \in Runners, RemovePlacementFails(r) PROVE Kept
  BY <1>16 DEF RemovePlacementFails, Fault
<1>17. ASSUME NEW r \in Runners, RemoveDeployment(r) PROVE Kept
  BY <1>17 DEF RemoveDeployment, AnswerUndeploy
<1>18. ASSUME NEW r \in Runners, RemoveFails(r) PROVE Kept
  BY <1>18 DEF RemoveFails, AnswerUndeploy, Fault
<1>19. ASSUME NEW r \in Runners, MigrateDeploy(r) PROVE Kept
  BY <1>19 DEF MigrateDeploy, Deploy, Begin
<1>20. ASSUME NEW r \in Runners, MigrateUnreachable(r) PROVE Kept
  BY <1>20 DEF MigrateUnreachable
<1>21. ASSUME NEW r \in Runners, MigrateTimeout(r) PROVE Kept
  BY <1>21 DEF MigrateTimeout, Fault
<1>22. ASSUME NEW r \in Runners, MigrateUndeploy(r) PROVE Kept
  BY <1>22 DEF MigrateUndeploy, Undeploy
<1>23. ASSUME NEW r \in Runners, FanDeploy(r) PROVE Kept
  BY <1>23 DEF FanDeploy, Deploy, Begin
<1>24. ASSUME NEW r \in Runners, FanUnreachable(r) PROVE Kept
  BY <1>24 DEF FanUnreachable
<1>25. ASSUME NEW r \in Runners, FanTimeout(r) PROVE Kept
  BY <1>25 DEF FanTimeout, Fault
<1>26. ASSUME NEW r \in Runners, PostDeploy(r) PROVE Kept
  BY <1>26 DEF PostDeploy, Call, Deploy, Begin
<1>27. ASSUME NEW r \in Runners, PostUndeploy(r) PROVE Kept
  BY <1>27 DEF PostUndeploy, Undisturbed
<1>28. ASSUME NEW r \in Runners, PostClusterDeploy(r) PROVE Kept
  BY <1>28 DEF PostClusterDeploy, Call
<1>29. ASSUME NEW r \in Runners, Crash(r) PROVE Kept
  BY <1>29 DEF Crash, Fanned
<1>30. ASSUME NEW r \in Runners, Restart(r) PROVE Kept
  <2>1. life[r] = "down"
    BY <1>30 DEF Restart, Start
  <2> QED BY <2>1 DEF Undisturbed
<1>31. ASSUME NEW r \in Runners, RestartUnswept(r) PROVE Kept
  <2>1. life[r] = "down"
    BY <1>31 DEF RestartUnswept, Start, Fault
  <2> QED BY <2>1 DEF Undisturbed
<1>32. ASSUME NEW r \in Runners, NEW t \in Runners, PostMigrate(r, t) PROVE Kept
  BY <1>32 DEF PostMigrate, Call
<1>33. ASSUME NEW r \in Runners, NEW q \in Requests, Arrive(q, r) PROVE Kept
  BY <1>33 DEF Arrive
<1>34. ASSUME NEW q \in Requests, Lookup(q) PROVE Kept
  BY <1>34 DEF Lookup
<1>35. ASSUME NEW q \in Requests, Resolve(q) PROVE Kept
  BY <1>35 DEF Resolve
<1>36. ASSUME NEW q \in Requests, Forward(q) PROVE Kept
  BY <1>36 DEF Forward
<1>38. ASSUME NEW j \in Jobs, Fetch(j) PROVE Kept
  BY <1>38 DEF Fetch
<1>37. ASSUME NEW q \in Requests, RequestFails(q) PROVE Kept
  BY <1>37 DEF RequestFails, Fault
<1> QED
  BY <1>0, <1>1, <1>2, <1>3, <1>4, <1>5, <1>6, <1>7, <1>8, <1>9, <1>10, <1>11, <1>12, <1>13,
     <1>14, <1>15, <1>16, <1>17, <1>18, <1>19, <1>20, <1>21, <1>22, <1>23, <1>24, <1>25, <1>26,
     <1>27, <1>28, <1>29, <1>30, <1>31, <1>32, <1>33, <1>34, <1>35, <1>36, <1>37, <1>38 DEF Next,
     RunnerStep, DeployStep, UndeployStep, MigrateStep, FanStep, ClientStep, RequestStep

\* What a deploy on x that succeeds has seen.
Succeeds(x) == hosted[x] # "no" \/ \E j \in Inserted(x) : job[j] = "place"

\* A migration comes to its last half only when the target has answered.
LEMMA HalfWay ==
    ASSUME TypeOK, CallInv, [Next]_vars, NEW x \in Runners, mig'[x] \in {"undeploy", "undeploying"}
    PROVE  \/ mig[x] \in {"undeploy", "undeploying"}
           \/ to[x] \in Runners /\ Succeeds(to[x])
<1> DEFINE Answering ==
        \/ mig[x] \in {"undeploy", "undeploying"}
        \/ to[x] \in Runners /\ Succeeds(to[x])
<1> USE RunnersAssumption
    DEF TypeOK, Callers, CallInv, Succeeds, Inserted, placements, registry, process, deploys, undeploying, migrating, fanout,
        requests, env, jobs
<1>0. CASE UNCHANGED vars
  BY <1>0 DEF vars
<1>1. CASE Tick
  BY <1>1 DEF Tick
<1>2. ASSUME NEW r \in Runners, Heartbeat(r) PROVE Answering
  BY <1>2 DEF Heartbeat
<1>3. ASSUME NEW r \in Runners, HeartbeatFails(r) PROVE Answering
  BY <1>3 DEF HeartbeatFails, Fault
<1>4. ASSUME NEW r \in Runners, Ready(r) PROVE Answering
  BY <1>4 DEF Ready
<1>5. ASSUME NEW j \in Jobs, AlreadyDeployed(j) PROVE Answering
  BY <1>5 DEF AlreadyDeployed, Answer
<1>6. ASSUME NEW j \in Jobs, Boot(j) PROVE Answering
  BY <1>6 DEF Boot
<1>7. ASSUME NEW j \in Jobs, BootFails(j) PROVE Answering
  BY <1>7 DEF BootFails, Answer, Fault
<1>8. ASSUME NEW j \in Jobs, SaveDeployment(j) PROVE Answering
  BY <1>8 DEF SaveDeployment
<1>9. ASSUME NEW j \in Jobs, SaveFails(j) PROVE Answering
  BY <1>9 DEF SaveFails, Answer, Fault
<1>10. ASSUME NEW j \in Jobs, RecordPlacement(j) PROVE Answering
  BY <1>10 DEF RecordPlacement, Answer
<1>11. ASSUME NEW j \in Jobs, RecordPlacementFails(j) PROVE Answering
  BY <1>11 DEF RecordPlacementFails, Answer, Fault
<1>12. ASSUME NEW r \in Runners, NotDeployed(r) PROVE Answering
  BY <1>12 DEF NotDeployed, AnswerUndeploy
<1>13. ASSUME NEW r \in Runners, SetDraining(r) PROVE Answering
  BY <1>13 DEF SetDraining
<1>14. ASSUME NEW r \in Runners, Unroute(r) PROVE Answering
  BY <1>14 DEF Unroute
<1>15. ASSUME NEW r \in Runners, RemovePlacement(r) PROVE Answering
  BY <1>15 DEF RemovePlacement
<1>16. ASSUME NEW r \in Runners, RemovePlacementFails(r) PROVE Answering
  BY <1>16 DEF RemovePlacementFails, Fault
<1>17. ASSUME NEW r \in Runners, RemoveDeployment(r) PROVE Answering
  BY <1>17 DEF RemoveDeployment, AnswerUndeploy
<1>18. ASSUME NEW r \in Runners, RemoveFails(r) PROVE Answering
  BY <1>18 DEF RemoveFails, AnswerUndeploy, Fault
<1>19. ASSUME NEW r \in Runners, MigrateDeploy(r) PROVE Answering
  BY <1>19 DEF MigrateDeploy, Deploy, Begin
<1>20. ASSUME NEW r \in Runners, MigrateUnreachable(r) PROVE Answering
  BY <1>20 DEF MigrateUnreachable
<1>21. ASSUME NEW r \in Runners, MigrateTimeout(r) PROVE Answering
  BY <1>21 DEF MigrateTimeout, Fault
<1>22. ASSUME NEW r \in Runners, MigrateUndeploy(r) PROVE Answering
  BY <1>22 DEF MigrateUndeploy, Undeploy
<1>23. ASSUME NEW r \in Runners, FanDeploy(r) PROVE Answering
  BY <1>23 DEF FanDeploy, Deploy, Begin
<1>24. ASSUME NEW r \in Runners, FanUnreachable(r) PROVE Answering
  BY <1>24 DEF FanUnreachable
<1>25. ASSUME NEW r \in Runners, FanTimeout(r) PROVE Answering
  BY <1>25 DEF FanTimeout, Fault
<1>26. ASSUME NEW r \in Runners, PostDeploy(r) PROVE Answering
  BY <1>26 DEF PostDeploy, Call, Deploy, Begin
<1>27. ASSUME NEW r \in Runners, PostUndeploy(r) PROVE Answering
  BY <1>27 DEF PostUndeploy, Call, Undeploy
<1>28. ASSUME NEW r \in Runners, PostClusterDeploy(r) PROVE Answering
  BY <1>28 DEF PostClusterDeploy, Call
<1>29. ASSUME NEW r \in Runners, Crash(r) PROVE Answering
  BY <1>29 DEF Crash, Fanned
<1>30. ASSUME NEW r \in Runners, Restart(r) PROVE Answering
  BY <1>30 DEF Restart, Start, Begin
<1>31. ASSUME NEW r \in Runners, RestartUnswept(r) PROVE Answering
  BY <1>31 DEF RestartUnswept, Start, Begin, Fault
<1>32. ASSUME NEW r \in Runners, NEW t \in Runners, PostMigrate(r, t) PROVE Answering
  BY <1>32 DEF PostMigrate, Call
<1>33. ASSUME NEW r \in Runners, NEW q \in Requests, Arrive(q, r) PROVE Answering
  BY <1>33 DEF Arrive
<1>34. ASSUME NEW q \in Requests, Lookup(q) PROVE Answering
  BY <1>34 DEF Lookup
<1>35. ASSUME NEW q \in Requests, Resolve(q) PROVE Answering
  BY <1>35 DEF Resolve
<1>36. ASSUME NEW q \in Requests, Forward(q) PROVE Answering
  BY <1>36 DEF Forward
<1>38. ASSUME NEW j \in Jobs, Fetch(j) PROVE Answering
  BY <1>38 DEF Fetch
<1>37. ASSUME NEW q \in Requests, RequestFails(q) PROVE Answering
  BY <1>37 DEF RequestFails, Fault
<1> QED
  BY <1>0, <1>1, <1>2, <1>3, <1>4, <1>5, <1>6, <1>7, <1>8, <1>9, <1>10, <1>11, <1>12, <1>13,
     <1>14, <1>15, <1>16, <1>17, <1>18, <1>19, <1>20, <1>21, <1>22, <1>23, <1>24, <1>25, <1>26,
     <1>27, <1>28, <1>29, <1>30, <1>31, <1>32, <1>33, <1>34, <1>35, <1>36, <1>37, <1>38 DEF Next,
     RunnerStep, DeployStep, UndeployStep, MigrateStep, FanStep, ClientStep, RequestStep

\* Every step keeps the agent on the target of a migration that has come to its last half.
LEMMA ServeStep == TypeOK /\ CallInv /\ ServeInv /\ [Next]_vars => ServeInv'
<1> SUFFICES ASSUME TypeOK, CallInv, ServeInv, [Next]_vars, Undisturbed'
             PROVE  /\ \A r \in Runners : Settled(r)' \/ (to'[r] \in Runners /\ Served(to[r])')
                    /\ \A r \in Runners : mig'[r] \in {"undeploy", "undeploying"} => Served(to[r])'
  BY DEF ServeInv
<1>1. Undisturbed /\ crashes' = crashes
  BY UndisturbedBefore
<1>2. ASSUME NEW r \in Runners, to[r] \in Runners, Served(to[r])
      PROVE  to'[r] = to[r] /\ Served(to[r])'
  <2>1. to'[r] = to[r] /\ to[r] \notin rolledback'
    BY <1>2, UndisturbedBefore DEF Undisturbed
  <2>2. PICK t \in Runners : t = to[r]
    BY <1>2
  <2>3. und[t] = "idle" /\ Served(t)
    BY <1>1, <1>2, <2>2, TargetStays
  <2>4. Served(t)'
    BY <1>1, <2>1, <2>2, <2>3, ServedKept
  <2> QED BY <2>1, <2>2, <2>4 DEF Served, Saving
<1>3. ASSUME NEW r \in Runners PROVE Settled(r)' \/ (to'[r] \in Runners /\ Served(to[r])')
  <2>1. CASE Settled(r)
    <3>1. CASE mig[r] = "undeploy" /\ to[r] \in Runners
      BY <1>1, <1>2, <3>1 DEF ServeInv
    <3> QED BY <2>1, <3>1, SettledKept
  <2>2. CASE to[r] \in Runners /\ Served(to[r])
    BY <1>2, <2>2
  <2> QED BY <1>1, <2>1, <2>2 DEF ServeInv
<1>4. ASSUME NEW r \in Runners, mig'[r] \in {"undeploy", "undeploying"} PROVE Served(to[r])'
  <2>1. CASE mig[r] \in {"undeploy", "undeploying"}
    <3>1. to[r] \in Runners /\ Served(to[r])
      BY <1>1, <2>1 DEF ServeInv, CallInv, TypeOK
    <3> QED BY <1>2, <3>1
  <2>2. CASE to[r] \in Runners /\ Succeeds(to[r])
    <3>1. to[to[r]] = "none"
      BY <1>1, <2>2, TargetStays
    <3>2. Settled(to[r])
      BY <1>1, <2>2, <3>1, RunnersAssumption DEF ServeInv
    <3>3. Served(to[r])
      BY <2>2, <3>2 DEF Settled, Served, Succeeds, TypeOK
    <3> QED BY <1>2, <2>2, <3>3
  <2> QED BY <1>4, <2>1, <2>2, HalfWay
<1> QED BY <1>3, <1>4

\* At first nothing is under way.
LEMMA InitServe == Init => CallInv /\ ServeInv
<1> SUFFICES ASSUME Init PROVE CallInv /\ ServeInv
  OBVIOUS
<1>1. CallInv
  BY InitCall
<1>2. \A r \in Runners : Settled(r)
  BY RunnersAssumption DEF Init, Settled, Inserted
<1>3. \A r \in Runners : mig[r] = "idle"
  BY DEF Init
<1> QED BY <1>1, <1>2, <1>3 DEF ServeInv

\* A migration keeps the agent for any number of runners, of deploys beside it and of failures.
THEOREM MigrationIsSafe == Spec => MigrationKeepsAgent
<1>1. Init => TypeOK /\ CallInv /\ ServeInv
  BY InitType, InitServe
<1>2. TypeOK /\ CallInv /\ ServeInv /\ [Next]_vars => (TypeOK /\ CallInv /\ ServeInv)'
  BY TypeStep, CallStep, ServeStep
<1>3. TypeOK /\ CallInv /\ ServeInv /\ [Next]_vars => [Undisturbed' /\ Alive => Alive']_vars
  <2> SUFFICES ASSUME TypeOK, CallInv, ServeInv, [Next]_vars, Undisturbed', Alive
               PROVE  Alive'
    OBVIOUS
  <2>1. Undisturbed /\ crashes' = crashes
    BY UndisturbedBefore
  <2>2. ASSUME NEW s \in Runners, NEW t \in Runners, to[s] = t, Served(t)
        PROVE  Alive'
    <3>1. to'[s] = t /\ t \notin rolledback'
      BY <2>2, UndisturbedBefore DEF Undisturbed
    <3>2. Served(t)'
      BY <2>1, <2>2, <3>1, TargetStays, ServedKept
    <3> QED BY <2>2, <3>1, <3>2 DEF Served, Alive
  <2>3. PICK r \in Runners :
            hosted[r] = "running" /\ (r \in record \/ (Saving(r) /\ \E s \in Runners : to[s] = r))
    BY DEF Alive
  <2>4. CASE \E s \in Runners : to[s] = r
    BY <2>2, <2>3, <2>4 DEF Served
  <2>5. CASE r \in record
    <3>1. CASE Settled(r)
      <4>1. ~ Saving(r)
        BY <2>5, <3>1 DEF Settled, Saving, Inserted
      <4>2. Served(r)' /\ r \in record'
        BY <2>1, <2>3, <2>5, <3>1, <4>1, ServedKept DEF Settled, Served
      <4> QED BY <4>2 DEF Served, Alive
    <3>2. CASE to[r] \in Runners /\ Served(to[r])
      BY <2>2, <3>2
    <3> QED BY <2>1, <3>1, <3>2 DEF ServeInv
  <2> QED BY <2>3, <2>4, <2>5
<1> QED BY <1>1, <1>2, <1>3, PTL DEF Spec, MigrationKeepsAgent

-----------------------------------------------------------------------------
(* The sweep *)

\* A fresh row outlives every step.
LEMMA RowStep ==
    ASSUME TypeOK, [Next]_vars, NEW x \in Runners, Fresh(x)
    PROVE  beat'[x] # NoRow
<1> USE TtlAssumption
    DEF TypeOK, Fresh, NoRow, placements, registry, process, deploys, undeploying, migrating, fanout,
        requests, env, jobs
<1>0. CASE UNCHANGED vars
  BY <1>0 DEF vars
<1>1. CASE Tick
  BY <1>1 DEF Tick
<1>2. ASSUME NEW r \in Runners, Heartbeat(r) PROVE beat'[x] # NoRow
  BY <1>2 DEF Heartbeat
<1>3. ASSUME NEW r \in Runners, HeartbeatFails(r) PROVE beat'[x] # NoRow
  BY <1>3 DEF HeartbeatFails, Fault
<1>4. ASSUME NEW r \in Runners, Ready(r) PROVE beat'[x] # NoRow
  BY <1>4 DEF Ready
<1>5. ASSUME NEW j \in Jobs, AlreadyDeployed(j) PROVE beat'[x] # NoRow
  BY <1>5 DEF AlreadyDeployed, Answer
<1>6. ASSUME NEW j \in Jobs, Boot(j) PROVE beat'[x] # NoRow
  BY <1>6 DEF Boot
<1>7. ASSUME NEW j \in Jobs, BootFails(j) PROVE beat'[x] # NoRow
  BY <1>7 DEF BootFails, Answer, Fault
<1>8. ASSUME NEW j \in Jobs, SaveDeployment(j) PROVE beat'[x] # NoRow
  BY <1>8 DEF SaveDeployment
<1>9. ASSUME NEW j \in Jobs, SaveFails(j) PROVE beat'[x] # NoRow
  BY <1>9 DEF SaveFails, Answer, Fault
<1>10. ASSUME NEW j \in Jobs, RecordPlacement(j) PROVE beat'[x] # NoRow
  BY <1>10 DEF RecordPlacement, Answer
<1>11. ASSUME NEW j \in Jobs, RecordPlacementFails(j) PROVE beat'[x] # NoRow
  BY <1>11 DEF RecordPlacementFails, Answer, Fault
<1>12. ASSUME NEW r \in Runners, NotDeployed(r) PROVE beat'[x] # NoRow
  BY <1>12 DEF NotDeployed, AnswerUndeploy
<1>13. ASSUME NEW r \in Runners, SetDraining(r) PROVE beat'[x] # NoRow
  BY <1>13 DEF SetDraining
<1>14. ASSUME NEW r \in Runners, Unroute(r) PROVE beat'[x] # NoRow
  BY <1>14 DEF Unroute
<1>15. ASSUME NEW r \in Runners, RemovePlacement(r) PROVE beat'[x] # NoRow
  BY <1>15 DEF RemovePlacement
<1>16. ASSUME NEW r \in Runners, RemovePlacementFails(r) PROVE beat'[x] # NoRow
  BY <1>16 DEF RemovePlacementFails, Fault
<1>17. ASSUME NEW r \in Runners, RemoveDeployment(r) PROVE beat'[x] # NoRow
  BY <1>17 DEF RemoveDeployment, AnswerUndeploy
<1>18. ASSUME NEW r \in Runners, RemoveFails(r) PROVE beat'[x] # NoRow
  BY <1>18 DEF RemoveFails, AnswerUndeploy, Fault
<1>19. ASSUME NEW r \in Runners, MigrateDeploy(r) PROVE beat'[x] # NoRow
  BY <1>19 DEF MigrateDeploy, Deploy, Begin
<1>20. ASSUME NEW r \in Runners, MigrateUnreachable(r) PROVE beat'[x] # NoRow
  BY <1>20 DEF MigrateUnreachable
<1>21. ASSUME NEW r \in Runners, MigrateTimeout(r) PROVE beat'[x] # NoRow
  BY <1>21 DEF MigrateTimeout, Fault
<1>22. ASSUME NEW r \in Runners, MigrateUndeploy(r) PROVE beat'[x] # NoRow
  BY <1>22 DEF MigrateUndeploy, Undeploy
<1>23. ASSUME NEW r \in Runners, FanDeploy(r) PROVE beat'[x] # NoRow
  BY <1>23 DEF FanDeploy, Deploy, Begin
<1>24. ASSUME NEW r \in Runners, FanUnreachable(r) PROVE beat'[x] # NoRow
  BY <1>24 DEF FanUnreachable
<1>25. ASSUME NEW r \in Runners, FanTimeout(r) PROVE beat'[x] # NoRow
  BY <1>25 DEF FanTimeout, Fault
<1>26. ASSUME NEW r \in Runners, PostDeploy(r) PROVE beat'[x] # NoRow
  BY <1>26 DEF PostDeploy, Call, Deploy, Begin
<1>27. ASSUME NEW r \in Runners, PostUndeploy(r) PROVE beat'[x] # NoRow
  BY <1>27 DEF PostUndeploy, Call, Undeploy
<1>28. ASSUME NEW r \in Runners, PostClusterDeploy(r) PROVE beat'[x] # NoRow
  BY <1>28 DEF PostClusterDeploy, Call
<1>29. ASSUME NEW r \in Runners, Crash(r) PROVE beat'[x] # NoRow
  BY <1>29 DEF Crash, Fanned
<1>30. ASSUME NEW r \in Runners, Restart(r) PROVE beat'[x] # NoRow
  BY <1>30 DEF Restart, Start, Begin, Stale
<1>31. ASSUME NEW r \in Runners, RestartUnswept(r) PROVE beat'[x] # NoRow
  BY <1>31 DEF RestartUnswept, Start, Begin, Fault
<1>32. ASSUME NEW r \in Runners, NEW t \in Runners, PostMigrate(r, t) PROVE beat'[x] # NoRow
  BY <1>32 DEF PostMigrate, Call
<1>33. ASSUME NEW r \in Runners, NEW q \in Requests, Arrive(q, r) PROVE beat'[x] # NoRow
  BY <1>33 DEF Arrive
<1>34. ASSUME NEW q \in Requests, Lookup(q) PROVE beat'[x] # NoRow
  BY <1>34 DEF Lookup
<1>35. ASSUME NEW q \in Requests, Resolve(q) PROVE beat'[x] # NoRow
  BY <1>35 DEF Resolve
<1>36. ASSUME NEW q \in Requests, Forward(q) PROVE beat'[x] # NoRow
  BY <1>36 DEF Forward
<1>38. ASSUME NEW j \in Jobs, Fetch(j) PROVE beat'[x] # NoRow
  BY <1>38 DEF Fetch
<1>37. ASSUME NEW q \in Requests, RequestFails(q) PROVE beat'[x] # NoRow
  BY <1>37 DEF RequestFails, Fault
<1> QED
  BY <1>0, <1>1, <1>2, <1>3, <1>4, <1>5, <1>6, <1>7, <1>8, <1>9, <1>10, <1>11, <1>12, <1>13,
     <1>14, <1>15, <1>16, <1>17, <1>18, <1>19, <1>20, <1>21, <1>22, <1>23, <1>24, <1>25, <1>26,
     <1>27, <1>28, <1>29, <1>30, <1>31, <1>32, <1>33, <1>34, <1>35, <1>36, <1>37, <1>38 DEF Next,
     RunnerStep, DeployStep, UndeployStep, MigrateStep, FanStep, ClientStep, RequestStep

\* The sweep of a starting runner spares whoever is routed to, for any time-to-live.
THEOREM SweepIsSafe == Spec => SweepSparesFresh
<1>1. Init => TypeOK /\ CallInv
  BY InitType, InitCall
<1>2. TypeOK /\ CallInv /\ [Next]_vars => (TypeOK /\ CallInv)'
  BY TypeStep, CallStep
<1>3. TypeOK /\ [Next]_vars => [\A r \in Runners : Fresh(r) => beat'[r] # NoRow]_vars
  BY RowStep
<1> QED BY <1>1, <1>2, <1>3, PTL DEF Spec, SweepSparesFresh

-----------------------------------------------------------------------------
(* Cluster-wide deploy *)

\* No call is forgotten: what has disturbed the cluster stays counted.
LEMMA CountsGrow ==
    ASSUME TypeOK, [Next]_vars
    PROVE  /\ undeploys <= undeploys' /\ migrations <= migrations' /\ crashes <= crashes'
           /\ rolledback \subseteq rolledback'
<1> DEFINE Grow == /\ undeploys <= undeploys' /\ migrations <= migrations' /\ crashes <= crashes'
                   /\ rolledback \subseteq rolledback'
<1> USE DEF TypeOK, env, deploys
<1>0. CASE UNCHANGED vars
  BY <1>0 DEF vars
<1>1. CASE Tick
  BY <1>1 DEF Tick
<1>2. ASSUME NEW r \in Runners, Heartbeat(r) PROVE Grow
  BY <1>2 DEF Heartbeat
<1>3. ASSUME NEW r \in Runners, HeartbeatFails(r) PROVE Grow
  BY <1>3 DEF HeartbeatFails, Fault
<1>4. ASSUME NEW r \in Runners, Ready(r) PROVE Grow
  BY <1>4 DEF Ready
<1>5. ASSUME NEW j \in Jobs, AlreadyDeployed(j) PROVE Grow
  BY <1>5 DEF AlreadyDeployed, Answer
<1>6. ASSUME NEW j \in Jobs, Boot(j) PROVE Grow
  BY <1>6 DEF Boot
<1>7. ASSUME NEW j \in Jobs, BootFails(j) PROVE Grow
  BY <1>7 DEF BootFails, Answer, Fault
<1>8. ASSUME NEW j \in Jobs, SaveDeployment(j) PROVE Grow
  BY <1>8 DEF SaveDeployment
<1>9. ASSUME NEW j \in Jobs, SaveFails(j) PROVE Grow
  BY <1>9 DEF SaveFails, Answer, Fault
<1>10. ASSUME NEW j \in Jobs, RecordPlacement(j) PROVE Grow
  BY <1>10 DEF RecordPlacement, Answer
<1>11. ASSUME NEW j \in Jobs, RecordPlacementFails(j) PROVE Grow
  BY <1>11 DEF RecordPlacementFails, Answer, Fault
<1>12. ASSUME NEW r \in Runners, NotDeployed(r) PROVE Grow
  BY <1>12 DEF NotDeployed, AnswerUndeploy
<1>13. ASSUME NEW r \in Runners, SetDraining(r) PROVE Grow
  BY <1>13 DEF SetDraining
<1>14. ASSUME NEW r \in Runners, Unroute(r) PROVE Grow
  BY <1>14 DEF Unroute
<1>15. ASSUME NEW r \in Runners, RemovePlacement(r) PROVE Grow
  BY <1>15 DEF RemovePlacement
<1>16. ASSUME NEW r \in Runners, RemovePlacementFails(r) PROVE Grow
  BY <1>16 DEF RemovePlacementFails, Fault
<1>17. ASSUME NEW r \in Runners, RemoveDeployment(r) PROVE Grow
  BY <1>17 DEF RemoveDeployment, AnswerUndeploy
<1>18. ASSUME NEW r \in Runners, RemoveFails(r) PROVE Grow
  BY <1>18 DEF RemoveFails, AnswerUndeploy, Fault
<1>19. ASSUME NEW r \in Runners, MigrateDeploy(r) PROVE Grow
  BY <1>19 DEF MigrateDeploy, Deploy, Begin
<1>20. ASSUME NEW r \in Runners, MigrateUnreachable(r) PROVE Grow
  BY <1>20 DEF MigrateUnreachable
<1>21. ASSUME NEW r \in Runners, MigrateTimeout(r) PROVE Grow
  BY <1>21 DEF MigrateTimeout, Fault
<1>22. ASSUME NEW r \in Runners, MigrateUndeploy(r) PROVE Grow
  BY <1>22 DEF MigrateUndeploy, Undeploy
<1>23. ASSUME NEW r \in Runners, FanDeploy(r) PROVE Grow
  BY <1>23 DEF FanDeploy, Deploy, Begin
<1>24. ASSUME NEW r \in Runners, FanUnreachable(r) PROVE Grow
  BY <1>24 DEF FanUnreachable
<1>25. ASSUME NEW r \in Runners, FanTimeout(r) PROVE Grow
  BY <1>25 DEF FanTimeout, Fault
<1>26. ASSUME NEW r \in Runners, PostDeploy(r) PROVE Grow
  BY <1>26 DEF PostDeploy, Call, Deploy, Begin
<1>27. ASSUME NEW r \in Runners, PostUndeploy(r) PROVE Grow
  BY <1>27 DEF PostUndeploy, Call, Undeploy
<1>28. ASSUME NEW r \in Runners, PostClusterDeploy(r) PROVE Grow
  BY <1>28 DEF PostClusterDeploy, Call
<1>29. ASSUME NEW r \in Runners, Crash(r) PROVE Grow
  BY <1>29 DEF Crash, Fanned
<1>30. ASSUME NEW r \in Runners, Restart(r) PROVE Grow
  BY <1>30 DEF Restart, Start, Begin
<1>31. ASSUME NEW r \in Runners, RestartUnswept(r) PROVE Grow
  BY <1>31 DEF RestartUnswept, Start, Begin, Fault
<1>32. ASSUME NEW r \in Runners, NEW t \in Runners, PostMigrate(r, t) PROVE Grow
  BY <1>32 DEF PostMigrate, Call
<1>33. ASSUME NEW r \in Runners, NEW q \in Requests, Arrive(q, r) PROVE Grow
  BY <1>33 DEF Arrive
<1>34. ASSUME NEW q \in Requests, Lookup(q) PROVE Grow
  BY <1>34 DEF Lookup
<1>35. ASSUME NEW q \in Requests, Resolve(q) PROVE Grow
  BY <1>35 DEF Resolve
<1>36. ASSUME NEW q \in Requests, Forward(q) PROVE Grow
  BY <1>36 DEF Forward
<1>38. ASSUME NEW j \in Jobs, Fetch(j) PROVE Grow
  BY <1>38 DEF Fetch
<1>37. ASSUME NEW q \in Requests, RequestFails(q) PROVE Grow
  BY <1>37 DEF RequestFails, Fault
<1> QED
  BY <1>0, <1>1, <1>2, <1>3, <1>4, <1>5, <1>6, <1>7, <1>8, <1>9, <1>10, <1>11, <1>12, <1>13,
     <1>14, <1>15, <1>16, <1>17, <1>18, <1>19, <1>20, <1>21, <1>22, <1>23, <1>24, <1>25, <1>26,
     <1>27, <1>28, <1>29, <1>30, <1>31, <1>32, <1>33, <1>34, <1>35, <1>36, <1>37, <1>38 DEF Next,
     RunnerStep, DeployStep, UndeployStep, MigrateStep, FanStep, ClientStep, RequestStep

\* A runner leaves fan with a success only by finding the agent there, or by saving it.
LEMMA FanReport ==
    ASSUME TypeOK, [Next]_vars, crashes' = crashes, fanok', NEW x \in listed' \ fan'
    PROVE  \/ fanok /\ x \in listed \ fan
           \/ Succeeds(x)
<1> DEFINE Report == (fanok /\ x \in listed \ fan) \/ Succeeds(x)
<1> USE DEF TypeOK, Succeeds, Inserted, placements, registry, process, deploys, undeploying, migrating, fanout,
        requests, env, jobs
<1>0. CASE UNCHANGED vars
  BY <1>0 DEF vars
<1>1. CASE Tick
  BY <1>1 DEF Tick
<1>2. ASSUME NEW r \in Runners, Heartbeat(r) PROVE Report
  BY <1>2 DEF Heartbeat
<1>3. ASSUME NEW r \in Runners, HeartbeatFails(r) PROVE Report
  BY <1>3 DEF HeartbeatFails, Fault
<1>4. ASSUME NEW r \in Runners, Ready(r) PROVE Report
  BY <1>4 DEF Ready
<1>5. ASSUME NEW j \in Jobs, AlreadyDeployed(j) PROVE Report
  BY <1>5 DEF AlreadyDeployed, Answer
<1>6. ASSUME NEW j \in Jobs, Boot(j) PROVE Report
  BY <1>6 DEF Boot
<1>7. ASSUME NEW j \in Jobs, BootFails(j) PROVE Report
  BY <1>7 DEF BootFails, Answer, Fault
<1>8. ASSUME NEW j \in Jobs, SaveDeployment(j) PROVE Report
  BY <1>8 DEF SaveDeployment
<1>9. ASSUME NEW j \in Jobs, SaveFails(j) PROVE Report
  BY <1>9 DEF SaveFails, Answer, Fault
<1>10. ASSUME NEW j \in Jobs, RecordPlacement(j) PROVE Report
  BY <1>10 DEF RecordPlacement, Answer
<1>11. ASSUME NEW j \in Jobs, RecordPlacementFails(j) PROVE Report
  BY <1>11 DEF RecordPlacementFails, Answer, Fault
<1>12. ASSUME NEW r \in Runners, NotDeployed(r) PROVE Report
  BY <1>12 DEF NotDeployed, AnswerUndeploy
<1>13. ASSUME NEW r \in Runners, SetDraining(r) PROVE Report
  BY <1>13 DEF SetDraining
<1>14. ASSUME NEW r \in Runners, Unroute(r) PROVE Report
  BY <1>14 DEF Unroute
<1>15. ASSUME NEW r \in Runners, RemovePlacement(r) PROVE Report
  BY <1>15 DEF RemovePlacement
<1>16. ASSUME NEW r \in Runners, RemovePlacementFails(r) PROVE Report
  BY <1>16 DEF RemovePlacementFails, Fault
<1>17. ASSUME NEW r \in Runners, RemoveDeployment(r) PROVE Report
  BY <1>17 DEF RemoveDeployment, AnswerUndeploy
<1>18. ASSUME NEW r \in Runners, RemoveFails(r) PROVE Report
  BY <1>18 DEF RemoveFails, AnswerUndeploy, Fault
<1>19. ASSUME NEW r \in Runners, MigrateDeploy(r) PROVE Report
  BY <1>19 DEF MigrateDeploy, Deploy, Begin
<1>20. ASSUME NEW r \in Runners, MigrateUnreachable(r) PROVE Report
  BY <1>20 DEF MigrateUnreachable
<1>21. ASSUME NEW r \in Runners, MigrateTimeout(r) PROVE Report
  BY <1>21 DEF MigrateTimeout, Fault
<1>22. ASSUME NEW r \in Runners, MigrateUndeploy(r) PROVE Report
  BY <1>22 DEF MigrateUndeploy, Undeploy
<1>23. ASSUME NEW r \in Runners, FanDeploy(r) PROVE Report
  BY <1>23 DEF FanDeploy, Deploy, Begin
<1>24. ASSUME NEW r \in Runners, FanUnreachable(r) PROVE Report
  BY <1>24 DEF FanUnreachable
<1>25. ASSUME NEW r \in Runners, FanTimeout(r) PROVE Report
  BY <1>25 DEF FanTimeout, Fault
<1>26. ASSUME NEW r \in Runners, PostDeploy(r) PROVE Report
  BY <1>26 DEF PostDeploy, Call, Deploy, Begin
<1>27. ASSUME NEW r \in Runners, PostUndeploy(r) PROVE Report
  BY <1>27 DEF PostUndeploy, Call, Undeploy
<1>28. ASSUME NEW r \in Runners, PostClusterDeploy(r) PROVE Report
  BY <1>28 DEF PostClusterDeploy, Call
<1>29. ASSUME NEW r \in Runners, Crash(r) PROVE Report
  BY <1>29 DEF Crash, Fanned
<1>30. ASSUME NEW r \in Runners, Restart(r) PROVE Report
  BY <1>30 DEF Restart, Start, Begin
<1>31. ASSUME NEW r \in Runners, RestartUnswept(r) PROVE Report
  BY <1>31 DEF RestartUnswept, Start, Begin, Fault
<1>32. ASSUME NEW r \in Runners, NEW t \in Runners, PostMigrate(r, t) PROVE Report
  BY <1>32 DEF PostMigrate, Call
<1>33. ASSUME NEW r \in Runners, NEW q \in Requests, Arrive(q, r) PROVE Report
  BY <1>33 DEF Arrive
<1>34. ASSUME NEW q \in Requests, Lookup(q) PROVE Report
  BY <1>34 DEF Lookup
<1>35. ASSUME NEW q \in Requests, Resolve(q) PROVE Report
  BY <1>35 DEF Resolve
<1>36. ASSUME NEW q \in Requests, Forward(q) PROVE Report
  BY <1>36 DEF Forward
<1>38. ASSUME NEW j \in Jobs, Fetch(j) PROVE Report
  BY <1>38 DEF Fetch
<1>37. ASSUME NEW q \in Requests, RequestFails(q) PROVE Report
  BY <1>37 DEF RequestFails, Fault
<1> QED
  BY <1>0, <1>1, <1>2, <1>3, <1>4, <1>5, <1>6, <1>7, <1>8, <1>9, <1>10, <1>11, <1>12, <1>13,
     <1>14, <1>15, <1>16, <1>17, <1>18, <1>19, <1>20, <1>21, <1>22, <1>23, <1>24, <1>25, <1>26,
     <1>27, <1>28, <1>29, <1>30, <1>31, <1>32, <1>33, <1>34, <1>35, <1>36, <1>37, <1>38 DEF Next,
     RunnerStep, DeployStep, UndeployStep, MigrateStep, FanStep, ClientStep, RequestStep

\* Every step keeps the agent on the runners that have reported it.
LEMMA CoverStep ==
    TypeOK /\ CallInv /\ ServeInv /\ ClusterDeployCovers /\ [Next]_vars => ClusterDeployCovers'
<1> SUFFICES ASSUME TypeOK, CallInv, ServeInv, ClusterDeployCovers, [Next]_vars, fanok',
                    undeploys' = 0, migrations' = 0, crashes' = 0,
                    NEW x \in (listed' \ fan') \ rolledback'
             PROVE  Served(x)'
  BY DEF ClusterDeployCovers, Served
<1>0. x \notin rolledback
  BY CountsGrow
<1>1. undeploys = 0 /\ migrations = 0 /\ crashes = 0
  BY CountsGrow DEF TypeOK
<1>2. \A r \in Runners : to[r] = "none"
  BY <1>1 DEF CallInv
<1>3. x \in Runners
  BY TypeStep DEF TypeOK
<1>4. Settled(x)
  <2>1. Undisturbed
    BY <1>1, <1>2, RunnersAssumption DEF Undisturbed, TypeOK
  <2> QED BY <1>2, <1>3, <2>1, RunnersAssumption DEF ServeInv
<1>5. Served(x)
  <2>1. CASE fanok /\ x \in listed \ fan
    BY <1>0, <1>1, <2>1 DEF ClusterDeployCovers, Served
  <2>2. CASE Succeeds(x)
    BY <1>3, <1>4, <2>2 DEF Settled, Served, Succeeds, TypeOK
  <2> QED BY <1>1, <2>1, <2>2, FanReport
<1> QED BY <1>1, <1>3, <1>4, <1>5, ServedKept DEF Settled

\* A success reported to POST /cluster/deploy means the agent is there, on a cluster of any
\* size and with any number of deploys, time-outs and failures beside it.
THEOREM ClusterDeployIsSound == Spec => []ClusterDeployCovers
<1>1. Init => TypeOK /\ CallInv /\ ServeInv /\ ClusterDeployCovers
  <2>1. Init => ClusterDeployCovers
    BY DEF Init, ClusterDeployCovers
  <2> QED BY <2>1, InitType, InitServe
<1>2. TypeOK /\ CallInv /\ ServeInv /\ ClusterDeployCovers /\ [Next]_vars
        => (TypeOK /\ CallInv /\ ServeInv /\ ClusterDeployCovers)'
  BY TypeStep, CallStep, ServeStep, CoverStep
<1> QED BY <1>1, <1>2, PTL DEF Spec

-----------------------------------------------------------------------------
(* The quiet cluster *)

\* Nothing was called and nothing has failed.
Quiet == calls = 0 /\ crashes = 0 /\ faults = 0

\* No row is older than the interval in which its heartbeat is due, and resolve's order is a
\* strict linear one.
RegistryAtRest ==
    /\ placed = record
    /\ \A r \in Runners : beat[r] = 0 \/ (beat[r] = 1 /\ r \in due)
    /\ \A p \in placed : <<p, p>> \notin newer
    /\ \A p, q \in placed : p = q \/ <<p, q>> \in newer \/ <<q, p>> \in newer
    /\ \A p, q, t \in placed : <<p, q>> \in newer /\ <<q, t>> \in newer => <<p, t>> \in newer

\* Every runner is up, and has the agent just when it has a record of it.
RunnersAtRest ==
    /\ fan = {} /\ \A j \in Jobs : job[j] = "idle"
    /\ \A r \in Runners :
          /\ life[r] = "up" /\ und[r] = "idle" /\ mig[r] = "idle"
          /\ hosted[r] = IF r \in record THEN "running" ELSE "no"

\* A request is on its way to a runner that has the agent.
RequestsAtRest ==
    record # {} =>
        \A q \in Requests :
            /\ rpc[q] \in {"new", "lookup", "resolve", "forward", "served"}
            /\ rpc[q] = "resolve" => at[q] \notin record
            /\ rpc[q] = "forward" => at[q] \in record

QuietInv == Quiet => RegistryAtRest /\ RunnersAtRest /\ RequestsAtRest

\* Of several placements one is the newest.
LEMMA NewestExists ==
    ASSUME TypeOK, RegistryAtRest, Ttl > 1, placed # {}
    PROVE  \E r \in placed : Newest(r)
<1> DEFINE Above(r) == {p \in placed : <<p, r>> \in newer}
           T == {Above(r) : r \in placed}
<1>1. \A r \in Runners : Fresh(r)
  BY TtlAssumption DEF RegistryAtRest, Fresh
<1>2. IsFiniteSet(placed)
  BY RunnersAssumption, FS_Subset DEF TypeOK
<1>3. PICK S \in T : \A U \in T : ~(U \subseteq S /\ U # S)
  <2>1. T \subseteq FiniteSubsetsOf(placed) /\ T # {}
    <3>1. FiniteSubsetsOf(placed) = SUBSET placed
      BY <1>2, FS_FiniteSubsetsOfFinite
    <3>2. \A r \in placed : Above(r) \subseteq placed
      OBVIOUS
    <3>3. T \subseteq SUBSET placed
      BY <3>2
    <3>4. T # {}
      OBVIOUS
    <3> QED BY <3>1, <3>3, <3>4
  <2>2. IsWellFoundedOn(StrictSubsetOrdering(placed), FiniteSubsetsOf(placed))
    BY FS_StrictSubsetOrderingWellFounded
  <2>3. \E S \in T : \A U \in T : <<U, S>> \notin StrictSubsetOrdering(placed)
    BY <2>1, <2>2, WFMin
  <2>4. \A S, U \in T : U \subseteq S /\ U # S => <<U, S>> \in StrictSubsetOrdering(placed)
    BY DEF StrictSubsetOrdering
  <2>5. PICK S \in T : \A U \in T : <<U, S>> \notin StrictSubsetOrdering(placed)
    BY <2>3
  <2>6. \A U \in T : ~(U \subseteq S /\ U # S)
    BY <2>4, <2>5
  <2> QED BY <2>5, <2>6
<1>4. PICK r \in placed : S = Above(r)
  BY <1>3
<1>5. ASSUME NEW p \in placed \ {r} PROVE <<r, p>> \in newer
  <2>1. SUFFICES ASSUME <<p, r>> \in newer PROVE FALSE
    BY <2>1 DEF RegistryAtRest
  <2>2. Above(p) \subseteq Above(r)
    BY <2>1 DEF RegistryAtRest
  <2>3. p \in Above(r) /\ p \notin Above(p)
    BY <2>1 DEF RegistryAtRest
  <2>4. Above(p) \in T
    OBVIOUS
  <2> QED BY <1>3, <1>4, <2>2, <2>3, <2>4
<1> QED BY <1>1, <1>5 DEF Newest, TypeOK

\* At first the cluster is at rest.
LEMMA InitQuiet == Init => QuietInv
<1> SUFFICES ASSUME Init PROVE RegistryAtRest /\ RunnersAtRest /\ RequestsAtRest
  BY DEF QuietInv
<1>1. RegistryAtRest
  BY DeployedAssumption DEF Init, RegistryAtRest
<1>2. RunnersAtRest /\ RequestsAtRest
  BY DEF Init, RunnersAtRest, RequestsAtRest
<1> QED BY <1>1, <1>2

\* On a cluster at rest only time passes and requests move.
LEMMA QuietSteps ==
    ASSUME TypeOK, RunnersAtRest, [Next]_vars, Quiet'
    PROVE  \/ UNCHANGED vars \/ Tick
           \/ \E r \in Runners : Heartbeat(r) \/ \E q \in Requests : Arrive(q, r)
           \/ \E q \in Requests : Lookup(q) \/ Resolve(q) \/ Forward(q)
<1> USE DEF TypeOK, RunnersAtRest, Quiet
<1>1. ASSUME NEW r \in Runners, HeartbeatFails(r) \/ Ready(r) PROVE FALSE
  BY <1>1 DEF HeartbeatFails, Ready, Fault
<1>2. ASSUME NEW j \in Jobs, DeployStep(j) PROVE FALSE
  BY <1>2 DEF DeployStep, AlreadyDeployed, Fetch, Boot, BootFails, SaveDeployment, SaveFails,
      RecordPlacement, RecordPlacementFails
<1>3. ASSUME NEW r \in Runners, UndeployStep(r) PROVE FALSE
  BY <1>3 DEF UndeployStep, NotDeployed, SetDraining, Unroute, RemovePlacement,
      RemovePlacementFails, RemoveDeployment, RemoveFails
<1>4. ASSUME NEW r \in Runners, MigrateStep(r) \/ FanStep(r) PROVE FALSE
  BY <1>4 DEF MigrateStep, MigrateDeploy, MigrateUnreachable, MigrateTimeout, MigrateUndeploy,
      FanStep, FanDeploy, FanUnreachable, FanTimeout
<1>5. ASSUME NEW r \in Runners,
             PostDeploy(r) \/ PostUndeploy(r) \/ PostClusterDeploy(r) \/ \E t \in Runners : PostMigrate(r, t)
      PROVE  FALSE
  BY <1>5 DEF PostDeploy, PostUndeploy, PostClusterDeploy, PostMigrate, Call
<1>6. ASSUME NEW r \in Runners, Crash(r) \/ Restart(r) \/ RestartUnswept(r) PROVE FALSE
  BY <1>6 DEF Crash, Restart, RestartUnswept, Start
<1>7. ASSUME NEW q \in Requests, RequestFails(q) PROVE FALSE
  BY <1>7 DEF RequestFails, Fault
<1> QED BY <1>1, <1>2, <1>3, <1>4, <1>5, <1>6, <1>7 DEF Next, RunnerStep, ClientStep, RequestStep

\* What was called or has failed stays counted.
LEMMA QuietBefore ==
    ASSUME TypeOK, [Next]_vars, Quiet'
    PROVE  Quiet
<1> USE DEF TypeOK, Quiet, env
<1>0. CASE UNCHANGED vars
  BY <1>0 DEF vars
<1>1. CASE Tick
  BY <1>1 DEF Tick
<1>2. ASSUME NEW r \in Runners, Heartbeat(r) PROVE Quiet
  BY <1>2 DEF Heartbeat
<1>3. ASSUME NEW r \in Runners, HeartbeatFails(r) PROVE Quiet
  BY <1>3 DEF HeartbeatFails, Fault
<1>4. ASSUME NEW r \in Runners, Ready(r) PROVE Quiet
  BY <1>4 DEF Ready
<1>5. ASSUME NEW j \in Jobs, AlreadyDeployed(j) PROVE Quiet
  BY <1>5 DEF AlreadyDeployed, Answer
<1>6. ASSUME NEW j \in Jobs, Boot(j) PROVE Quiet
  BY <1>6 DEF Boot
<1>7. ASSUME NEW j \in Jobs, BootFails(j) PROVE Quiet
  BY <1>7 DEF BootFails, Answer, Fault
<1>8. ASSUME NEW j \in Jobs, SaveDeployment(j) PROVE Quiet
  BY <1>8 DEF SaveDeployment
<1>9. ASSUME NEW j \in Jobs, SaveFails(j) PROVE Quiet
  BY <1>9 DEF SaveFails, Answer, Fault
<1>10. ASSUME NEW j \in Jobs, RecordPlacement(j) PROVE Quiet
  BY <1>10 DEF RecordPlacement, Answer
<1>11. ASSUME NEW j \in Jobs, RecordPlacementFails(j) PROVE Quiet
  BY <1>11 DEF RecordPlacementFails, Answer, Fault
<1>12. ASSUME NEW r \in Runners, NotDeployed(r) PROVE Quiet
  BY <1>12 DEF NotDeployed, AnswerUndeploy
<1>13. ASSUME NEW r \in Runners, SetDraining(r) PROVE Quiet
  BY <1>13 DEF SetDraining
<1>14. ASSUME NEW r \in Runners, Unroute(r) PROVE Quiet
  BY <1>14 DEF Unroute
<1>15. ASSUME NEW r \in Runners, RemovePlacement(r) PROVE Quiet
  BY <1>15 DEF RemovePlacement
<1>16. ASSUME NEW r \in Runners, RemovePlacementFails(r) PROVE Quiet
  BY <1>16 DEF RemovePlacementFails, Fault
<1>17. ASSUME NEW r \in Runners, RemoveDeployment(r) PROVE Quiet
  BY <1>17 DEF RemoveDeployment, AnswerUndeploy
<1>18. ASSUME NEW r \in Runners, RemoveFails(r) PROVE Quiet
  BY <1>18 DEF RemoveFails, AnswerUndeploy, Fault
<1>19. ASSUME NEW r \in Runners, MigrateDeploy(r) PROVE Quiet
  BY <1>19 DEF MigrateDeploy, Deploy, Begin
<1>20. ASSUME NEW r \in Runners, MigrateUnreachable(r) PROVE Quiet
  BY <1>20 DEF MigrateUnreachable
<1>21. ASSUME NEW r \in Runners, MigrateTimeout(r) PROVE Quiet
  BY <1>21 DEF MigrateTimeout, Fault
<1>22. ASSUME NEW r \in Runners, MigrateUndeploy(r) PROVE Quiet
  BY <1>22 DEF MigrateUndeploy, Undeploy
<1>23. ASSUME NEW r \in Runners, FanDeploy(r) PROVE Quiet
  BY <1>23 DEF FanDeploy, Deploy, Begin
<1>24. ASSUME NEW r \in Runners, FanUnreachable(r) PROVE Quiet
  BY <1>24 DEF FanUnreachable
<1>25. ASSUME NEW r \in Runners, FanTimeout(r) PROVE Quiet
  BY <1>25 DEF FanTimeout, Fault
<1>26. ASSUME NEW r \in Runners, PostDeploy(r) PROVE Quiet
  BY <1>26 DEF PostDeploy, Call, Deploy, Begin
<1>27. ASSUME NEW r \in Runners, PostUndeploy(r) PROVE Quiet
  BY <1>27 DEF PostUndeploy, Call, Undeploy
<1>28. ASSUME NEW r \in Runners, PostClusterDeploy(r) PROVE Quiet
  BY <1>28 DEF PostClusterDeploy, Call
<1>29. ASSUME NEW r \in Runners, Crash(r) PROVE Quiet
  BY <1>29 DEF Crash, Fanned
<1>30. ASSUME NEW r \in Runners, Restart(r) PROVE Quiet
  BY <1>30 DEF Restart
<1>31. ASSUME NEW r \in Runners, RestartUnswept(r) PROVE Quiet
  BY <1>31 DEF RestartUnswept, Start, Begin, Fault
<1>32. ASSUME NEW r \in Runners, NEW t \in Runners, PostMigrate(r, t) PROVE Quiet
  BY <1>32 DEF PostMigrate, Call
<1>33. ASSUME NEW r \in Runners, NEW q \in Requests, Arrive(q, r) PROVE Quiet
  BY <1>33 DEF Arrive
<1>34. ASSUME NEW q \in Requests, Lookup(q) PROVE Quiet
  BY <1>34 DEF Lookup
<1>35. ASSUME NEW q \in Requests, Resolve(q) PROVE Quiet
  BY <1>35 DEF Resolve
<1>36. ASSUME NEW q \in Requests, Forward(q) PROVE Quiet
  BY <1>36 DEF Forward
<1>38. ASSUME NEW j \in Jobs, Fetch(j) PROVE Quiet
  BY <1>38 DEF Fetch
<1>37. ASSUME NEW q \in Requests, RequestFails(q) PROVE Quiet
  BY <1>37 DEF RequestFails, Fault
<1> QED
  BY <1>0, <1>1, <1>2, <1>3, <1>4, <1>5, <1>6, <1>7, <1>8, <1>9, <1>10, <1>11, <1>12, <1>13,
     <1>14, <1>15, <1>16, <1>17, <1>18, <1>19, <1>20, <1>21, <1>22, <1>23, <1>24, <1>25, <1>26,
     <1>27, <1>28, <1>29, <1>30, <1>31, <1>32, <1>33, <1>34, <1>35, <1>36, <1>37, <1>38 DEF Next,
     RunnerStep, DeployStep, UndeployStep, MigrateStep, FanStep, ClientStep, RequestStep

\* Every step keeps a quiet cluster at rest, when a row outlives the interval it was written in.
LEMMA QuietStep ==
    ASSUME Ttl > 1, TypeOK, QuietInv, [Next]_vars
    PROVE  QuietInv'
<1> SUFFICES ASSUME Quiet' PROVE (RegistryAtRest /\ RunnersAtRest /\ RequestsAtRest)'
  BY DEF QuietInv
<1> DEFINE AtRest == RegistryAtRest /\ RunnersAtRest /\ RequestsAtRest
<1>0. AtRest
  BY QuietBefore DEF QuietInv
<1> USE DEF TypeOK, RegistryAtRest, RunnersAtRest, RequestsAtRest, placements, registry, process,
        deploys, jobs, undeploying, migrating, fanout, requests, env
<1>1. CASE UNCHANGED vars
  BY <1>0, <1>1 DEF vars
<1>2. CASE Tick
  BY <1>0, <1>2, TtlAssumption DEF Tick
<1>3. ASSUME NEW r \in Runners, Heartbeat(r) PROVE AtRest'
  BY <1>0, <1>3 DEF Heartbeat, NoRow
<1>4. ASSUME NEW r \in Runners, NEW q \in Requests, Arrive(q, r) PROVE AtRest'
  BY <1>0, <1>4 DEF Arrive
<1>5. ASSUME NEW q \in Requests, Lookup(q) PROVE AtRest'
  BY <1>0, <1>5 DEF Lookup, End
<1>6. ASSUME NEW q \in Requests, Resolve(q) PROVE AtRest'
  <2>1. RegistryAtRest' /\ RunnersAtRest'
    BY <1>0, <1>6 DEF Resolve
  <2>2. RequestsAtRest'
    <3> SUFFICES ASSUME record # {} PROVE RequestsAtRest'
      BY <1>6 DEF Resolve
    <3>1. \E p \in placed : Newest(p)
      BY <1>0, NewestExists
    <3>2. at[q] \notin placed
      BY <1>0, <1>6 DEF Resolve
    <3>3. PICK p \in Runners \ {at[q]} : Newest(p) /\ at' = [at EXCEPT ![q] = p]
      BY <1>6, <3>1, <3>2 DEF Resolve
    <3>4. rpc' = [rpc EXCEPT ![q] = "forward"]
      BY <1>6, <3>1, <3>2 DEF Resolve
    <3>5. p \in record
      BY <1>0, <3>3 DEF Newest
    <3> QED BY <1>0, <1>6, <3>3, <3>4, <3>5 DEF Resolve
  <2> QED BY <2>1, <2>2
<1>7. ASSUME NEW q \in Requests, Forward(q) PROVE AtRest'
  <2>1. life[at[q]] = "up"
    BY <1>0, <1>7 DEF Forward
  <2> QED BY <1>0, <1>7, <2>1 DEF Forward, End
<1> QED BY <1>0, <1>1, <1>2, <1>3, <1>4, <1>5, <1>6, <1>7, QuietSteps

\* On a quiet cluster that has the agent every request is served, for any number of runners
\* and requests, when the time-to-live is longer than the interval between two heartbeats.
THEOREM QuietClusterIsRouted ==
    ASSUME Ttl > 1
    PROVE  Spec => []QuietClusterServes
<1>1. Init => TypeOK /\ CallInv /\ QuietInv
  BY InitType, InitCall, InitQuiet
<1>2. TypeOK /\ CallInv /\ QuietInv /\ [Next]_vars => (TypeOK /\ CallInv /\ QuietInv)'
  BY TypeStep, CallStep, QuietStep
<1>3. TypeOK /\ QuietInv => QuietClusterServes
  BY DEF TypeOK, QuietInv, Quiet, RequestsAtRest, QuietClusterServes
<1> QED BY <1>1, <1>2, <1>3, PTL DEF Spec
===============================================================================
