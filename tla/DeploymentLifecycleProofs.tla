---------------------- MODULE DeploymentLifecycleProofs ----------------------
(***************************************************************************)
(* Proofs, for every value of the constants, of the safety properties of   *)
(* DeploymentLifecycle: those that hold however many calls run together,   *)
(* and the one that needs the calls to follow one another.                 *)
(***************************************************************************)
EXTENDS DeploymentLifecycle, TLAPS

\* Booted agents are numbered; none is under two package names.
BootsInv ==
    /\ \A p \in Packages : slot[p] <= boots
    /\ \A c \in Calls : fresh[c] <= boots
    /\ \A b \in draining : b <= boots
    /\ stopped \subseteq draining
    /\ \A p, q \in Packages : slot[p] # None /\ slot[p] = slot[q] => p = q

\* An agent that waits to be inserted is no one else's and not draining.
FreshInv ==
    \A c \in Calls : pc[c] = "insert" =>
        /\ fresh[c] \notin draining
        /\ \A p \in Packages : slot[p] # fresh[c]
        /\ \A d \in Calls : pc[d] = "insert" /\ fresh[d] = fresh[c] => d = c

\* An undeploy's agent is draining; it can only be under the name the undeploy
\* removes, and after the removal it is under none.
VictimInv ==
    \A c \in Calls :
        /\ victim[c] # None => victim[c] \in draining
        /\ pc[c] \in {"drain", "remove"} =>
             \A p \in Packages : slot[p] = victim[c] => p = Pkg[old[c]]
        /\ pc[c] \in {"unplace", "unrecord", "stop"} =>
             \A p \in Packages : slot[p] # victim[c]

RouteInv == BootsInv /\ FreshInv /\ VictimInv /\ StoppedNotRouted

\* The invariant of calls that follow one another: a hash under way is not
\* routed, an undeployed name is free, and a routed agent has its record or is
\* about to get it.
SerialInv ==
    mode # "down" =>
        /\ \A c \in Calls :
             /\ target[c] # None /\ pc[c] \notin {"save", "place"} => ~ Deployed(target[c])
             /\ pc[c] \in {"unplace", "unrecord", "stop"} => slot[Pkg[old[c]]] = None
        /\ \A p \in Packages : slot[p] # None =>
             rec[hash[p]] = "active" \/ \E c \in Calls : pc[c] = "save" /\ target[c] = hash[p]

\* The invariant of what a crash leaves: a record is never dated ahead of the clock, a deploy
\* that is about to save holds the latest date of all, and of a package's active records the
\* one of its routed agent is the latest.  A runner that is down has no calls.
DateInv ==
    /\ mode = "down" => \A c \in Calls : pc[c] = "idle"
    /\ \A h \in Hashes : deployedAt[h] <= clock
    /\ \A c \in Calls : pc[c] = "save" =>
         /\ Deployed(target[c])
         /\ stamp[c] <= clock
         /\ \A h \in Hashes : deployedAt[h] <= stamp[c]
    /\ \A p \in Packages :
         /\ slot[p] # None /\ rec[hash[p]] = "active"
         /\ \A c \in Calls : ~ (pc[c] = "save" /\ Pkg[target[c]] = p)
         => \A h \in Hashes :
              Pkg[h] = p /\ rec[h] = "active" => deployedAt[h] <= deployedAt[hash[p]]

\* What a call knows of the maps, the records and the placements as long as nothing has failed.
CallClean(c) ==
    /\ pc[c] = "idle" => target[c] = None
    /\ mode = "restoring" /\ pc[c] # "idle" => target[c] # None /\ rec[target[c]] = "active"
    /\ pc[c] \in {"boot", "insert"} => slot[Pkg[target[c]]] = None
    /\ pc[c] \in {"save", "place"} => Deployed(target[c])
    /\ pc[c] = "place" => rec[target[c]] = "active"
    /\ pc[c] \in {"find", "drain", "remove", "unplace", "unrecord", "stop"} /\ target[c] # None =>
         Pkg[old[c]] = Pkg[target[c]] /\ old[c] # target[c]
    /\ pc[c] = "find" /\ target[c] # None => Deployed(old[c])
    /\ pc[c] \in {"drain", "remove"} => Deployed(old[c])
    /\ pc[c] \in {"unplace", "unrecord", "stop"} => slot[Pkg[old[c]]] = None
    /\ pc[c] \in {"unrecord", "stop"} => Pkg[old[c]] \notin placed

\* A package has one active record, and no restore is due but that of a record.
RecordsClean ==
    /\ \A h \in Hashes : rec[h] # "failed"
    /\ \A g, h \in Hashes : rec[g] = "active" /\ rec[h] = "active" /\ Pkg[g] = Pkg[h] => g = h
    /\ mode # "restoring" => toRestore = {}
    /\ \A h \in toRestore : rec[h] = "active"

\* The call will route the hash, or is about to remove its record.
Underway(c, h) ==
    \/ target[c] = h /\ pc[c] # "idle"
    \/ old[c] = h /\ pc[c] \in {"unplace", "unrecord"}

\* An active record is routed, about to be restored, or in the hands of the call.
ActiveClean ==
    mode # "down" => \A h \in Hashes : rec[h] = "active" =>
        h \in toRestore \/ Deployed(h) \/ \E c \in Calls : Underway(c, h)

\* A placement stands for an active record, and a routed agent has its placement or gets it.
PlacedClean ==
    /\ \A p \in placed : \E h \in Hashes : Pkg[h] = p /\ rec[h] = "active"
    /\ mode # "down" => \A p \in Packages : slot[p] # None =>
         p \in placed \/ \E c \in Calls : pc[c] \in {"save", "place"} /\ Pkg[target[c]] = p

\* The invariant of calls that follow one another while no write and no boot has failed.
CleanInv ==
    faults = 0 => (\A c \in Calls : CallClean(c)) /\ RecordsClean /\ ActiveClean /\ PlacedClean

-----------------------------------------------------------------------------
\* The runner starts with nothing deployed.
LEMMA InitInv == Init => TypeOK /\ RouteInv /\ SerialInv
<1> SUFFICES ASSUME Init PROVE TypeOK /\ RouteInv /\ SerialInv
  OBVIOUS
<1>1. TypeOK
  BY HashesAssumption DEF Init, TypeOK, DurableTypes, RouteTypes, CallTypes, OtherTypes, CallPcs, None
<1>2. RouteInv
  BY DEF Init, RouteInv, BootsInv, FreshInv, VictimInv, StoppedNotRouted, None
<1>3. SerialInv
  BY DEF Init, SerialInv, None
<1> QED BY <1>1, <1>2, <1>3

\* What a call's next step needs is there.
LEMMA CallKnows ==
    ASSUME TypeOK, NEW c \in Calls
    PROVE  /\ pc[c] \in {"fetch", "boot", "insert", "save", "place"} =>
                target[c] \in Hashes /\ Pkg[target[c]] \in Packages
           /\ pc[c] \in {"find", "drain", "remove", "unplace", "unrecord", "stop"} =>
                old[c] \in Hashes /\ Pkg[old[c]] \in Packages
           /\ pc[c] \in {"drain", "remove", "unplace", "unrecord", "stop"} =>
                victim[c] \in Nat \ {None}
           /\ pc[c] \in {"insert", "save"} => fresh[c] \in Nat \ {None}
  BY PkgAssumption DEF TypeOK, CallTypes

\* Every step keeps the types.
LEMMA TypeStep == TypeOK /\ [Next]_vars => TypeOK'
<1> SUFFICES ASSUME TypeOK, [Next]_vars PROVE TypeOK'
  OBVIOUS
<1> USE DEF Goto, records, routes, callVars, reqVars, env, history
<1>1. CASE UNCHANGED vars
  BY <1>1 DEF vars, records, routes, callVars, reqVars, env, history, TypeOK, DurableTypes,
     RouteTypes, CallTypes, OtherTypes, CallPcs, None
<1>2. ASSUME NEW c \in Calls, Fetch(c) PROVE TypeOK'
  BY <1>2, CallKnows, HashesAssumption, PkgAssumption, BoundsAssumption DEF Fetch, Return,
     Deployed, TypeOK, DurableTypes, RouteTypes, CallTypes, OtherTypes, CallPcs, None
<1>3. ASSUME NEW c \in Calls, FetchFails(c) PROVE TypeOK'
  BY <1>3, CallKnows, HashesAssumption, PkgAssumption, BoundsAssumption DEF FetchFails,
     Faulty, ReturnErr, Return, TypeOK, DurableTypes, RouteTypes, CallTypes, OtherTypes,
     CallPcs, None
<1>4. ASSUME NEW c \in Calls, Boot(c) PROVE TypeOK'
  <2>1. DurableTypes'
    BY <1>4, CallKnows DEF Boot, TypeOK, DurableTypes
  <2>2. RouteTypes'
    BY <1>4, CallKnows, HashesAssumption DEF Boot, TypeOK, RouteTypes, None
  <2>3. CallTypes'
    BY <1>4, CallKnows DEF Boot, TypeOK, CallTypes, OtherTypes, RouteTypes, CallPcs, None
  <2>4. OtherTypes'
    BY <1>4, CallKnows, BoundsAssumption DEF Boot, TypeOK, OtherTypes
  <2> QED BY <2>1, <2>2, <2>3, <2>4 DEF TypeOK
<1>5. ASSUME NEW c \in Calls, BootFails(c) PROVE TypeOK'
  BY <1>5, CallKnows, HashesAssumption, PkgAssumption, BoundsAssumption DEF BootFails,
     Faulty, ReturnErr, Return, TypeOK, DurableTypes, RouteTypes, CallTypes, OtherTypes,
     CallPcs, None
<1>6. ASSUME NEW c \in Calls, Insert(c) PROVE TypeOK'
  BY <1>6, CallKnows, HashesAssumption, PkgAssumption, BoundsAssumption DEF Insert,
     Insertable, TypeOK, DurableTypes, RouteTypes, CallTypes, OtherTypes, CallPcs, None
<1>7. ASSUME NEW c \in Calls, InsertRefused(c) PROVE TypeOK'
  <2> USE DEF InsertRefused, ReturnErr, Return
  <2>1. DurableTypes'
    BY <1>7, CallKnows, HashesAssumption DEF TypeOK, DurableTypes
  <2>2. RouteTypes'
    BY <1>7, HashesAssumption DEF TypeOK, RouteTypes, None
  <2>3. CallTypes'
    BY <1>7, HashesAssumption DEF TypeOK, CallTypes, CallPcs, None
  <2>4. OtherTypes'
    BY <1>7 DEF TypeOK, OtherTypes
  <2> QED BY <2>1, <2>2, <2>3, <2>4 DEF TypeOK
<1>8. ASSUME NEW c \in Calls, SaveDeployment(c) PROVE TypeOK'
  BY <1>8, CallKnows, HashesAssumption, PkgAssumption, BoundsAssumption DEF SaveDeployment,
     TypeOK, DurableTypes, RouteTypes, CallTypes, OtherTypes, CallPcs, None
<1>9. ASSUME NEW c \in Calls, SaveDeploymentFails(c) PROVE TypeOK'
  BY <1>9, CallKnows, HashesAssumption, PkgAssumption, BoundsAssumption DEF
     SaveDeploymentFails, Faulty, ReturnErr, Return, Unroute, TypeOK, DurableTypes,
     RouteTypes, CallTypes, OtherTypes, CallPcs, None
<1>10. ASSUME NEW c \in Calls, RecordPlacement(c) PROVE TypeOK'
  BY <1>10, CallKnows, HashesAssumption, PkgAssumption, BoundsAssumption DEF
     RecordPlacement, Return, Faulty, TypeOK, DurableTypes, RouteTypes, CallTypes,
     OtherTypes, CallPcs, None
<1>11. ASSUME NEW c \in Calls, Find(c) PROVE TypeOK'
  <2>1. CASE Deployed(old[c])
    <3>1. slot[Pkg[old[c]]] \in Nat \ {None}
      BY <1>11, <2>1, CallKnows DEF Find, Deployed, TypeOK, RouteTypes
    <3>3. RouteTypes'
      BY <1>11, <2>1, <3>1 DEF Find, TypeOK, RouteTypes
    <3>4. CallTypes'
      BY <1>11, <2>1, <3>1, CallKnows DEF Find, TypeOK, CallTypes, CallPcs
    <3>5. DurableTypes' /\ OtherTypes'
      BY <1>11 DEF Find, TypeOK, DurableTypes, OtherTypes
    <3> QED BY <3>3, <3>4, <3>5 DEF TypeOK
  <2>2. CASE ~ Deployed(old[c])
    <3>1. DurableTypes' /\ RouteTypes' /\ OtherTypes'
      BY <1>11, <2>2 DEF Find, TypeOK, DurableTypes, RouteTypes, OtherTypes
    <3>2. UndeployDone(c)
      BY <1>11, <2>2 DEF Find
    <3>3. CallTypes'
      BY <3>2 DEF UndeployDone, Return, TypeOK, CallTypes, CallPcs, None
    <3> QED BY <3>1, <3>3 DEF TypeOK
  <2> QED BY <2>1, <2>2
<1>12. ASSUME NEW c \in Calls, Drained(c) PROVE TypeOK'
  BY <1>12, CallKnows, HashesAssumption, PkgAssumption, BoundsAssumption DEF Drained,
     TypeOK, DurableTypes, RouteTypes, CallTypes, OtherTypes, CallPcs, None
<1>13. ASSUME NEW c \in Calls, DrainTimeout(c) PROVE TypeOK'
  <2>1. DurableTypes'
    BY <1>13, CallKnows DEF DrainTimeout, TypeOK, DurableTypes
  <2>2. RouteTypes'
    BY <1>13, CallKnows, HashesAssumption DEF DrainTimeout, TypeOK, RouteTypes, None
  <2>3. CallTypes'
    BY <1>13, CallKnows DEF DrainTimeout, TypeOK, CallTypes, RouteTypes, CallPcs, None
  <2>4. OtherTypes'
    BY <1>13, CallKnows, BoundsAssumption DEF DrainTimeout, TypeOK, OtherTypes
  <2> QED BY <2>1, <2>2, <2>3, <2>4 DEF TypeOK
<1>14. ASSUME NEW c \in Calls, Remove(c) PROVE TypeOK'
  <2>1. DurableTypes'
    BY <1>14, CallKnows DEF Remove, Unroute, TypeOK, DurableTypes
  <2>2. RouteTypes'
    BY <1>14, CallKnows, HashesAssumption DEF Remove, Unroute, TypeOK, RouteTypes, None
  <2>3. CallTypes'
    BY <1>14, CallKnows DEF Remove, Unroute, TypeOK, CallTypes, RouteTypes, CallPcs, None
  <2>4. OtherTypes'
    BY <1>14, CallKnows, BoundsAssumption DEF Remove, Unroute, TypeOK, OtherTypes
  <2> QED BY <2>1, <2>2, <2>3, <2>4 DEF TypeOK
<1>15. ASSUME NEW c \in Calls, RemovePlacement(c) PROVE TypeOK'
  BY <1>15, CallKnows, HashesAssumption, PkgAssumption, BoundsAssumption DEF
     RemovePlacement, Faulty, TypeOK, DurableTypes, RouteTypes, CallTypes, OtherTypes,
     CallPcs, None
<1>16. ASSUME NEW c \in Calls, RemoveDeployment(c) PROVE TypeOK'
  BY <1>16, CallKnows, HashesAssumption, PkgAssumption, BoundsAssumption DEF
     RemoveDeployment, TypeOK, DurableTypes, RouteTypes, CallTypes, OtherTypes, CallPcs,
     None
<1>17. ASSUME NEW c \in Calls, RemoveDeploymentFails(c) PROVE TypeOK'
  BY <1>17, CallKnows, HashesAssumption, PkgAssumption, BoundsAssumption DEF
     RemoveDeploymentFails, Faulty, ReturnErr, Return, TypeOK, DurableTypes, RouteTypes,
     CallTypes, OtherTypes, CallPcs, None
<1>18. ASSUME NEW c \in Calls, Stop(c) PROVE TypeOK'
  <2>1. DurableTypes'
    BY <1>18, CallKnows DEF Stop, UndeployDone, Return, TypeOK, DurableTypes
  <2>2. RouteTypes'
    BY <1>18, CallKnows, HashesAssumption DEF Stop, UndeployDone, Return, TypeOK, RouteTypes,
       None
  <2>3. CallTypes'
    BY <1>18, CallKnows DEF Stop, UndeployDone, Return, TypeOK, CallTypes, RouteTypes, CallPcs,
       None
  <2>4. OtherTypes'
    BY <1>18, CallKnows, BoundsAssumption DEF Stop, UndeployDone, Return, TypeOK, OtherTypes
  <2> QED BY <2>1, <2>2, <2>3, <2>4 DEF TypeOK
<1>19. ASSUME NEW c \in Calls, StopUnreported(c) PROVE TypeOK'
  BY <1>19, CallKnows, HashesAssumption, PkgAssumption, BoundsAssumption DEF StopUnreported,
     UndeployDone, Return, Faulty, TypeOK, DurableTypes, RouteTypes, CallTypes, OtherTypes,
     CallPcs, None
<1>20. ASSUME NEW c \in Calls, NEW h \in Hashes, Deploy(c, h) PROVE TypeOK'
  BY <1>20, CallKnows, HashesAssumption, PkgAssumption, BoundsAssumption DEF Deploy,
     Deployed, TypeOK, DurableTypes, RouteTypes, CallTypes, OtherTypes, CallPcs, None
<1>21. ASSUME NEW c \in Calls, NEW h \in Hashes, Undeploy(c, h) PROVE TypeOK'
  BY <1>21, CallKnows, HashesAssumption, PkgAssumption, BoundsAssumption DEF Undeploy,
     TypeOK, DurableTypes, RouteTypes, CallTypes, OtherTypes, CallPcs, None
<1>22. ASSUME NEW r \in Requests, NEW p \in Packages, Admit(r, p) PROVE TypeOK'
  BY <1>22, CallKnows, HashesAssumption, PkgAssumption, BoundsAssumption DEF Admit, TypeOK,
     DurableTypes, RouteTypes, CallTypes, OtherTypes, CallPcs, None
<1>23. ASSUME NEW r \in Requests, Begin(r) PROVE TypeOK'
  BY <1>23, CallKnows, HashesAssumption, PkgAssumption, BoundsAssumption DEF Begin, TypeOK,
     DurableTypes, RouteTypes, CallTypes, OtherTypes, CallPcs, None
<1>24. ASSUME NEW r \in Requests, Finish(r) PROVE TypeOK'
  BY <1>24, CallKnows, HashesAssumption, PkgAssumption, BoundsAssumption DEF Finish, TypeOK,
     DurableTypes, RouteTypes, CallTypes, OtherTypes, CallPcs, None
<1>25. CASE Restart
  BY <1>25, CallKnows, HashesAssumption, PkgAssumption, BoundsAssumption DEF Restart,
     Superseded, Faulty, TypeOK, DurableTypes, RouteTypes, CallTypes, OtherTypes, CallPcs,
     None
<1>26. ASSUME NEW c \in Calls, NEW h \in Hashes, RestoreNext(c, h) PROVE TypeOK'
  BY <1>26, CallKnows, HashesAssumption, PkgAssumption, BoundsAssumption DEF RestoreNext,
     Deployed, TypeOK, DurableTypes, RouteTypes, CallTypes, OtherTypes, CallPcs, None
<1>27. CASE Ready
  BY <1>27, CallKnows, HashesAssumption, PkgAssumption, BoundsAssumption DEF Ready, TypeOK,
     DurableTypes, RouteTypes, CallTypes, OtherTypes, CallPcs, None
<1>28. CASE Crash
  BY <1>28, CallKnows, HashesAssumption, PkgAssumption, BoundsAssumption DEF Crash, TypeOK,
     DurableTypes, RouteTypes, CallTypes, OtherTypes, CallPcs, None
<1>29. CASE Tick
  BY <1>29, CallKnows, HashesAssumption, PkgAssumption, BoundsAssumption DEF Tick, TypeOK,
     DurableTypes, RouteTypes, CallTypes, OtherTypes, CallPcs, None
<1> QED
  BY <1>1, <1>2, <1>3, <1>4, <1>5, <1>6, <1>7, <1>8, <1>9, <1>10, <1>11,
     <1>12, <1>13, <1>14, <1>15, <1>16, <1>17, <1>18, <1>19, <1>20, <1>21, <1>22,
     <1>23, <1>24, <1>25, <1>26, <1>27, <1>28, <1>29
  DEF Next, CallStep, RestoreStep

\* The variables always have their types, for every set of packages and hashes
\* and every number of calls and requests.
THEOREM TypeCorrect == Spec => []TypeOK
<1>1. Init => TypeOK
  BY InitInv
<1> QED BY <1>1, TypeStep, PTL DEF Spec

\* A call that returns and leaves the maps alone routes nothing.
LEMMA ReturnKeepsRoutes ==
    ASSUME TypeOK, RouteInv, NEW c \in Calls, Return(c),
           UNCHANGED <<slot, draining, boots, stopped>>
    PROVE  RouteInv'
<1>1. BootsInv'
  BY DEF Return, TypeOK, CallTypes, OtherTypes, RouteInv, BootsInv, None
<1>2. FreshInv'
  BY DEF Return, Goto, TypeOK, CallTypes, RouteInv, FreshInv
<1>3. VictimInv'
  BY DEF Return, Goto, TypeOK, CallTypes, RouteInv, VictimInv
<1>4. StoppedNotRouted'
  BY DEF RouteInv, StoppedNotRouted
<1> QED BY <1>1, <1>2, <1>3, <1>4 DEF RouteInv

\* No step routes an agent that an undeploy has taken out.
LEMMA RouteStep == TypeOK /\ RouteInv /\ [Next]_vars => RouteInv'
<1> SUFFICES ASSUME TypeOK, RouteInv, [Next]_vars PROVE RouteInv'
  OBVIOUS
<1> USE DEF Goto, records, routes, callVars, reqVars, env, history
<1>1. CASE UNCHANGED vars
  BY <1>1 DEF vars, records, routes, callVars, reqVars, env, history, TypeOK, DurableTypes,
     RouteTypes, CallTypes, OtherTypes, CallPcs, None, RouteInv, BootsInv, FreshInv,
     VictimInv, StoppedNotRouted
<1>2. ASSUME NEW c \in Calls, Fetch(c) PROVE RouteInv'
  <2>1. BootsInv'
    BY <1>2, CallKnows DEF Fetch, Return, Deployed, TypeOK, RouteTypes, CallTypes, OtherTypes,
       RouteInv, BootsInv, FreshInv, VictimInv, None
  <2>2. FreshInv'
    BY <1>2, CallKnows DEF Fetch, Return, Deployed, TypeOK, CallTypes, RouteTypes, OtherTypes,
       RouteInv, BootsInv, FreshInv, None
  <2>3. VictimInv'
    BY <1>2, CallKnows DEF Fetch, Return, Deployed, TypeOK, CallTypes, RouteTypes, RouteInv,
       BootsInv, FreshInv, VictimInv, None
  <2>4. StoppedNotRouted'
    BY <1>2, CallKnows DEF Fetch, Return, Deployed, TypeOK, CallTypes, RouteTypes, RouteInv,
       BootsInv, FreshInv, VictimInv, StoppedNotRouted, None
  <2> QED BY <2>1, <2>2, <2>3, <2>4 DEF RouteInv
<1>3. ASSUME NEW c \in Calls, FetchFails(c) PROVE RouteInv'
  <2>1. Return(c) /\ UNCHANGED <<slot, draining, boots, stopped>>
    BY <1>3 DEF FetchFails, ReturnErr
  <2> QED BY <2>1, ReturnKeepsRoutes
<1>4. ASSUME NEW c \in Calls, Boot(c) PROVE RouteInv'
  BY <1>4, CallKnows DEF Boot, TypeOK, DurableTypes, RouteTypes, CallTypes, OtherTypes,
     CallPcs, None, RouteInv, BootsInv, FreshInv, VictimInv, StoppedNotRouted
<1>5. ASSUME NEW c \in Calls, BootFails(c) PROVE RouteInv'
  <2>1. Return(c) /\ UNCHANGED <<slot, draining, boots, stopped>>
    BY <1>5 DEF BootFails, ReturnErr
  <2> QED BY <2>1, ReturnKeepsRoutes
<1>6. ASSUME NEW c \in Calls, Insert(c) PROVE RouteInv'
  BY <1>6, CallKnows DEF Insert, Insertable, TypeOK, DurableTypes, RouteTypes, CallTypes,
     OtherTypes, CallPcs, None, RouteInv, BootsInv, FreshInv, VictimInv, StoppedNotRouted
<1>7. ASSUME NEW c \in Calls, InsertRefused(c) PROVE RouteInv'
  <2>1. Return(c) /\ UNCHANGED <<slot, draining, boots, stopped>>
    BY <1>7 DEF InsertRefused, ReturnErr
  <2> QED BY <2>1, ReturnKeepsRoutes
<1>8. ASSUME NEW c \in Calls, SaveDeployment(c) PROVE RouteInv'
  BY <1>8, CallKnows DEF SaveDeployment, TypeOK, DurableTypes, RouteTypes, CallTypes,
     OtherTypes, CallPcs, None, RouteInv, BootsInv, FreshInv, VictimInv, StoppedNotRouted
<1>9. ASSUME NEW c \in Calls, SaveDeploymentFails(c) PROVE RouteInv'
  BY <1>9, CallKnows DEF SaveDeploymentFails, Faulty, ReturnErr, Return, Unroute, TypeOK,
     DurableTypes, RouteTypes, CallTypes, OtherTypes, CallPcs, None, RouteInv, BootsInv,
     FreshInv, VictimInv, StoppedNotRouted
<1>10. ASSUME NEW c \in Calls, RecordPlacement(c) PROVE RouteInv'
  <2>1. Return(c) /\ UNCHANGED <<slot, draining, boots, stopped>>
    BY <1>10 DEF RecordPlacement
  <2> QED BY <2>1, ReturnKeepsRoutes
<1>11. ASSUME NEW c \in Calls, Find(c) PROVE RouteInv'
  <2>1. CASE Deployed(old[c])
    <3> DEFINE b == slot[Pkg[old[c]]]
    <3>1. b \in Nat \ {None} /\ Pkg[old[c]] \in Packages
      BY <1>11, <2>1, CallKnows DEF Find, Deployed, TypeOK, RouteTypes
    <3>2. /\ draining' = draining \cup {b}
          /\ UNCHANGED <<slot, boots, stopped, fresh, old>>
          /\ victim' = [victim EXCEPT ![c] = b]
          /\ pc' = [pc EXCEPT ![c] = "drain"]
      BY <1>11, <2>1 DEF Find
    <3>3. BootsInv'
      BY <3>1, <3>2 DEF RouteInv, BootsInv
    <3>4. FreshInv'
      BY <3>1, <3>2 DEF TypeOK, CallTypes, RouteInv, FreshInv
    <3>5. VictimInv'
      BY <3>1, <3>2 DEF TypeOK, CallTypes, RouteInv, BootsInv, VictimInv
    <3>6. StoppedNotRouted'
      BY <3>2 DEF RouteInv, StoppedNotRouted
    <3> QED BY <3>3, <3>4, <3>5, <3>6 DEF RouteInv
  <2>2. CASE ~ Deployed(old[c])
    <3>1. UNCHANGED <<slot, boots, stopped, draining>> /\ UndeployDone(c)
      BY <1>11, <2>2 DEF Find
    <3>2. /\ pc' \in {[pc EXCEPT ![c] = "idle"], [pc EXCEPT ![c] = "boot"]}
          /\ victim' = [victim EXCEPT ![c] = None]
          /\ fresh' \in {fresh, [fresh EXCEPT ![c] = None]}
          /\ old' = [old EXCEPT ![c] = None]
      BY <3>1 DEF UndeployDone, Return
    <3>3. BootsInv'
      BY <3>1, <3>2 DEF TypeOK, CallTypes, OtherTypes, RouteInv, BootsInv, None
    <3>4. FreshInv'
      BY <3>1, <3>2 DEF TypeOK, CallTypes, RouteInv, FreshInv
    <3>5. VictimInv'
      BY <3>1, <3>2 DEF TypeOK, CallTypes, RouteInv, VictimInv
    <3>6. StoppedNotRouted'
      BY <3>1 DEF RouteInv, StoppedNotRouted
    <3> QED BY <3>3, <3>4, <3>5, <3>6 DEF RouteInv
  <2> QED BY <2>1, <2>2
<1>12. ASSUME NEW c \in Calls, Drained(c) PROVE RouteInv'
  BY <1>12, CallKnows DEF Drained, TypeOK, DurableTypes, RouteTypes, CallTypes, OtherTypes,
     CallPcs, None, RouteInv, BootsInv, FreshInv, VictimInv, StoppedNotRouted
<1>13. ASSUME NEW c \in Calls, DrainTimeout(c) PROVE RouteInv'
  BY <1>13, CallKnows DEF DrainTimeout, TypeOK, DurableTypes, RouteTypes, CallTypes,
     OtherTypes, CallPcs, None, RouteInv, BootsInv, FreshInv, VictimInv, StoppedNotRouted
<1>14. ASSUME NEW c \in Calls, Remove(c) PROVE RouteInv'
  BY <1>14, CallKnows DEF Remove, Unroute, TypeOK, DurableTypes, RouteTypes, CallTypes,
     OtherTypes, CallPcs, None, RouteInv, BootsInv, FreshInv, VictimInv, StoppedNotRouted
<1>15. ASSUME NEW c \in Calls, RemovePlacement(c) PROVE RouteInv'
  BY <1>15, CallKnows DEF RemovePlacement, Faulty, TypeOK, DurableTypes, RouteTypes,
     CallTypes, OtherTypes, CallPcs, None, RouteInv, BootsInv, FreshInv, VictimInv,
     StoppedNotRouted
<1>16. ASSUME NEW c \in Calls, RemoveDeployment(c) PROVE RouteInv'
  BY <1>16, CallKnows DEF RemoveDeployment, TypeOK, DurableTypes, RouteTypes, CallTypes,
     OtherTypes, CallPcs, None, RouteInv, BootsInv, FreshInv, VictimInv, StoppedNotRouted
<1>17. ASSUME NEW c \in Calls, RemoveDeploymentFails(c) PROVE RouteInv'
  <2>1. Return(c) /\ UNCHANGED <<slot, draining, boots, stopped>>
    BY <1>17 DEF RemoveDeploymentFails, ReturnErr
  <2> QED BY <2>1, ReturnKeepsRoutes
<1>18. ASSUME NEW c \in Calls, Stop(c) PROVE RouteInv'
  <2>1. /\ pc' \in {[pc EXCEPT ![c] = "idle"], [pc EXCEPT ![c] = "boot"]}
        /\ victim' = [victim EXCEPT ![c] = None]
        /\ fresh' \in {fresh, [fresh EXCEPT ![c] = None]}
        /\ old' = [old EXCEPT ![c] = None]
    BY <1>18 DEF Stop, UndeployDone, Return
  <2>2. BootsInv'
    <3>1. victim[c] \in draining
      BY <1>18, CallKnows DEF Stop, RouteInv, VictimInv
    <3>2. stopped' \subseteq draining'
      BY <1>18, <3>1 DEF Stop, RouteInv, BootsInv
    <3> QED BY <1>18, <2>1, <3>2 DEF Stop, TypeOK, CallTypes, OtherTypes, RouteInv, BootsInv, None
  <2>3. FreshInv'
    BY <1>18, <2>1 DEF Stop, TypeOK, CallTypes, RouteInv, FreshInv
  <2>4. VictimInv'
    BY <1>18, <2>1 DEF Stop, TypeOK, CallTypes, RouteInv, VictimInv
  <2>5. StoppedNotRouted'
    BY <1>18, CallKnows DEF Stop, TypeOK, RouteTypes, RouteInv, VictimInv, StoppedNotRouted
  <2> QED BY <2>2, <2>3, <2>4, <2>5 DEF RouteInv
<1>19. ASSUME NEW c \in Calls, StopUnreported(c) PROVE RouteInv'
  <2>1. /\ pc' \in {[pc EXCEPT ![c] = "idle"], [pc EXCEPT ![c] = "boot"]}
        /\ victim' = [victim EXCEPT ![c] = None]
        /\ fresh' \in {fresh, [fresh EXCEPT ![c] = None]}
        /\ old' = [old EXCEPT ![c] = None]
    BY <1>19 DEF StopUnreported, Faulty, UndeployDone, Return
  <2>2. BootsInv'
    BY <1>19, <2>1, CallKnows DEF StopUnreported, Faulty, TypeOK, RouteTypes, CallTypes, OtherTypes, RouteInv,
       BootsInv, VictimInv, None
  <2>3. FreshInv'
    BY <1>19, <2>1 DEF StopUnreported, Faulty, TypeOK, CallTypes, RouteInv, FreshInv
  <2>4. VictimInv'
    BY <1>19, <2>1 DEF StopUnreported, Faulty, TypeOK, CallTypes, RouteInv, VictimInv
  <2>5. StoppedNotRouted'
    BY <1>19, CallKnows DEF StopUnreported, Faulty, TypeOK, RouteTypes, RouteInv, VictimInv, StoppedNotRouted
  <2> QED BY <2>2, <2>3, <2>4, <2>5 DEF RouteInv
<1>20. ASSUME NEW c \in Calls, NEW h \in Hashes, Deploy(c, h) PROVE RouteInv'
  BY <1>20, CallKnows DEF Deploy, Deployed, TypeOK, DurableTypes, RouteTypes, CallTypes,
     OtherTypes, CallPcs, None, RouteInv, BootsInv, FreshInv, VictimInv, StoppedNotRouted
<1>21. ASSUME NEW c \in Calls, NEW h \in Hashes, Undeploy(c, h) PROVE RouteInv'
  BY <1>21, CallKnows DEF Undeploy, TypeOK, DurableTypes, RouteTypes, CallTypes, OtherTypes,
     CallPcs, None, RouteInv, BootsInv, FreshInv, VictimInv, StoppedNotRouted
<1>22. ASSUME NEW r \in Requests, NEW p \in Packages, Admit(r, p) PROVE RouteInv'
  BY <1>22, CallKnows DEF Admit, TypeOK, DurableTypes, RouteTypes, CallTypes, OtherTypes,
     CallPcs, None, RouteInv, BootsInv, FreshInv, VictimInv, StoppedNotRouted
<1>23. ASSUME NEW r \in Requests, Begin(r) PROVE RouteInv'
  BY <1>23, CallKnows DEF Begin, TypeOK, DurableTypes, RouteTypes, CallTypes, OtherTypes,
     CallPcs, None, RouteInv, BootsInv, FreshInv, VictimInv, StoppedNotRouted
<1>24. ASSUME NEW r \in Requests, Finish(r) PROVE RouteInv'
  BY <1>24, CallKnows DEF Finish, TypeOK, DurableTypes, RouteTypes, CallTypes, OtherTypes,
     CallPcs, None, RouteInv, BootsInv, FreshInv, VictimInv, StoppedNotRouted
<1>25. CASE Restart
  BY <1>25, CallKnows DEF Restart, Superseded, Faulty, TypeOK, DurableTypes, RouteTypes,
     CallTypes, OtherTypes, CallPcs, None, RouteInv, BootsInv, FreshInv, VictimInv,
     StoppedNotRouted
<1>26. ASSUME NEW c \in Calls, NEW h \in Hashes, RestoreNext(c, h) PROVE RouteInv'
  BY <1>26, CallKnows DEF RestoreNext, Deployed, TypeOK, DurableTypes, RouteTypes,
     CallTypes, OtherTypes, CallPcs, None, RouteInv, BootsInv, FreshInv, VictimInv,
     StoppedNotRouted
<1>27. CASE Ready
  BY <1>27, CallKnows DEF Ready, TypeOK, DurableTypes, RouteTypes, CallTypes, OtherTypes,
     CallPcs, None, RouteInv, BootsInv, FreshInv, VictimInv, StoppedNotRouted
<1>28. CASE Crash
  BY <1>28, CallKnows DEF Crash, TypeOK, DurableTypes, RouteTypes, CallTypes, OtherTypes,
     CallPcs, None, RouteInv, BootsInv, FreshInv, VictimInv, StoppedNotRouted
<1>29. CASE Tick
  BY <1>29, CallKnows DEF Tick, TypeOK, DurableTypes, RouteTypes, CallTypes, OtherTypes,
     CallPcs, None, RouteInv, BootsInv, FreshInv, VictimInv, StoppedNotRouted
<1> QED
  BY <1>1, <1>2, <1>3, <1>4, <1>5, <1>6, <1>7, <1>8, <1>9, <1>10, <1>11,
     <1>12, <1>13, <1>14, <1>15, <1>16, <1>17, <1>18, <1>19, <1>20, <1>21, <1>22,
     <1>23, <1>24, <1>25, <1>26, <1>27, <1>28, <1>29
  DEF Next, CallStep, RestoreStep

\* However many calls run together, an agent with an AgentStopped event is
\* under no package name any more, although undeploy removes by name and not
\* by agent.
THEOREM StopIsFinal == Spec => []StoppedNotRouted
<1>1. Init => TypeOK /\ RouteInv
  BY InitInv
<1>2. TypeOK /\ RouteInv /\ [Next]_vars => (TypeOK /\ RouteInv)'
  BY TypeStep, RouteStep
<1>3. TypeOK /\ RouteInv => StoppedNotRouted
  BY DEF RouteInv
<1> QED BY <1>1, <1>2, <1>3, PTL DEF Spec

\* The steps of a call that change the maps put an agent where there is none,
\* or take one out.
LEMMA ReplaceStep ==
    TypeOK /\ [Next]_vars =>
        \A p \in Packages : slot[p] # None /\ slot'[p] # slot[p] => slot'[p] = None
<1> DEFINE Kept == \A p \in Packages : slot[p] # None /\ slot'[p] # slot[p] => slot'[p] = None
<1> SUFFICES ASSUME TypeOK, [Next]_vars PROVE Kept
  OBVIOUS
<1> USE DEF records, routes, callVars, reqVars, env, history
<1>1. CASE UNCHANGED vars
  BY <1>1 DEF vars, records, routes, callVars, reqVars, env, history, TypeOK, RouteTypes
<1>2. ASSUME NEW c \in Calls, Fetch(c) PROVE Kept
  BY <1>2 DEF Fetch, Return, Deployed, TypeOK, RouteTypes
<1>3. ASSUME NEW c \in Calls, FetchFails(c) PROVE Kept
  BY <1>3 DEF FetchFails, Faulty, ReturnErr, Return, TypeOK, RouteTypes
<1>4. ASSUME NEW c \in Calls, Boot(c) PROVE Kept
  BY <1>4 DEF Boot, TypeOK, RouteTypes
<1>5. ASSUME NEW c \in Calls, BootFails(c) PROVE Kept
  BY <1>5 DEF BootFails, Faulty, ReturnErr, Return, TypeOK, RouteTypes
<1>6. ASSUME NEW c \in Calls, Insert(c) PROVE Kept
  BY <1>6 DEF Insert, Insertable, TypeOK, RouteTypes
<1>7. ASSUME NEW c \in Calls, InsertRefused(c) PROVE Kept
  BY <1>7 DEF InsertRefused, Insertable, Deployed, ReturnErr, Return, TypeOK, RouteTypes
<1>8. ASSUME NEW c \in Calls, SaveDeployment(c) PROVE Kept
  BY <1>8 DEF SaveDeployment, TypeOK, RouteTypes
<1>9. ASSUME NEW c \in Calls, SaveDeploymentFails(c) PROVE Kept
  BY <1>9 DEF SaveDeploymentFails, Faulty, ReturnErr, Return, Unroute, TypeOK, RouteTypes
<1>10. ASSUME NEW c \in Calls, RecordPlacement(c) PROVE Kept
  BY <1>10 DEF RecordPlacement, Return, Faulty, TypeOK, RouteTypes
<1>11. ASSUME NEW c \in Calls, Find(c) PROVE Kept
  BY <1>11 DEF Find, Deployed, UndeployDone, Return, TypeOK, RouteTypes
<1>12. ASSUME NEW c \in Calls, Drained(c) PROVE Kept
  BY <1>12 DEF Drained, TypeOK, RouteTypes
<1>13. ASSUME NEW c \in Calls, DrainTimeout(c) PROVE Kept
  BY <1>13 DEF DrainTimeout, TypeOK, RouteTypes
<1>14. ASSUME NEW c \in Calls, Remove(c) PROVE Kept
  BY <1>14 DEF Remove, Unroute, TypeOK, RouteTypes
<1>15. ASSUME NEW c \in Calls, RemovePlacement(c) PROVE Kept
  BY <1>15 DEF RemovePlacement, Faulty, TypeOK, RouteTypes
<1>16. ASSUME NEW c \in Calls, RemoveDeployment(c) PROVE Kept
  BY <1>16 DEF RemoveDeployment, TypeOK, RouteTypes
<1>17. ASSUME NEW c \in Calls, RemoveDeploymentFails(c) PROVE Kept
  BY <1>17 DEF RemoveDeploymentFails, Faulty, ReturnErr, Return, TypeOK, RouteTypes
<1>18. ASSUME NEW c \in Calls, Stop(c) PROVE Kept
  BY <1>18 DEF Stop, UndeployDone, Return, TypeOK, RouteTypes
<1>19. ASSUME NEW c \in Calls, StopUnreported(c) PROVE Kept
  BY <1>19 DEF StopUnreported, UndeployDone, Return, Faulty, TypeOK, RouteTypes
<1>20. ASSUME NEW c \in Calls, NEW h \in Hashes, Deploy(c, h) PROVE Kept
  BY <1>20 DEF Deploy, Deployed, TypeOK, RouteTypes
<1>21. ASSUME NEW c \in Calls, NEW h \in Hashes, Undeploy(c, h) PROVE Kept
  BY <1>21 DEF Undeploy, TypeOK, RouteTypes
<1>22. ASSUME NEW r \in Requests, NEW p \in Packages, Admit(r, p) PROVE Kept
  BY <1>22 DEF Admit, TypeOK, RouteTypes
<1>23. ASSUME NEW r \in Requests, Begin(r) PROVE Kept
  BY <1>23 DEF Begin, TypeOK, RouteTypes
<1>24. ASSUME NEW r \in Requests, Finish(r) PROVE Kept
  BY <1>24 DEF Finish, TypeOK, RouteTypes
<1>25. CASE Restart
  BY <1>25 DEF Restart, Superseded, Faulty, TypeOK, RouteTypes
<1>26. ASSUME NEW c \in Calls, NEW h \in Hashes, RestoreNext(c, h) PROVE Kept
  BY <1>26 DEF RestoreNext, Deployed, TypeOK, RouteTypes
<1>27. CASE Ready
  BY <1>27 DEF Ready, TypeOK, RouteTypes
<1>28. CASE Crash
  BY <1>28 DEF Crash, TypeOK, RouteTypes
<1>29. CASE Tick
  BY <1>29 DEF Tick, TypeOK, RouteTypes
<1> QED
  BY <1>1, <1>2, <1>3, <1>4, <1>5, <1>6, <1>7, <1>8, <1>9, <1>10, <1>11,
     <1>12, <1>13, <1>14, <1>15, <1>16, <1>17, <1>18, <1>19, <1>20, <1>21, <1>22,
     <1>23, <1>24, <1>25, <1>26, <1>27, <1>28, <1>29
  DEF Next, CallStep, RestoreStep

\* However many deploys of one package run together, none overwrites the agent
\* of another (the second look at the maps under the write lock).
THEOREM NoOverwrite == Spec => NeverReplaced
<1>1. Spec => []TypeOK
  BY TypeCorrect
<1>2. TypeOK /\ [Next]_vars =>
        [\A p \in Packages : slot[p] # None /\ slot'[p] # slot[p] => slot'[p] = None]_vars
  BY ReplaceStep
<1> QED BY <1>1, <1>2, PTL DEF Spec, NeverReplaced

-----------------------------------------------------------------------------
(* Calls that follow one another *)

\* With one call at a time, no step leaves an agent routed without a record.
LEMMA SerialStep ==
    ASSUME \A c, d \in Calls : c = d, TypeOK, SerialInv, [Next]_vars
    PROVE  SerialInv'
<1> USE DEF Goto, records, routes, callVars, reqVars, env, history
<1>1. CASE UNCHANGED vars
  BY <1>1 DEF vars, records, routes, callVars, reqVars, env, history, TypeOK, DurableTypes,
     RouteTypes, CallTypes, OtherTypes, CallPcs, None, SerialInv, Deployed
<1>2. ASSUME NEW c \in Calls, Fetch(c) PROVE SerialInv'
  BY <1>2, CallKnows DEF Fetch, Return, Deployed, TypeOK, DurableTypes, RouteTypes,
     CallTypes, OtherTypes, CallPcs, None, SerialInv, Deployed
<1>3. ASSUME NEW c \in Calls, FetchFails(c) PROVE SerialInv'
  BY <1>3, CallKnows DEF FetchFails, Faulty, ReturnErr, Return, TypeOK, DurableTypes,
     RouteTypes, CallTypes, OtherTypes, CallPcs, None, SerialInv, Deployed
<1>4. ASSUME NEW c \in Calls, Boot(c) PROVE SerialInv'
  BY <1>4, CallKnows DEF Boot, TypeOK, DurableTypes, RouteTypes, CallTypes, OtherTypes,
     CallPcs, None, SerialInv, Deployed
<1>5. ASSUME NEW c \in Calls, BootFails(c) PROVE SerialInv'
  BY <1>5, CallKnows DEF BootFails, Faulty, ReturnErr, Return, TypeOK, DurableTypes,
     RouteTypes, CallTypes, OtherTypes, CallPcs, None, SerialInv, Deployed
<1>6. ASSUME NEW c \in Calls, Insert(c) PROVE SerialInv'
  BY <1>6, CallKnows DEF Insert, Insertable, TypeOK, DurableTypes, RouteTypes, CallTypes,
     OtherTypes, CallPcs, None, SerialInv, Deployed
<1>7. ASSUME NEW c \in Calls, InsertRefused(c) PROVE SerialInv'
  BY <1>7, CallKnows DEF InsertRefused, Insertable, Deployed, ReturnErr, Return, TypeOK,
     DurableTypes, RouteTypes, CallTypes, OtherTypes, CallPcs, None, SerialInv, Deployed
<1>8. ASSUME NEW c \in Calls, SaveDeployment(c) PROVE SerialInv'
  BY <1>8, CallKnows DEF SaveDeployment, TypeOK, DurableTypes, RouteTypes, CallTypes,
     OtherTypes, CallPcs, None, SerialInv, Deployed
<1>9. ASSUME NEW c \in Calls, SaveDeploymentFails(c) PROVE SerialInv'
  BY <1>9, CallKnows DEF SaveDeploymentFails, Faulty, ReturnErr, Return, Unroute, TypeOK,
     DurableTypes, RouteTypes, CallTypes, OtherTypes, CallPcs, None, SerialInv, Deployed
<1>10. ASSUME NEW c \in Calls, RecordPlacement(c) PROVE SerialInv'
  BY <1>10, CallKnows DEF RecordPlacement, Return, Faulty, TypeOK, DurableTypes, RouteTypes,
     CallTypes, OtherTypes, CallPcs, None, SerialInv, Deployed
<1>11. ASSUME NEW c \in Calls, Find(c) PROVE SerialInv'
  BY <1>11, CallKnows DEF Find, Deployed, UndeployDone, Return, TypeOK, DurableTypes,
     RouteTypes, CallTypes, OtherTypes, CallPcs, None, SerialInv, Deployed
<1>12. ASSUME NEW c \in Calls, Drained(c) PROVE SerialInv'
  BY <1>12, CallKnows DEF Drained, TypeOK, DurableTypes, RouteTypes, CallTypes, OtherTypes,
     CallPcs, None, SerialInv, Deployed
<1>13. ASSUME NEW c \in Calls, DrainTimeout(c) PROVE SerialInv'
  BY <1>13, CallKnows DEF DrainTimeout, TypeOK, DurableTypes, RouteTypes, CallTypes,
     OtherTypes, CallPcs, None, SerialInv, Deployed
<1>14. ASSUME NEW c \in Calls, Remove(c) PROVE SerialInv'
  BY <1>14, CallKnows DEF Remove, Unroute, TypeOK, DurableTypes, RouteTypes, CallTypes,
     OtherTypes, CallPcs, None, SerialInv, Deployed
<1>15. ASSUME NEW c \in Calls, RemovePlacement(c) PROVE SerialInv'
  BY <1>15, CallKnows DEF RemovePlacement, Faulty, TypeOK, DurableTypes, RouteTypes,
     CallTypes, OtherTypes, CallPcs, None, SerialInv, Deployed
<1>16. ASSUME NEW c \in Calls, RemoveDeployment(c) PROVE SerialInv'
  BY <1>16, CallKnows DEF RemoveDeployment, TypeOK, DurableTypes, RouteTypes, CallTypes,
     OtherTypes, CallPcs, None, SerialInv, Deployed
<1>17. ASSUME NEW c \in Calls, RemoveDeploymentFails(c) PROVE SerialInv'
  <2>1. /\ \A h \in Hashes : rec'[h] = rec[h] \/ (h = target[c] /\ mode = "restoring")
        /\ UNCHANGED <<slot, hash, mode>>
        /\ pc[c] = "unrecord"
    BY <1>17 DEF RemoveDeploymentFails, ReturnErr, TypeOK, DurableTypes
  <2>2. \A d \in Calls : target'[d] = None /\ pc'[d] = "idle"
    BY <1>17 DEF RemoveDeploymentFails, ReturnErr, Return, TypeOK, CallTypes
  <2>3. mode # "down" /\ target[c] # None => ~ Deployed(target[c])
    BY <2>1 DEF SerialInv
  <2>4. \A p \in Packages : slot[p] # None => hash[p] \in Hashes /\ Deployed(hash[p])
    BY DEF TypeOK, RouteTypes, Deployed
  <2> QED BY <2>1, <2>2, <2>3, <2>4, HashesAssumption DEF SerialInv, None
<1>18. ASSUME NEW c \in Calls, Stop(c) PROVE SerialInv'
  BY <1>18, CallKnows DEF Stop, UndeployDone, Return, TypeOK, DurableTypes, RouteTypes,
     CallTypes, OtherTypes, CallPcs, None, SerialInv, Deployed
<1>19. ASSUME NEW c \in Calls, StopUnreported(c) PROVE SerialInv'
  BY <1>19, CallKnows DEF StopUnreported, UndeployDone, Return, Faulty, TypeOK,
     DurableTypes, RouteTypes, CallTypes, OtherTypes, CallPcs, None, SerialInv, Deployed
<1>20. ASSUME NEW c \in Calls, NEW h \in Hashes, Deploy(c, h) PROVE SerialInv'
  BY <1>20, CallKnows DEF Deploy, Deployed, TypeOK, DurableTypes, RouteTypes, CallTypes,
     OtherTypes, CallPcs, None, SerialInv, Deployed
<1>21. ASSUME NEW c \in Calls, NEW h \in Hashes, Undeploy(c, h) PROVE SerialInv'
  BY <1>21, CallKnows DEF Undeploy, TypeOK, DurableTypes, RouteTypes, CallTypes, OtherTypes,
     CallPcs, None, SerialInv, Deployed
<1>22. ASSUME NEW r \in Requests, NEW p \in Packages, Admit(r, p) PROVE SerialInv'
  BY <1>22, CallKnows DEF Admit, TypeOK, DurableTypes, RouteTypes, CallTypes, OtherTypes,
     CallPcs, None, SerialInv, Deployed
<1>23. ASSUME NEW r \in Requests, Begin(r) PROVE SerialInv'
  BY <1>23, CallKnows DEF Begin, TypeOK, DurableTypes, RouteTypes, CallTypes, OtherTypes,
     CallPcs, None, SerialInv, Deployed
<1>24. ASSUME NEW r \in Requests, Finish(r) PROVE SerialInv'
  BY <1>24, CallKnows DEF Finish, TypeOK, DurableTypes, RouteTypes, CallTypes, OtherTypes,
     CallPcs, None, SerialInv, Deployed
<1>25. CASE Restart
  <2>1. \A p \in Packages : slot'[p] = None
    BY <1>25 DEF Restart
  <2>2. \A c \in Calls : target[c] # None => Pkg[target[c]] \in Packages
    BY PkgAssumption DEF TypeOK, CallTypes
  <2>3. \A c \in Calls :
          pc[c] \in {"unplace", "unrecord", "stop"} => Pkg[old[c]] \in Packages
    BY CallKnows
  <2> QED BY <1>25, <2>1, <2>2, <2>3 DEF Restart, SerialInv, Deployed
<1>26. ASSUME NEW c \in Calls, NEW h \in Hashes, RestoreNext(c, h) PROVE SerialInv'
  BY <1>26, CallKnows DEF RestoreNext, Deployed, TypeOK, DurableTypes, RouteTypes,
     CallTypes, OtherTypes, CallPcs, None, SerialInv, Deployed
<1>27. CASE Ready
  BY <1>27, CallKnows DEF Ready, TypeOK, DurableTypes, RouteTypes, CallTypes, OtherTypes,
     CallPcs, None, SerialInv, Deployed
<1>28. CASE Crash
  BY <1>28, CallKnows DEF Crash, TypeOK, DurableTypes, RouteTypes, CallTypes, OtherTypes,
     CallPcs, None, SerialInv, Deployed
<1>29. CASE Tick
  BY <1>29, CallKnows DEF Tick, TypeOK, DurableTypes, RouteTypes, CallTypes, OtherTypes,
     CallPcs, None, SerialInv, Deployed
<1> QED
  BY <1>1, <1>2, <1>3, <1>4, <1>5, <1>6, <1>7, <1>8, <1>9, <1>10, <1>11,
     <1>12, <1>13, <1>14, <1>15, <1>16, <1>17, <1>18, <1>19, <1>20, <1>21, <1>22,
     <1>23, <1>24, <1>25, <1>26, <1>27, <1>28, <1>29
  DEF Next, CallStep, RestoreStep

\* When calls follow one another, an agent that is routed between two of them
\* has an active record, whatever failed or crashed before: it will be
\* restored.
THEOREM RecordsBackRoutes ==
    ASSUME \A c, d \in Calls : c = d
    PROVE  Spec => []RoutedHasRecord
<1>1. Init => TypeOK /\ SerialInv
  BY InitInv
<1>2. TypeOK /\ SerialInv /\ [Next]_vars => (TypeOK /\ SerialInv)'
  BY TypeStep, SerialStep
<1>3. TypeOK /\ SerialInv => RoutedHasRecord
  BY DEF SerialInv, RoutedHasRecord, Quiet
<1> QED BY <1>1, <1>2, <1>3, PTL DEF Spec

-----------------------------------------------------------------------------
(* What a crash leaves *)

\* A step that saves no record, lets no time pass and routes nothing.
DatesKept ==
    /\ mode' = "down" => \A c \in Calls : pc'[c] = "idle"
    /\ UNCHANGED <<deployedAt, clock>>
    /\ \A p \in Packages : slot'[p] # None => slot[p] # None /\ hash'[p] = hash[p]
    /\ \A h \in Hashes : rec'[h] = "active" => rec[h] = "active"
    /\ \A c \in Calls : pc'[c] = "save" =>
         pc[c] = "save" /\ UNCHANGED <<slot, hash>> /\ target'[c] = target[c] /\ stamp'[c] = stamp[c]
    /\ \A c \in Calls : pc[c] = "save" =>
         pc'[c] = "save" \/ slot'[Pkg[target[c]]] = None

\* Such a step leaves the dates in order.
LEMMA DateFrame == ASSUME TypeOK, DateInv, DatesKept PROVE DateInv'
<1>1. \A h \in Hashes : deployedAt'[h] <= clock'
  BY DEF DateInv, DatesKept
<1>2. ASSUME NEW c \in Calls, pc'[c] = "save"
      PROVE  Deployed(target[c])' /\ stamp'[c] <= clock' /\ \A h \in Hashes : deployedAt'[h] <= stamp'[c]
  BY <1>2 DEF DateInv, DatesKept, Deployed
<1>3. ASSUME NEW p \in Packages, slot'[p] # None, rec'[hash'[p]] = "active",
             \A c \in Calls : ~ (pc'[c] = "save" /\ Pkg[target'[c]] = p),
             NEW h \in Hashes, Pkg[h] = p, rec'[h] = "active"
      PROVE  deployedAt'[h] <= deployedAt'[hash'[p]]
  <2>1. /\ slot[p] # None /\ hash'[p] = hash[p] /\ hash[p] \in Hashes /\ rec[h] = "active"
        /\ rec[hash[p]] = "active"
    BY <1>3 DEF DatesKept, TypeOK, RouteTypes
  <2>2. \A c \in Calls : ~ (pc[c] = "save" /\ Pkg[target[c]] = p)
    BY <1>3 DEF DatesKept
  <2> QED BY <1>3, <2>1, <2>2 DEF DateInv, DatesKept
<1>4. mode' = "down" => \A c \in Calls : pc'[c] = "idle"
  BY DEF DatesKept
<1> QED BY <1>1, <1>2, <1>3, <1>4 DEF DateInv

\* With one call at a time every step keeps the dates in order.
LEMMA DateStep ==
    ASSUME \A c, d \in Calls : c = d, TypeOK, DateInv, [Next]_vars
    PROVE  DateInv'
<1> USE DEF Goto, records, routes, callVars, reqVars, env, history
<1>1. CASE UNCHANGED vars
  <2>1. DatesKept
    BY <1>1 DEF vars, DatesKept, DateInv
  <2> QED BY <2>1, DateFrame
<1>2. ASSUME NEW c \in Calls, Fetch(c) PROVE DateInv'
  <2>1. DatesKept
    BY <1>2, CallKnows DEF Fetch, Return, DatesKept, DateInv, TypeOK, DurableTypes,
       RouteTypes, CallTypes
  <2> QED BY <2>1, DateFrame
<1>3. ASSUME NEW c \in Calls, FetchFails(c) PROVE DateInv'
  <2>1. DatesKept
    BY <1>3, CallKnows DEF FetchFails, ReturnErr, Return, DatesKept, DateInv, TypeOK,
       DurableTypes, RouteTypes, CallTypes
  <2> QED BY <2>1, DateFrame
<1>4. ASSUME NEW c \in Calls, Boot(c) PROVE DateInv'
  <2>1. DatesKept
    BY <1>4, CallKnows DEF Boot, DatesKept, DateInv, TypeOK, DurableTypes, RouteTypes,
       CallTypes
  <2> QED BY <2>1, DateFrame
<1>5. ASSUME NEW c \in Calls, BootFails(c) PROVE DateInv'
  <2>1. DatesKept
    BY <1>5, CallKnows DEF BootFails, ReturnErr, Return, DatesKept, DateInv, TypeOK,
       DurableTypes, RouteTypes, CallTypes
  <2> QED BY <2>1, DateFrame
<1>6. ASSUME NEW c \in Calls, Insert(c) PROVE DateInv'
  <2>1. /\ target[c] \in Hashes /\ Pkg[target[c]] \in Packages /\ fresh[c] # None
    BY <1>6, CallKnows DEF Insert, None
  <2>2. /\ pc' = [pc EXCEPT ![c] = "save"] /\ UNCHANGED <<rec, deployedAt, clock, target>>
        /\ slot' = [slot EXCEPT ![Pkg[target[c]]] = fresh[c]]
        /\ hash' = [hash EXCEPT ![Pkg[target[c]]] = target[c]]
        /\ stamp' = [stamp EXCEPT ![c] = clock]
        /\ pc[c] = "insert"
    BY <1>6 DEF Insert
  <2>3. ASSUME NEW d \in Calls
        PROVE  Deployed(target[d])' /\ stamp'[d] <= clock' /\ \A h \in Hashes : deployedAt'[h] <= stamp'[d]
    <3>1. d = c
      OBVIOUS
    <3> QED BY <3>1, <2>1, <2>2 DEF DateInv, TypeOK, CallTypes, RouteTypes, OtherTypes, Deployed
  <2>4. ASSUME NEW p \in Packages, slot'[p] # None, rec'[hash'[p]] = "active",
               \A d \in Calls : ~ (pc'[d] = "save" /\ Pkg[target'[d]] = p),
               NEW h \in Hashes, Pkg[h] = p, rec'[h] = "active"
        PROVE  deployedAt'[h] <= deployedAt'[hash'[p]]
    <3>1. p # Pkg[target[c]]
      BY <2>2, <2>4 DEF TypeOK, CallTypes
    <3>2. slot[p] # None /\ hash'[p] = hash[p]
      BY <2>2, <2>4, <3>1 DEF TypeOK, RouteTypes
    <3>3. \A d \in Calls : pc[d] # "save"
      BY <2>2
    <3> QED BY <2>2, <2>4, <3>2, <3>3 DEF DateInv
  <2>5. mode' # "down"
    BY <1>6, <2>2 DEF Insert, DateInv
  <2> QED BY <2>2, <2>3, <2>4, <2>5 DEF DateInv
<1>7. ASSUME NEW c \in Calls, InsertRefused(c) PROVE DateInv'
  <2>1. DatesKept
    BY <1>7, CallKnows DEF InsertRefused, ReturnErr, Return, DatesKept, DateInv, TypeOK,
       DurableTypes, RouteTypes, CallTypes
  <2> QED BY <2>1, DateFrame
<1>8. ASSUME NEW c \in Calls, SaveDeployment(c) PROVE DateInv'
  <2> DEFINE t == target[c]
  <2>1. /\ t \in Hashes /\ Pkg[t] \in Packages /\ Deployed(t) /\ stamp[c] \in Nat
        /\ stamp[c] <= clock /\ \A h \in Hashes : deployedAt[h] <= stamp[c]
    BY <1>8, CallKnows DEF SaveDeployment, DateInv, TypeOK, CallTypes
  <2>2. /\ pc' = [pc EXCEPT ![c] = "place"] /\ UNCHANGED <<slot, hash, clock, target, stamp>>
        /\ rec' = [rec EXCEPT ![t] = "active"]
        /\ deployedAt' = [deployedAt EXCEPT ![t] = stamp[c]]
    BY <1>8 DEF SaveDeployment
  <2>3. \A h \in Hashes : deployedAt'[h] <= stamp[c]
    BY <2>1, <2>2 DEF TypeOK, DurableTypes
  <2>4. \A d \in Calls : pc'[d] # "save"
    BY <2>2 DEF TypeOK, CallTypes
  <2>5. \A h \in Hashes : deployedAt'[h] <= clock'
    BY <2>1, <2>2 DEF DateInv, TypeOK, DurableTypes
  <2>6. ASSUME NEW p \in Packages, slot'[p] # None, rec'[hash'[p]] = "active",
               NEW h \in Hashes, Pkg[h] = p, rec'[h] = "active"
        PROVE  deployedAt'[h] <= deployedAt'[hash'[p]]
    <3>1. CASE p = Pkg[t]
      BY <2>1, <2>2, <2>3, <3>1 DEF Deployed, TypeOK, DurableTypes
    <3>2. CASE p # Pkg[t]
      <4>1. h # t /\ hash[p] \in Hashes /\ hash[p] # t
        BY <2>2, <2>6, <3>2 DEF TypeOK, RouteTypes
      <4>2. rec[h] = "active" /\ rec[hash[p]] = "active" /\ slot[p] # None
        BY <2>2, <2>6, <4>1 DEF TypeOK, DurableTypes
      <4>3. \A d \in Calls : ~ (pc[d] = "save" /\ Pkg[target[d]] = p)
        BY <3>2
      <4> QED BY <2>2, <2>6, <4>1, <4>2, <4>3 DEF DateInv, TypeOK, DurableTypes
    <3> QED BY <3>1, <3>2
  <2>7. mode' # "down"
    BY <1>8, <2>2 DEF SaveDeployment, DateInv
  <2> QED BY <2>4, <2>5, <2>6, <2>7 DEF DateInv
<1>9. ASSUME NEW c \in Calls, SaveDeploymentFails(c) PROVE DateInv'
  <2>1. DatesKept
    BY <1>9, CallKnows DEF SaveDeploymentFails, Unroute, ReturnErr, Return, DatesKept,
       DateInv, TypeOK, DurableTypes, RouteTypes, CallTypes
  <2> QED BY <2>1, DateFrame
<1>10. ASSUME NEW c \in Calls, RecordPlacement(c) PROVE DateInv'
  <2>1. DatesKept
    BY <1>10, CallKnows DEF RecordPlacement, Return, DatesKept, DateInv, TypeOK,
       DurableTypes, RouteTypes, CallTypes
  <2> QED BY <2>1, DateFrame
<1>11. ASSUME NEW c \in Calls, Find(c) PROVE DateInv'
  <2>1. DatesKept
    BY <1>11, CallKnows DEF Find, UndeployDone, Return, DatesKept, DateInv, TypeOK,
       DurableTypes, RouteTypes, CallTypes
  <2> QED BY <2>1, DateFrame
<1>12. ASSUME NEW c \in Calls, Drained(c) PROVE DateInv'
  <2>1. DatesKept
    BY <1>12, CallKnows DEF Drained, DatesKept, DateInv, TypeOK, DurableTypes, RouteTypes,
       CallTypes
  <2> QED BY <2>1, DateFrame
<1>13. ASSUME NEW c \in Calls, DrainTimeout(c) PROVE DateInv'
  <2>1. DatesKept
    BY <1>13, CallKnows DEF DrainTimeout, DatesKept, DateInv, TypeOK, DurableTypes,
       RouteTypes, CallTypes
  <2> QED BY <2>1, DateFrame
<1>14. ASSUME NEW c \in Calls, Remove(c) PROVE DateInv'
  <2>1. DatesKept
    BY <1>14, CallKnows DEF Remove, Unroute, DatesKept, DateInv, TypeOK, DurableTypes,
       RouteTypes, CallTypes
  <2> QED BY <2>1, DateFrame
<1>15. ASSUME NEW c \in Calls, RemovePlacement(c) PROVE DateInv'
  <2>1. DatesKept
    BY <1>15, CallKnows DEF RemovePlacement, DatesKept, DateInv, TypeOK, DurableTypes,
       RouteTypes, CallTypes
  <2> QED BY <2>1, DateFrame
<1>16. ASSUME NEW c \in Calls, RemoveDeployment(c) PROVE DateInv'
  <2>1. DatesKept
    BY <1>16, CallKnows DEF RemoveDeployment, DatesKept, DateInv, TypeOK, DurableTypes,
       RouteTypes, CallTypes
  <2> QED BY <2>1, DateFrame
<1>17. ASSUME NEW c \in Calls, RemoveDeploymentFails(c) PROVE DateInv'
  <2>1. DatesKept
    BY <1>17, CallKnows DEF RemoveDeploymentFails, ReturnErr, Return, DatesKept, DateInv,
       TypeOK, DurableTypes, RouteTypes, CallTypes
  <2> QED BY <2>1, DateFrame
<1>18. ASSUME NEW c \in Calls, Stop(c) PROVE DateInv'
  <2>1. DatesKept
    BY <1>18, CallKnows DEF Stop, UndeployDone, Return, DatesKept, DateInv, TypeOK,
       DurableTypes, RouteTypes, CallTypes
  <2> QED BY <2>1, DateFrame
<1>19. ASSUME NEW c \in Calls, StopUnreported(c) PROVE DateInv'
  <2>1. DatesKept
    BY <1>19, CallKnows DEF StopUnreported, UndeployDone, Return, DatesKept, DateInv,
       TypeOK, DurableTypes, RouteTypes, CallTypes
  <2> QED BY <2>1, DateFrame
<1>20. ASSUME NEW c \in Calls, NEW h \in Hashes, Deploy(c, h) PROVE DateInv'
  <2>1. DatesKept
    BY <1>20, CallKnows DEF Deploy, DatesKept, DateInv, TypeOK, DurableTypes, RouteTypes,
       CallTypes
  <2> QED BY <2>1, DateFrame
<1>21. ASSUME NEW c \in Calls, NEW h \in Hashes, Undeploy(c, h) PROVE DateInv'
  <2>1. DatesKept
    BY <1>21, CallKnows DEF Undeploy, DatesKept, DateInv, TypeOK, DurableTypes, RouteTypes,
       CallTypes
  <2> QED BY <2>1, DateFrame
<1>22. ASSUME NEW r \in Requests, NEW p \in Packages, Admit(r, p) PROVE DateInv'
  <2>1. DatesKept
    BY <1>22, CallKnows DEF Admit, DatesKept, DateInv, TypeOK, DurableTypes, RouteTypes,
       CallTypes
  <2> QED BY <2>1, DateFrame
<1>23. ASSUME NEW r \in Requests, Begin(r) PROVE DateInv'
  <2>1. DatesKept
    BY <1>23, CallKnows DEF Begin, DatesKept, DateInv, TypeOK, DurableTypes, RouteTypes,
       CallTypes
  <2> QED BY <2>1, DateFrame
<1>24. ASSUME NEW r \in Requests, Finish(r) PROVE DateInv'
  <2>1. DatesKept
    BY <1>24, CallKnows DEF Finish, DatesKept, DateInv, TypeOK, DurableTypes, RouteTypes,
       CallTypes
  <2> QED BY <2>1, DateFrame
<1>25. ASSUME Restart PROVE DateInv'
  <2>1. DatesKept
    BY <1>25, CallKnows DEF Restart, DatesKept, DateInv, TypeOK, DurableTypes, RouteTypes,
       CallTypes
  <2> QED BY <2>1, DateFrame
<1>26. ASSUME NEW c \in Calls, NEW h \in Hashes, RestoreNext(c, h) PROVE DateInv'
  <2>1. DatesKept
    BY <1>26, CallKnows DEF RestoreNext, DatesKept, DateInv, TypeOK, DurableTypes,
       RouteTypes, CallTypes
  <2> QED BY <2>1, DateFrame
<1>27. ASSUME Ready PROVE DateInv'
  <2>1. DatesKept
    BY <1>27, CallKnows DEF Ready, DatesKept, DateInv, TypeOK, DurableTypes, RouteTypes,
       CallTypes
  <2> QED BY <2>1, DateFrame
<1>28. ASSUME Crash PROVE DateInv'
  <2>1. DatesKept
    BY <1>28, CallKnows DEF Crash, DatesKept, DateInv, TypeOK, DurableTypes, RouteTypes,
       CallTypes
  <2> QED BY <2>1, DateFrame
<1>29. ASSUME Tick PROVE DateInv'
  <2>1. clock' = clock + 1 /\ clock \in Nat /\ UNCHANGED <<mode, records, routes, callVars>>
    BY <1>29 DEF Tick, TypeOK, OtherTypes
  <2>2. \A h \in Hashes : deployedAt[h] \in Nat
    BY DEF TypeOK, DurableTypes
  <2>3. \A c \in Calls : stamp[c] \in Nat
    BY DEF TypeOK, CallTypes
  <2>4. \A c \in Calls : Deployed(target[c])' = Deployed(target[c])
    BY <2>1 DEF Deployed
  <2> QED BY <2>1, <2>2, <2>3, <2>4 DEF DateInv
<1> QED
  BY <1>1, <1>2, <1>3, <1>4, <1>5, <1>6, <1>7, <1>8, <1>9, <1>10, <1>11, <1>12, <1>13,
     <1>14, <1>15, <1>16, <1>17, <1>18, <1>19, <1>20, <1>21, <1>22, <1>23, <1>24, <1>25,
     <1>26, <1>27, <1>28, <1>29 DEF Next, CallStep, RestoreStep

\* What the runner starts with has no dates.
LEMMA InitDate == Init => DateInv
  BY DEF Init, DateInv, None

\* When calls follow one another, a start of the runner restores the agent that was deployed
\* when it went down, however many store writes and boots have failed before, and whatever
\* records those failures have left behind; only a record saved within the same second can
\* take its place.
THEOREM RestoreIsFaithful ==
    ASSUME \A c, d \in Calls : c = d
    PROVE  Spec => RestoreKeepsRouted
<1> DEFINE Keeps == Restart => \A p \in Packages :
         slot[p] # None /\ rec[hash[p]] = "active" =>
           \/ hash[p] \in toRestore'
           \/ \E g \in Hashes : /\ g # hash[p] /\ Pkg[g] = p /\ rec[g] = "active"
                                /\ deployedAt[g] = deployedAt[hash[p]]
<1>1. Init => TypeOK /\ DateInv
  BY InitInv, InitDate
<1>2. TypeOK /\ DateInv /\ [Next]_vars => (TypeOK /\ DateInv)'
  BY TypeStep, DateStep
<1>3. TypeOK /\ DateInv => Keeps
  <2> SUFFICES ASSUME TypeOK, DateInv, Restart,
                      NEW p \in Packages, slot[p] # None, rec[hash[p]] = "active",
                      hash[p] \notin toRestore'
               PROVE  \E g \in Hashes : /\ g # hash[p] /\ Pkg[g] = p /\ rec[g] = "active"
                                        /\ deployedAt[g] = deployedAt[hash[p]]
    OBVIOUS
  <2>1. hash[p] \in Hashes /\ Pkg[hash[p]] = p
    BY DEF TypeOK, RouteTypes
  <2>2. hash[p] \in Superseded
    BY <2>1 DEF Restart
  <2>3. PICK g \in Hashes : Pkg[g] = p /\ rec[g] # "none" /\ BetterForRestore(g, hash[p])
    BY <2>1, <2>2 DEF Superseded
  <2>4. rec[g] = "active" /\ g # hash[p] /\ deployedAt[g] >= deployedAt[hash[p]]
    <3>1. rec[g] = "active"
      BY <2>3 DEF BetterForRestore
    <3>2. /\ deployedAt[g] \in Nat /\ deployedAt[hash[p]] \in Nat
          /\ g \in Nat /\ hash[p] \in Nat
      BY <2>1, HashesAssumption DEF TypeOK, DurableTypes
    <3>3. deployedAt[g] > deployedAt[hash[p]] \/ (deployedAt[g] = deployedAt[hash[p]] /\ g > hash[p])
      BY <2>3, <3>1 DEF BetterForRestore
    <3> QED BY <3>1, <3>2, <3>3
  <2>5. deployedAt[g] <= deployedAt[hash[p]]
    <3>1. \A c \in Calls : pc[c] # "save"
      BY DEF Restart, DateInv
    <3> QED BY <2>3, <2>4, <3>1 DEF DateInv
  <2> QED BY <2>1, <2>3, <2>4, <2>5 DEF TypeOK, DurableTypes
<1>4. TypeOK /\ DateInv => [Keeps]_vars
  BY <1>3
<1> QED BY <1>1, <1>2, <1>4, PTL DEF Spec, RestoreKeepsRouted
-----------------------------------------------------------------------------
(* Calls that follow one another, while nothing fails *)

\* A failure is counted.
LEMMA FaultCounts == ASSUME TypeOK, Faulty PROVE faults' # 0
  BY DEF Faulty, TypeOK, OtherTypes

\* With one call at a time, and as long as nothing fails, every step keeps records,
\* placements and maps in accord.
LEMMA CleanStep ==
    ASSUME \A c, d \in Calls : c = d, TypeOK, DateInv, CleanInv, [Next]_vars
    PROVE  CleanInv'
<1> DEFINE CallsClean == \A c \in Calls : CallClean(c)
<1> SUFFICES ASSUME faults' = 0
             PROVE  CallsClean' /\ RecordsClean' /\ ActiveClean' /\ PlacedClean'
  BY DEF CleanInv
<1>0. ASSUME faults = 0 PROVE CallsClean /\ RecordsClean /\ ActiveClean /\ PlacedClean
  BY <1>0 DEF CleanInv
<1> DEFINE Kept == CallsClean' /\ RecordsClean' /\ ActiveClean' /\ PlacedClean'
<1> USE DEF Goto, records, routes, callVars, reqVars, env, history
<1>1. ASSUME UNCHANGED vars PROVE Kept
  BY <1>0, <1>1 DEF vars, CallClean, RecordsClean, ActiveClean, PlacedClean, Deployed, Underway
<1>2. ASSUME NEW c \in Calls, Fetch(c) PROVE Kept
  <2>1. CallsClean /\ RecordsClean /\ ActiveClean /\ PlacedClean
    BY <1>2, <1>0 DEF Fetch
  <2>2. CallsClean'
    BY <1>2, <2>1, CallKnows, HashesAssumption DEF Fetch, Return, TypeOK, DurableTypes,
       RouteTypes, CallTypes, CallClean, RecordsClean, Deployed, None, PlacedClean
  <2>3. RecordsClean'
    BY <1>2, <2>1, CallKnows DEF Fetch, Return, TypeOK, DurableTypes, RouteTypes, CallTypes,
       CallClean, RecordsClean, Deployed, None
  <2>4. ActiveClean'
    BY <1>2, <2>1, CallKnows, HashesAssumption DEF Fetch, Return, TypeOK, DurableTypes,
       RouteTypes, CallTypes, CallClean, RecordsClean, ActiveClean, Underway, Deployed, None
  <2>5. PlacedClean'
    BY <1>2, <2>1, CallKnows DEF Fetch, Return, TypeOK, DurableTypes, RouteTypes, CallTypes,
       CallClean, RecordsClean, PlacedClean, Deployed, None
  <2> QED BY <2>2, <2>3, <2>4, <2>5
<1>3. ASSUME NEW c \in Calls, FetchFails(c) PROVE Kept
  BY <1>3, FaultCounts DEF FetchFails
<1>4. ASSUME NEW c \in Calls, Boot(c) PROVE Kept
  <2>1. CallsClean /\ RecordsClean /\ ActiveClean /\ PlacedClean
    BY <1>4, <1>0 DEF Boot
  <2>2. CallsClean'
    BY <1>4, <2>1, CallKnows, HashesAssumption DEF Boot, TypeOK, DurableTypes, RouteTypes,
       CallTypes, CallClean, RecordsClean, Deployed, None, PlacedClean
  <2>3. RecordsClean'
    BY <1>4, <2>1, CallKnows DEF Boot, TypeOK, DurableTypes, RouteTypes, CallTypes,
       CallClean, RecordsClean, Deployed, None
  <2>4. ActiveClean'
    BY <1>4, <2>1, CallKnows, HashesAssumption DEF Boot, TypeOK, DurableTypes, RouteTypes,
       CallTypes, CallClean, RecordsClean, ActiveClean, Underway, Deployed, None
  <2>5. PlacedClean'
    BY <1>4, <2>1, CallKnows DEF Boot, TypeOK, DurableTypes, RouteTypes, CallTypes,
       CallClean, RecordsClean, PlacedClean, Deployed, None
  <2> QED BY <2>2, <2>3, <2>4, <2>5
<1>5. ASSUME NEW c \in Calls, BootFails(c) PROVE Kept
  BY <1>5, FaultCounts DEF BootFails
<1>6. ASSUME NEW c \in Calls, Insert(c) PROVE Kept
  <2>1. CallsClean /\ RecordsClean /\ ActiveClean /\ PlacedClean
    BY <1>6, <1>0 DEF Insert
  <2>2. CallsClean'
    BY <1>6, <2>1, CallKnows, HashesAssumption DEF Insert, Insertable, TypeOK, DurableTypes,
       RouteTypes, CallTypes, CallClean, RecordsClean, Deployed, None, PlacedClean
  <2>3. RecordsClean'
    BY <1>6, <2>1, CallKnows DEF Insert, Insertable, TypeOK, DurableTypes, RouteTypes,
       CallTypes, CallClean, RecordsClean, Deployed, None
  <2>4. ActiveClean'
    BY <1>6, <2>1, CallKnows, HashesAssumption DEF Insert, Insertable, TypeOK, DurableTypes,
       RouteTypes, CallTypes, CallClean, RecordsClean, ActiveClean, Underway, Deployed, None
  <2>5. PlacedClean'
    BY <1>6, <2>1, CallKnows DEF Insert, Insertable, TypeOK, DurableTypes, RouteTypes,
       CallTypes, CallClean, RecordsClean, PlacedClean, Deployed, None
  <2> QED BY <2>2, <2>3, <2>4, <2>5
<1>7. ASSUME NEW c \in Calls, InsertRefused(c) PROVE Kept
  <2>1. CallsClean /\ RecordsClean /\ ActiveClean /\ PlacedClean
    BY <1>7, <1>0 DEF InsertRefused
  <2>2. CallsClean'
    BY <1>7, <2>1, CallKnows, HashesAssumption DEF InsertRefused, Insertable, ReturnErr,
       Return, TypeOK, DurableTypes, RouteTypes, CallTypes, CallClean, RecordsClean,
       Deployed, None, PlacedClean
  <2>3. RecordsClean'
    BY <1>7, <2>1, CallKnows DEF InsertRefused, Insertable, ReturnErr, Return, TypeOK,
       DurableTypes, RouteTypes, CallTypes, CallClean, RecordsClean, Deployed, None
  <2>4. ActiveClean'
    BY <1>7, <2>1, CallKnows, HashesAssumption DEF InsertRefused, Insertable, ReturnErr,
       Return, TypeOK, DurableTypes, RouteTypes, CallTypes, CallClean, RecordsClean,
       ActiveClean, Underway, Deployed, None
  <2>5. PlacedClean'
    BY <1>7, <2>1, CallKnows DEF InsertRefused, Insertable, ReturnErr, Return, TypeOK,
       DurableTypes, RouteTypes, CallTypes, CallClean, RecordsClean, PlacedClean, Deployed,
       None
  <2> QED BY <2>2, <2>3, <2>4, <2>5
<1>8. ASSUME NEW c \in Calls, SaveDeployment(c) PROVE Kept
  <2>1. CallsClean /\ RecordsClean /\ ActiveClean /\ PlacedClean
    BY <1>8, <1>0 DEF SaveDeployment
  <2>2. CallsClean'
    BY <1>8, <2>1, CallKnows, HashesAssumption DEF SaveDeployment, TypeOK, DurableTypes,
       RouteTypes, CallTypes, CallClean, RecordsClean, Deployed, None, PlacedClean
  <2>3. RecordsClean'
    <3> DEFINE t == target[c]
    <3>1. /\ rec' = [rec EXCEPT ![t] = "active"] /\ UNCHANGED <<mode, toRestore>>
          /\ pc[c] = "save" /\ t \in Hashes /\ Deployed(t)
      BY <1>8, <2>1, CallKnows DEF SaveDeployment, CallClean
    <3>2. ASSUME NEW g \in Hashes, rec[g] = "active", Pkg[g] = Pkg[t] PROVE g = t
      <4>1. CASE mode = "restoring"
        BY <2>1, <3>1, <3>2, <4>1 DEF CallClean, RecordsClean
      <4>2. CASE mode # "restoring"
        <5>1. g \notin toRestore /\ mode # "down"
          BY <2>1, <3>1, <4>2 DEF RecordsClean, DateInv
        <5>2. Deployed(g) \/ Underway(c, g)
          BY <2>1, <3>2, <5>1 DEF ActiveClean
        <5> QED BY <3>1, <3>2, <5>2 DEF Deployed, Underway
      <4> QED BY <4>1, <4>2
    <3>3. \A h \in Hashes : rec'[h] = IF h = t THEN "active" ELSE rec[h]
      BY <3>1 DEF TypeOK, DurableTypes
    <3> QED BY <2>1, <3>1, <3>2, <3>3 DEF RecordsClean, TypeOK, DurableTypes
  <2>4. ActiveClean'
    BY <1>8, <2>1, CallKnows, HashesAssumption DEF SaveDeployment, TypeOK, DurableTypes,
       RouteTypes, CallTypes, CallClean, RecordsClean, ActiveClean, Underway, Deployed, None
  <2>5. PlacedClean'
    BY <1>8, <2>1, CallKnows DEF SaveDeployment, TypeOK, DurableTypes, RouteTypes,
       CallTypes, CallClean, RecordsClean, PlacedClean, Deployed, None
  <2> QED BY <2>2, <2>3, <2>4, <2>5
<1>9. ASSUME NEW c \in Calls, SaveDeploymentFails(c) PROVE Kept
  BY <1>9, FaultCounts DEF SaveDeploymentFails
<1>10. ASSUME NEW c \in Calls, RecordPlacement(c) PROVE Kept
  <2>1. CallsClean /\ RecordsClean /\ ActiveClean /\ PlacedClean
    BY <1>10, <1>0, FaultCounts DEF RecordPlacement
  <2>2. CallsClean'
    BY <1>10, <2>1, CallKnows, FaultCounts, HashesAssumption DEF RecordPlacement, Return,
       TypeOK, DurableTypes, RouteTypes, CallTypes, CallClean, RecordsClean, Deployed, None,
       PlacedClean
  <2>3. RecordsClean'
    BY <1>10, <2>1, CallKnows, FaultCounts DEF RecordPlacement, Return, TypeOK,
       DurableTypes, RouteTypes, CallTypes, CallClean, RecordsClean, Deployed, None
  <2>4. ActiveClean'
    BY <1>10, <2>1, CallKnows, FaultCounts, HashesAssumption DEF RecordPlacement, Return,
       TypeOK, DurableTypes, RouteTypes, CallTypes, CallClean, RecordsClean, ActiveClean,
       Underway, Deployed, None
  <2>5. PlacedClean'
    <3> DEFINE t == target[c]
    <3>1. /\ placed' = placed \cup {Pkg[t]} /\ UNCHANGED <<rec, slot, mode>>
          /\ t \in Hashes /\ rec[t] = "active" /\ pc[c] = "place"
      BY <1>10, <2>1, FaultCounts, CallKnows DEF RecordPlacement, CallClean
    <3>2. \A p \in placed' : \E h \in Hashes : Pkg[h] = p /\ rec'[h] = "active"
      BY <2>1, <3>1 DEF PlacedClean
    <3>3. ASSUME mode # "down", NEW p \in Packages, slot[p] # None PROVE p \in placed'
      BY <2>1, <3>1, <3>3 DEF PlacedClean
    <3> QED BY <3>1, <3>2, <3>3 DEF PlacedClean
  <2> QED BY <2>2, <2>3, <2>4, <2>5
<1>11. ASSUME NEW c \in Calls, Find(c) PROVE Kept
  <2>1. CallsClean /\ RecordsClean /\ ActiveClean /\ PlacedClean
    BY <1>11, <1>0 DEF Find
  <2>2. CallsClean'
    BY <1>11, <2>1, CallKnows, HashesAssumption DEF Find, UndeployDone, Return, Deployed,
       TypeOK, DurableTypes, RouteTypes, CallTypes, CallClean, RecordsClean, None,
       PlacedClean
  <2>3. RecordsClean'
    BY <1>11, <2>1, CallKnows DEF Find, UndeployDone, Return, Deployed, TypeOK,
       DurableTypes, RouteTypes, CallTypes, CallClean, RecordsClean, None
  <2>4. ActiveClean'
    BY <1>11, <2>1, CallKnows, HashesAssumption DEF Find, UndeployDone, Return, Deployed,
       TypeOK, DurableTypes, RouteTypes, CallTypes, CallClean, RecordsClean, ActiveClean,
       Underway, None
  <2>5. PlacedClean'
    BY <1>11, <2>1, CallKnows DEF Find, UndeployDone, Return, Deployed, TypeOK,
       DurableTypes, RouteTypes, CallTypes, CallClean, RecordsClean, PlacedClean, None
  <2> QED BY <2>2, <2>3, <2>4, <2>5
<1>12. ASSUME NEW c \in Calls, Drained(c) PROVE Kept
  <2>1. CallsClean /\ RecordsClean /\ ActiveClean /\ PlacedClean
    BY <1>12, <1>0 DEF Drained
  <2>2. CallsClean'
    BY <1>12, <2>1, CallKnows, HashesAssumption DEF Drained, TypeOK, DurableTypes,
       RouteTypes, CallTypes, CallClean, RecordsClean, Deployed, None, PlacedClean
  <2>3. RecordsClean'
    BY <1>12, <2>1, CallKnows DEF Drained, TypeOK, DurableTypes, RouteTypes, CallTypes,
       CallClean, RecordsClean, Deployed, None
  <2>4. ActiveClean'
    BY <1>12, <2>1, CallKnows, HashesAssumption DEF Drained, TypeOK, DurableTypes,
       RouteTypes, CallTypes, CallClean, RecordsClean, ActiveClean, Underway, Deployed, None
  <2>5. PlacedClean'
    BY <1>12, <2>1, CallKnows DEF Drained, TypeOK, DurableTypes, RouteTypes, CallTypes,
       CallClean, RecordsClean, PlacedClean, Deployed, None
  <2> QED BY <2>2, <2>3, <2>4, <2>5
<1>13. ASSUME NEW c \in Calls, DrainTimeout(c) PROVE Kept
  <2>1. CallsClean /\ RecordsClean /\ ActiveClean /\ PlacedClean
    BY <1>13, <1>0 DEF DrainTimeout
  <2>2. CallsClean'
    BY <1>13, <2>1, CallKnows, HashesAssumption DEF DrainTimeout, TypeOK, DurableTypes,
       RouteTypes, CallTypes, CallClean, RecordsClean, Deployed, None, PlacedClean
  <2>3. RecordsClean'
    BY <1>13, <2>1, CallKnows DEF DrainTimeout, TypeOK, DurableTypes, RouteTypes, CallTypes,
       CallClean, RecordsClean, Deployed, None
  <2>4. ActiveClean'
    BY <1>13, <2>1, CallKnows, HashesAssumption DEF DrainTimeout, TypeOK, DurableTypes,
       RouteTypes, CallTypes, CallClean, RecordsClean, ActiveClean, Underway, Deployed, None
  <2>5. PlacedClean'
    BY <1>13, <2>1, CallKnows DEF DrainTimeout, TypeOK, DurableTypes, RouteTypes, CallTypes,
       CallClean, RecordsClean, PlacedClean, Deployed, None
  <2> QED BY <2>2, <2>3, <2>4, <2>5
<1>14. ASSUME NEW c \in Calls, Remove(c) PROVE Kept
  <2>1. CallsClean /\ RecordsClean /\ ActiveClean /\ PlacedClean
    BY <1>14, <1>0 DEF Remove
  <2>2. CallsClean'
    BY <1>14, <2>1, CallKnows, HashesAssumption DEF Remove, Unroute, TypeOK, DurableTypes,
       RouteTypes, CallTypes, CallClean, RecordsClean, Deployed, None, PlacedClean
  <2>3. RecordsClean'
    BY <1>14, <2>1, CallKnows DEF Remove, Unroute, TypeOK, DurableTypes, RouteTypes,
       CallTypes, CallClean, RecordsClean, Deployed, None
  <2>4. ActiveClean'
    BY <1>14, <2>1, CallKnows, HashesAssumption DEF Remove, Unroute, TypeOK, DurableTypes,
       RouteTypes, CallTypes, CallClean, RecordsClean, ActiveClean, Underway, Deployed, None
  <2>5. PlacedClean'
    BY <1>14, <2>1, CallKnows DEF Remove, Unroute, TypeOK, DurableTypes, RouteTypes,
       CallTypes, CallClean, RecordsClean, PlacedClean, Deployed, None
  <2> QED BY <2>2, <2>3, <2>4, <2>5
<1>15. ASSUME NEW c \in Calls, RemovePlacement(c) PROVE Kept
  <2>1. CallsClean /\ RecordsClean /\ ActiveClean /\ PlacedClean
    BY <1>15, <1>0, FaultCounts DEF RemovePlacement
  <2>2. CallsClean'
    BY <1>15, <2>1, CallKnows, FaultCounts, HashesAssumption DEF RemovePlacement, TypeOK,
       DurableTypes, RouteTypes, CallTypes, CallClean, RecordsClean, Deployed, None,
       PlacedClean
  <2>3. RecordsClean'
    BY <1>15, <2>1, CallKnows, FaultCounts DEF RemovePlacement, TypeOK, DurableTypes,
       RouteTypes, CallTypes, CallClean, RecordsClean, Deployed, None
  <2>4. ActiveClean'
    BY <1>15, <2>1, CallKnows, FaultCounts, HashesAssumption DEF RemovePlacement, TypeOK,
       DurableTypes, RouteTypes, CallTypes, CallClean, RecordsClean, ActiveClean, Underway,
       Deployed, None
  <2>5. PlacedClean'
    BY <1>15, <2>1, CallKnows, FaultCounts DEF RemovePlacement, TypeOK, DurableTypes,
       RouteTypes, CallTypes, CallClean, RecordsClean, PlacedClean, Deployed, None
  <2> QED BY <2>2, <2>3, <2>4, <2>5
<1>16. ASSUME NEW c \in Calls, RemoveDeployment(c) PROVE Kept
  <2>1. CallsClean /\ RecordsClean /\ ActiveClean /\ PlacedClean
    BY <1>16, <1>0 DEF RemoveDeployment
  <2>2. CallsClean'
    BY <1>16, <2>1, CallKnows, HashesAssumption DEF RemoveDeployment, TypeOK, DurableTypes,
       RouteTypes, CallTypes, CallClean, RecordsClean, Deployed, None, PlacedClean
  <2>3. RecordsClean'
    <3>1. /\ rec' = [rec EXCEPT ![old[c]] = "none"] /\ UNCHANGED <<mode, toRestore>>
          /\ old[c] \in Hashes /\ pc[c] = "unrecord"
      BY <1>16, CallKnows DEF RemoveDeployment
    <3>2. \A h \in Hashes : rec'[h] = IF h = old[c] THEN "none" ELSE rec[h]
      BY <3>1 DEF TypeOK, DurableTypes
    <3>3. old[c] \notin toRestore
      <4>1. CASE mode = "restoring"
        <5>1. /\ target[c] \in Hashes /\ rec[target[c]] = "active"
              /\ Pkg[old[c]] = Pkg[target[c]] /\ old[c] # target[c]
          BY <2>1, <3>1, <4>1 DEF CallClean, TypeOK, CallTypes
        <5> QED BY <2>1, <3>1, <5>1 DEF RecordsClean
      <4>2. CASE mode # "restoring"
        BY <2>1, <4>2 DEF RecordsClean
      <4> QED BY <4>1, <4>2
    <3>4. \A h \in toRestore' : rec'[h] = "active"
      BY <2>1, <3>1, <3>2, <3>3 DEF RecordsClean, TypeOK, DurableTypes
    <3> QED BY <2>1, <3>1, <3>2, <3>4 DEF RecordsClean
  <2>4. ActiveClean'
    BY <1>16, <2>1, CallKnows, HashesAssumption DEF RemoveDeployment, TypeOK, DurableTypes,
       RouteTypes, CallTypes, CallClean, RecordsClean, ActiveClean, Underway, Deployed, None
  <2>5. PlacedClean'
    BY <1>16, <2>1, CallKnows DEF RemoveDeployment, TypeOK, DurableTypes, RouteTypes,
       CallTypes, CallClean, RecordsClean, PlacedClean, Deployed, None
  <2> QED BY <2>2, <2>3, <2>4, <2>5
<1>17. ASSUME NEW c \in Calls, RemoveDeploymentFails(c) PROVE Kept
  BY <1>17, FaultCounts DEF RemoveDeploymentFails
<1>18. ASSUME NEW c \in Calls, Stop(c) PROVE Kept
  <2>1. CallsClean /\ RecordsClean /\ ActiveClean /\ PlacedClean
    BY <1>18, <1>0 DEF Stop
  <2>2. CallsClean'
    BY <1>18, <2>1, CallKnows, HashesAssumption DEF Stop, UndeployDone, Return, TypeOK,
       DurableTypes, RouteTypes, CallTypes, CallClean, RecordsClean, Deployed, None,
       PlacedClean
  <2>3. RecordsClean'
    BY <1>18, <2>1, CallKnows DEF Stop, UndeployDone, Return, TypeOK, DurableTypes,
       RouteTypes, CallTypes, CallClean, RecordsClean, Deployed, None
  <2>4. ActiveClean'
    BY <1>18, <2>1, CallKnows, HashesAssumption DEF Stop, UndeployDone, Return, TypeOK,
       DurableTypes, RouteTypes, CallTypes, CallClean, RecordsClean, ActiveClean, Underway,
       Deployed, None
  <2>5. PlacedClean'
    BY <1>18, <2>1, CallKnows DEF Stop, UndeployDone, Return, TypeOK, DurableTypes,
       RouteTypes, CallTypes, CallClean, RecordsClean, PlacedClean, Deployed, None
  <2> QED BY <2>2, <2>3, <2>4, <2>5
<1>19. ASSUME NEW c \in Calls, StopUnreported(c) PROVE Kept
  BY <1>19, FaultCounts DEF StopUnreported
<1>20. ASSUME NEW c \in Calls, NEW h \in Hashes, Deploy(c, h) PROVE Kept
  <2>1. CallsClean /\ RecordsClean /\ ActiveClean /\ PlacedClean
    BY <1>20, <1>0 DEF Deploy
  <2>2. CallsClean'
    BY <1>20, <2>1, CallKnows, HashesAssumption DEF Deploy, TypeOK, DurableTypes,
       RouteTypes, CallTypes, CallClean, RecordsClean, Deployed, None, PlacedClean
  <2>3. RecordsClean'
    BY <1>20, <2>1, CallKnows DEF Deploy, TypeOK, DurableTypes, RouteTypes, CallTypes,
       CallClean, RecordsClean, Deployed, None
  <2>4. ActiveClean'
    BY <1>20, <2>1, CallKnows, HashesAssumption DEF Deploy, TypeOK, DurableTypes,
       RouteTypes, CallTypes, CallClean, RecordsClean, ActiveClean, Underway, Deployed, None
  <2>5. PlacedClean'
    BY <1>20, <2>1, CallKnows DEF Deploy, TypeOK, DurableTypes, RouteTypes, CallTypes,
       CallClean, RecordsClean, PlacedClean, Deployed, None
  <2> QED BY <2>2, <2>3, <2>4, <2>5
<1>21. ASSUME NEW c \in Calls, NEW h \in Hashes, Undeploy(c, h) PROVE Kept
  <2>1. CallsClean /\ RecordsClean /\ ActiveClean /\ PlacedClean
    BY <1>21, <1>0 DEF Undeploy
  <2>2. CallsClean'
    BY <1>21, <2>1, CallKnows, HashesAssumption DEF Undeploy, TypeOK, DurableTypes,
       RouteTypes, CallTypes, CallClean, RecordsClean, Deployed, None, PlacedClean
  <2>3. RecordsClean'
    BY <1>21, <2>1, CallKnows DEF Undeploy, TypeOK, DurableTypes, RouteTypes, CallTypes,
       CallClean, RecordsClean, Deployed, None
  <2>4. ActiveClean'
    BY <1>21, <2>1, CallKnows, HashesAssumption DEF Undeploy, TypeOK, DurableTypes,
       RouteTypes, CallTypes, CallClean, RecordsClean, ActiveClean, Underway, Deployed, None
  <2>5. PlacedClean'
    BY <1>21, <2>1, CallKnows DEF Undeploy, TypeOK, DurableTypes, RouteTypes, CallTypes,
       CallClean, RecordsClean, PlacedClean, Deployed, None
  <2> QED BY <2>2, <2>3, <2>4, <2>5
<1>22. ASSUME NEW r \in Requests, NEW p \in Packages, Admit(r, p) PROVE Kept
  <2>1. CallsClean /\ RecordsClean /\ ActiveClean /\ PlacedClean
    BY <1>22, <1>0 DEF Admit
  <2>2. CallsClean'
    BY <1>22, <2>1 DEF Admit, TypeOK, DurableTypes, RouteTypes, CallTypes, CallClean,
       RecordsClean, Deployed, None, PlacedClean
  <2>3. RecordsClean'
    BY <1>22, <2>1 DEF Admit, TypeOK, DurableTypes, RouteTypes, CallTypes, CallClean,
       RecordsClean, Deployed, None
  <2>4. ActiveClean'
    BY <1>22, <2>1 DEF Admit, TypeOK, DurableTypes, RouteTypes, CallTypes, CallClean,
       RecordsClean, ActiveClean, Underway, Deployed, None
  <2>5. PlacedClean'
    BY <1>22, <2>1 DEF Admit, TypeOK, DurableTypes, RouteTypes, CallTypes, CallClean,
       RecordsClean, PlacedClean, Deployed, None
  <2> QED BY <2>2, <2>3, <2>4, <2>5
<1>23. ASSUME NEW r \in Requests, Begin(r) PROVE Kept
  <2>1. CallsClean /\ RecordsClean /\ ActiveClean /\ PlacedClean
    BY <1>23, <1>0 DEF Begin
  <2>2. CallsClean'
    BY <1>23, <2>1 DEF Begin, TypeOK, DurableTypes, RouteTypes, CallTypes, CallClean,
       RecordsClean, Deployed, None, PlacedClean
  <2>3. RecordsClean'
    BY <1>23, <2>1 DEF Begin, TypeOK, DurableTypes, RouteTypes, CallTypes, CallClean,
       RecordsClean, Deployed, None
  <2>4. ActiveClean'
    BY <1>23, <2>1 DEF Begin, TypeOK, DurableTypes, RouteTypes, CallTypes, CallClean,
       RecordsClean, ActiveClean, Underway, Deployed, None
  <2>5. PlacedClean'
    BY <1>23, <2>1 DEF Begin, TypeOK, DurableTypes, RouteTypes, CallTypes, CallClean,
       RecordsClean, PlacedClean, Deployed, None
  <2> QED BY <2>2, <2>3, <2>4, <2>5
<1>24. ASSUME NEW r \in Requests, Finish(r) PROVE Kept
  <2>1. CallsClean /\ RecordsClean /\ ActiveClean /\ PlacedClean
    BY <1>24, <1>0 DEF Finish
  <2>2. CallsClean'
    BY <1>24, <2>1 DEF Finish, TypeOK, DurableTypes, RouteTypes, CallTypes, CallClean,
       RecordsClean, Deployed, None, PlacedClean
  <2>3. RecordsClean'
    BY <1>24, <2>1 DEF Finish, TypeOK, DurableTypes, RouteTypes, CallTypes, CallClean,
       RecordsClean, Deployed, None
  <2>4. ActiveClean'
    BY <1>24, <2>1 DEF Finish, TypeOK, DurableTypes, RouteTypes, CallTypes, CallClean,
       RecordsClean, ActiveClean, Underway, Deployed, None
  <2>5. PlacedClean'
    BY <1>24, <2>1 DEF Finish, TypeOK, DurableTypes, RouteTypes, CallTypes, CallClean,
       RecordsClean, PlacedClean, Deployed, None
  <2> QED BY <2>2, <2>3, <2>4, <2>5
<1>25. ASSUME Restart PROVE Kept
  <2>1. CallsClean /\ RecordsClean /\ PlacedClean /\ \A c \in Calls : pc[c] = "idle"
    BY <1>25, <1>0, FaultCounts DEF Restart, DateInv
  <2>2. Superseded = {}
    <3> SUFFICES ASSUME NEW h \in Hashes, rec[h] # "none", NEW g \in Hashes, Pkg[g] = Pkg[h],
                        rec[g] # "none", BetterForRestore(g, h)
                 PROVE  FALSE
      BY DEF Superseded
    <3>1. rec[g] = "active" /\ rec[h] = "active"
      BY <2>1 DEF RecordsClean, TypeOK, DurableTypes
    <3>2. g = h
      BY <2>1, <3>1 DEF RecordsClean
    <3>3. h \in Nat /\ deployedAt[h] \in Nat
      BY HashesAssumption DEF TypeOK, DurableTypes
    <3> QED BY <3>2, <3>3 DEF BetterForRestore
  <2>3. /\ mode' = "restoring" /\ UNCHANGED <<placed, callVars>>
        /\ toRestore' = {h \in Hashes : rec[h] # "none"}
        /\ \A h \in Hashes : rec'[h] = rec[h]
        /\ \A p \in Packages : slot'[p] = None
    BY <1>25, <2>2 DEF Restart
  <2>4. CallsClean'
    BY <2>1, <2>3 DEF CallClean
  <2>5. RecordsClean'
    BY <2>1, <2>3 DEF RecordsClean, TypeOK, DurableTypes
  <2>6. ActiveClean'
    BY <2>3 DEF ActiveClean
  <2>7. PlacedClean'
    BY <2>1, <2>3 DEF PlacedClean
  <2> QED BY <2>4, <2>5, <2>6, <2>7
<1>26. ASSUME NEW c \in Calls, NEW h \in Hashes, RestoreNext(c, h) PROVE Kept
  <2>1. CallsClean /\ RecordsClean /\ ActiveClean /\ PlacedClean
    BY <1>26, <1>0 DEF RestoreNext
  <2>2. CallsClean'
    BY <1>26, <2>1, CallKnows, HashesAssumption DEF RestoreNext, TypeOK, DurableTypes,
       RouteTypes, CallTypes, CallClean, RecordsClean, Deployed, None, PlacedClean
  <2>3. RecordsClean'
    BY <1>26, <2>1, CallKnows DEF RestoreNext, TypeOK, DurableTypes, RouteTypes, CallTypes,
       CallClean, RecordsClean, Deployed, None
  <2>4. ActiveClean'
    BY <1>26, <2>1, CallKnows, HashesAssumption DEF RestoreNext, TypeOK, DurableTypes,
       RouteTypes, CallTypes, CallClean, RecordsClean, ActiveClean, Underway, Deployed, None
  <2>5. PlacedClean'
    BY <1>26, <2>1, CallKnows DEF RestoreNext, TypeOK, DurableTypes, RouteTypes, CallTypes,
       CallClean, RecordsClean, PlacedClean, Deployed, None
  <2> QED BY <2>2, <2>3, <2>4, <2>5
<1>27. ASSUME Ready PROVE Kept
  <2>1. CallsClean /\ RecordsClean /\ ActiveClean /\ PlacedClean
    BY <1>27, <1>0 DEF Ready
  <2>2. CallsClean'
    BY <1>27, <2>1 DEF Ready, TypeOK, DurableTypes, RouteTypes, CallTypes, CallClean,
       RecordsClean, Deployed, None, PlacedClean
  <2>3. RecordsClean'
    BY <1>27, <2>1 DEF Ready, TypeOK, DurableTypes, RouteTypes, CallTypes, CallClean,
       RecordsClean, Deployed, None
  <2>4. ActiveClean'
    BY <1>27, <2>1 DEF Ready, TypeOK, DurableTypes, RouteTypes, CallTypes, CallClean,
       RecordsClean, ActiveClean, Underway, Deployed, None
  <2>5. PlacedClean'
    BY <1>27, <2>1 DEF Ready, TypeOK, DurableTypes, RouteTypes, CallTypes, CallClean,
       RecordsClean, PlacedClean, Deployed, None
  <2> QED BY <2>2, <2>3, <2>4, <2>5
<1>28. ASSUME Crash PROVE Kept
  <2>1. CallsClean /\ RecordsClean /\ ActiveClean /\ PlacedClean
    BY <1>28, <1>0 DEF Crash
  <2>2. CallsClean'
    BY <1>28, <2>1 DEF Crash, TypeOK, DurableTypes, RouteTypes, CallTypes, CallClean,
       RecordsClean, Deployed, None, PlacedClean, DateInv
  <2>3. RecordsClean'
    BY <1>28, <2>1 DEF Crash, TypeOK, DurableTypes, RouteTypes, CallTypes, CallClean,
       RecordsClean, Deployed, None, DateInv
  <2>4. ActiveClean'
    BY <1>28, <2>1 DEF Crash, TypeOK, DurableTypes, RouteTypes, CallTypes, CallClean,
       RecordsClean, ActiveClean, Underway, Deployed, None, DateInv
  <2>5. PlacedClean'
    BY <1>28, <2>1 DEF Crash, TypeOK, DurableTypes, RouteTypes, CallTypes, CallClean,
       RecordsClean, PlacedClean, Deployed, None, DateInv
  <2> QED BY <2>2, <2>3, <2>4, <2>5
<1>29. ASSUME Tick PROVE Kept
  <2>1. CallsClean /\ RecordsClean /\ ActiveClean /\ PlacedClean
    BY <1>29, <1>0 DEF Tick
  <2>2. CallsClean'
    BY <1>29, <2>1 DEF Tick, TypeOK, DurableTypes, RouteTypes, CallTypes, CallClean,
       RecordsClean, Deployed, None, PlacedClean
  <2>3. RecordsClean'
    BY <1>29, <2>1 DEF Tick, TypeOK, DurableTypes, RouteTypes, CallTypes, CallClean,
       RecordsClean, Deployed, None
  <2>4. ActiveClean'
    BY <1>29, <2>1 DEF Tick, TypeOK, DurableTypes, RouteTypes, CallTypes, CallClean,
       RecordsClean, ActiveClean, Underway, Deployed, None
  <2>5. PlacedClean'
    BY <1>29, <2>1 DEF Tick, TypeOK, DurableTypes, RouteTypes, CallTypes, CallClean,
       RecordsClean, PlacedClean, Deployed, None
  <2> QED BY <2>2, <2>3, <2>4, <2>5
<1> QED
  BY <1>1, <1>2, <1>3, <1>4, <1>5, <1>6, <1>7, <1>8, <1>9, <1>10, <1>11, <1>12, <1>13,
     <1>14, <1>15, <1>16, <1>17, <1>18, <1>19, <1>20, <1>21, <1>22, <1>23, <1>24, <1>25,
     <1>26, <1>27, <1>28, <1>29 DEF Next, CallStep, RestoreStep

\* Nothing is deployed, recorded or placed at first.
LEMMA InitClean == Init => CleanInv
  BY HashesAssumption
     DEF Init, CleanInv, CallClean, RecordsClean, ActiveClean, PlacedClean, Deployed, None

\* The invariants of calls that follow one another hold together.
LEMMA CleanInvariant ==
    ASSUME \A c, d \in Calls : c = d
    PROVE  Spec => [](TypeOK /\ DateInv /\ CleanInv)
<1>1. Init => TypeOK /\ DateInv /\ CleanInv
  BY InitInv, InitDate, InitClean
<1>2. TypeOK /\ DateInv /\ CleanInv /\ [Next]_vars => (TypeOK /\ DateInv /\ CleanInv)'
  BY TypeStep, DateStep, CleanStep
<1> QED BY <1>1, <1>2, PTL DEF Spec

\* When calls follow one another and nothing has failed, an active record is that of a routed
\* agent between two calls, whenever the runner crashed and was started again.
THEOREM RecordsAreRouted ==
    ASSUME \A c, d \in Calls : c = d
    PROVE  Spec => []ActiveIsRouted
<1>1. TypeOK /\ DateInv /\ CleanInv => ActiveIsRouted
  BY HashesAssumption DEF CleanInv, RecordsClean, ActiveClean, Underway, ActiveIsRouted, Quiet
<1> QED BY <1>1, CleanInvariant, PTL

\* When calls follow one another and nothing has failed, the placements are those of the
\* routed packages between two calls: what a crash left half done is made good by the restore.
THEOREM PlacementsAreRoutes ==
    ASSUME \A c, d \in Calls : c = d
    PROVE  Spec => []PlacementsMatchRoutes
<1>1. TypeOK /\ DateInv /\ CleanInv => PlacementsMatchRoutes
  <2> SUFFICES ASSUME TypeOK, DateInv, CleanInv, Quiet, faults = 0
               PROVE  placed = {p \in Packages : slot[p] # None}
    BY DEF PlacementsMatchRoutes
  <2>1. ActiveIsRouted
    BY HashesAssumption DEF CleanInv, RecordsClean, ActiveClean, Underway, ActiveIsRouted, Quiet
  <2>2. ASSUME NEW p \in placed PROVE p \in Packages /\ slot[p] # None
    BY <2>1 DEF ActiveIsRouted, Quiet, CleanInv, PlacedClean, Deployed, TypeOK, DurableTypes
  <2>3. ASSUME NEW p \in Packages, slot[p] # None PROVE p \in placed
    BY <2>3 DEF Quiet, CleanInv, PlacedClean
  <2> QED BY <2>2, <2>3
<1> QED BY <1>1, CleanInvariant, PTL
=============================================================================
