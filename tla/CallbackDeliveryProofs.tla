----------------------- MODULE CallbackDeliveryProofs -----------------------
(***************************************************************************)
(* Proofs, for every value of the constants, of the safety properties of   *)
(* CallbackDelivery and of its refinement of AtLeastOnceDelivery.          *)
(***************************************************************************)
EXTENDS CallbackDelivery, TLAPS

\* Only rows that exist and were not cancelled are marked emitted, and only
\* emitted rows have been handed to agents.
EmittedInv ==
    /\ \A c \in emitted : status[c] \in {"pending", "delivered"}
    /\ handed \subseteq emitted

\* Whatever a checkpoint names, in memory or on disk, and every delivered row
\* had a clean publish; within a batch, what is neither waiting nor in hand
\* nor failed had one too.
CleanInv ==
    /\ cp \subseteq clean /\ savedCp \subseteq clean
    /\ DeliveredWasAccepted
    /\ pc \in {"dispatch", "fanout"} =>
          \A c \in batch : c \in todo \cup cur \cup failed \cup clean

IInv ==
    /\ TypeOK
    /\ ClaimedStaysPending
    /\ EmittedInv
    /\ CleanInv
    /\ DedupeUnique

-----------------------------------------------------------------------------
\* The immutable part of a row names a turn of the instance.
LEMMA RequestTurn == ASSUME TypeOK, NEW c \in Callbacks
                     PROVE  req[c].turn \in Turns /\ req[c].after \in Nat
BY RequestsAssumption DEF TypeOK

\* A runner starts with an empty table and an idle poll loop.
LEMMA InitInv == Init => IInv
<1> SUFFICES ASSUME Init PROVE IInv
  OBVIOUS
<1>1. TypeOK
  BY DEF Init, TypeOK, Statuses, PollPhases
<1>2. ClaimedStaysPending /\ EmittedInv /\ CleanInv
  BY DEF Init, ClaimedStaysPending, EmittedInv, CleanInv, DeliveredWasAccepted
<1>3. DedupeUnique
  BY DEF Init, DedupeUnique, Withdrawable
<1> QED BY <1>1, <1>2, <1>3 DEF IInv

\* Every step keeps the types.
LEMMA TypeStep == TypeOK /\ [Next]_vars => TypeOK'
<1> SUFFICES ASSUME TypeOK, [Next]_vars PROVE TypeOK'
  OBVIOUS
<1> USE BoundsAssumption DEF TypeOK, Statuses, PollPhases, store, process, loop, env, history
<1>1. CASE UNCHANGED vars
  BY <1>1 DEF vars
<1>2. ASSUME NEW t \in Turns, StartTurn(t) \/ EndTurn(t) \/ LoseClient(t) PROVE TypeOK'
  BY <1>2 DEF StartTurn, EndTurn, LoseClient
<1>3. ASSUME NEW c \in Callbacks, ScheduleCallback(c) PROVE TypeOK'
  <2>1. now + req[c].after \in Nat
    BY RequestTurn
  <2> QED BY <1>3, <2>1 DEF ScheduleCallback
<1>4. ASSUME NEW c \in Callbacks, CancelCallback(c) PROVE TypeOK'
  BY <1>4 DEF CancelCallback
<1>5. ASSUME NEW a \in Agents, Deploy(a) \/ Undeploy(a) PROVE TypeOK'
  BY <1>5 DEF Deploy, Undeploy
<1>6. CASE Tick \/ Crash \/ Restart \/ StoreFails
  BY <1>6 DEF Tick, Crash, Restart, StoreFails, PollLocalsDropped
<1>7. CASE Reconcile \/ SettleBatch \/ PersistCheckpoint
  BY <1>7 DEF Reconcile, SettleBatch, PersistCheckpoint, PollLocalsDropped
<1>8. CASE ListDue \/ ClaimEmission
  BY <1>8 DEF ListDue, ClaimEmission, DueCallbacks, Eligible
<1>9. ASSUME NEW c \in Callbacks, AskGate(c) PROVE TypeOK'
  BY <1>9 DEF AskGate
<1>10. ASSUME NEW c \in Callbacks, PublishEvent(c) PROVE TypeOK'
  BY <1>10 DEF PublishEvent, Subscribers, IsFirst
<1>11. ASSUME NEW a \in Agents, AgentAccepts(a) \/ AgentRejects(a) \/ DispatchRefused(a) \/ TargetGone(a)
       PROVE TypeOK'
  BY <1>11 DEF AgentAccepts, AgentRejects, DispatchRefused, TargetGone, FanOutStep
<1> QED
  BY <1>1, <1>2, <1>3, <1>4, <1>5, <1>6, <1>7, <1>8, <1>9, <1>10, <1>11 DEF Next, PollStep

\* The variables always have their types, for every set of callbacks,
\* agents and requests.
THEOREM TypeCorrect == Spec => []TypeOK
<1>1. Init => TypeOK
  BY InitInv DEF IInv
<1> QED BY <1>1, TypeStep, PTL DEF Spec

-----------------------------------------------------------------------------
\* A claimed batch stays pending and emitted while it is dispatched.
LEMMA ClaimStep == TypeOK /\ ClaimedStaysPending /\ [Next]_vars => ClaimedStaysPending'
<1> SUFFICES ASSUME TypeOK, ClaimedStaysPending, [Next]_vars PROVE ClaimedStaysPending'
  OBVIOUS
<1> USE DEF TypeOK, Statuses, ClaimedStaysPending, store, process, loop, env, history
<1>1. CASE UNCHANGED vars
  BY <1>1 DEF vars
<1>2. ASSUME NEW t \in Turns, StartTurn(t) \/ EndTurn(t) \/ LoseClient(t) PROVE ClaimedStaysPending'
  BY <1>2 DEF StartTurn, EndTurn, LoseClient
<1>3. ASSUME NEW c \in Callbacks, ScheduleCallback(c) PROVE ClaimedStaysPending'
  BY <1>3 DEF ScheduleCallback
<1>4. ASSUME NEW c \in Callbacks, CancelCallback(c) PROVE ClaimedStaysPending'
  BY <1>4 DEF CancelCallback, Withdrawable
<1>5. ASSUME NEW a \in Agents, Deploy(a) \/ Undeploy(a) PROVE ClaimedStaysPending'
  BY <1>5 DEF Deploy, Undeploy
<1>6. CASE Tick \/ Crash \/ Restart \/ StoreFails
  BY <1>6 DEF Tick, Crash, Restart, StoreFails
<1>7. CASE Reconcile \/ SettleBatch \/ PersistCheckpoint \/ ListDue
  BY <1>7 DEF Reconcile, SettleBatch, PersistCheckpoint, ListDue
<1>8. CASE ClaimEmission
  BY <1>8 DEF ClaimEmission, Eligible
<1>9. ASSUME NEW c \in Callbacks, AskGate(c) \/ PublishEvent(c) PROVE ClaimedStaysPending'
  BY <1>9 DEF AskGate, PublishEvent
<1>10. ASSUME NEW a \in Agents, AgentAccepts(a) \/ AgentRejects(a) \/ DispatchRefused(a) \/ TargetGone(a)
       PROVE ClaimedStaysPending'
  BY <1>10 DEF AgentAccepts, AgentRejects, DispatchRefused, TargetGone, FanOutStep
<1> QED
  BY <1>1, <1>2, <1>3, <1>4, <1>5, <1>6, <1>7, <1>8, <1>9, <1>10 DEF Next, PollStep

\* Rows are handed out only from a claimed batch, and no emitted row is cancelled.
LEMMA EmittedStep ==
    TypeOK /\ ClaimedStaysPending /\ EmittedInv /\ [Next]_vars => EmittedInv'
<1> SUFFICES ASSUME TypeOK, ClaimedStaysPending, EmittedInv, [Next]_vars PROVE EmittedInv'
  OBVIOUS
<1> USE DEF TypeOK, Statuses, EmittedInv, store, process, loop, env, history
<1>1. CASE UNCHANGED vars
  BY <1>1 DEF vars
<1>2. ASSUME NEW t \in Turns, StartTurn(t) \/ EndTurn(t) \/ LoseClient(t) PROVE EmittedInv'
  BY <1>2 DEF StartTurn, EndTurn, LoseClient
<1>3. ASSUME NEW c \in Callbacks, ScheduleCallback(c) PROVE EmittedInv'
  BY <1>3 DEF ScheduleCallback
<1>4. ASSUME NEW c \in Callbacks, CancelCallback(c) PROVE EmittedInv'
  BY <1>4 DEF CancelCallback, Withdrawable
<1>5. ASSUME NEW a \in Agents, Deploy(a) \/ Undeploy(a) PROVE EmittedInv'
  BY <1>5 DEF Deploy, Undeploy
<1>6. CASE Tick \/ Crash \/ Restart \/ StoreFails
  BY <1>6 DEF Tick, Crash, Restart, StoreFails
<1>7. CASE Reconcile \/ SettleBatch \/ PersistCheckpoint \/ ListDue
  BY <1>7 DEF Reconcile, SettleBatch, PersistCheckpoint, ListDue
<1>8. CASE ClaimEmission
  BY <1>8 DEF ClaimEmission, Eligible
<1>9. ASSUME NEW c \in Callbacks, AskGate(c) \/ PublishEvent(c) PROVE EmittedInv'
  BY <1>9 DEF AskGate, PublishEvent
<1>10. ASSUME NEW a \in Agents, AgentAccepts(a) \/ AgentRejects(a) \/ DispatchRefused(a) \/ TargetGone(a)
       PROVE EmittedInv'
  BY <1>10 DEF AgentAccepts, AgentRejects, DispatchRefused, TargetGone, FanOutStep, ClaimedStaysPending
<1> QED
  BY <1>1, <1>2, <1>3, <1>4, <1>5, <1>6, <1>7, <1>8, <1>9, <1>10 DEF Next, PollStep

\* The checkpoint advances only to a batch all of which had a clean publish.
LEMMA CleanStep == TypeOK /\ CleanInv /\ [Next]_vars => CleanInv'
<1> SUFFICES ASSUME TypeOK, CleanInv, [Next]_vars PROVE CleanInv'
  OBVIOUS
<1> USE DEF TypeOK, Statuses, CleanInv, DeliveredWasAccepted, store, process, loop, env, history
<1>1. CASE UNCHANGED vars
  BY <1>1 DEF vars
<1>2. ASSUME NEW t \in Turns, StartTurn(t) \/ EndTurn(t) \/ LoseClient(t) PROVE CleanInv'
  BY <1>2 DEF StartTurn, EndTurn, LoseClient
<1>3. ASSUME NEW c \in Callbacks, ScheduleCallback(c) PROVE CleanInv'
  BY <1>3 DEF ScheduleCallback
<1>4. ASSUME NEW c \in Callbacks, CancelCallback(c) PROVE CleanInv'
  BY <1>4 DEF CancelCallback
<1>5. ASSUME NEW a \in Agents, Deploy(a) \/ Undeploy(a) PROVE CleanInv'
  BY <1>5 DEF Deploy, Undeploy
<1>6. CASE Tick \/ Crash \/ Restart \/ StoreFails
  BY <1>6 DEF Tick, Crash, Restart, StoreFails
<1>7. CASE Reconcile \/ PersistCheckpoint \/ ListDue
  BY <1>7 DEF Reconcile, PersistCheckpoint, ListDue
<1>8. CASE ClaimEmission
  BY <1>8 DEF ClaimEmission
<1>9. CASE SettleBatch
  BY <1>9 DEF SettleBatch
<1>10. ASSUME NEW c \in Callbacks, AskGate(c) PROVE CleanInv'
  BY <1>10 DEF AskGate
<1>11. ASSUME NEW c \in Callbacks, PublishEvent(c) PROVE CleanInv'
  BY <1>11 DEF PublishEvent
<1>12. ASSUME NEW a \in Agents, AgentAccepts(a) \/ AgentRejects(a) \/ DispatchRefused(a) \/ TargetGone(a)
       PROVE CleanInv'
  BY <1>12 DEF AgentAccepts, AgentRejects, DispatchRefused, TargetGone, FanOutStep
<1> QED
  BY <1>1, <1>2, <1>3, <1>4, <1>5, <1>6, <1>7, <1>8, <1>9, <1>10, <1>11, <1>12 DEF Next, PollStep

\* The lookup under the lock keeps dedupe keys unique.
LEMMA DedupeStep == TypeOK /\ DedupeUnique /\ [Next]_vars => DedupeUnique'
<1> SUFFICES ASSUME TypeOK, DedupeUnique, [Next]_vars PROVE DedupeUnique'
  OBVIOUS
<1> USE DEF TypeOK, Statuses, DedupeUnique, Withdrawable, SameDedupe,
            store, process, loop, env, history
<1>1. CASE UNCHANGED vars
  BY <1>1 DEF vars
<1>2. ASSUME NEW t \in Turns, StartTurn(t) \/ EndTurn(t) \/ LoseClient(t) PROVE DedupeUnique'
  BY <1>2 DEF StartTurn, EndTurn, LoseClient
<1>3. ASSUME NEW c \in Callbacks, ScheduleCallback(c) PROVE DedupeUnique'
  BY <1>3 DEF ScheduleCallback, DedupeHit
<1>4. ASSUME NEW c \in Callbacks, CancelCallback(c) PROVE DedupeUnique'
  BY <1>4 DEF CancelCallback
<1>5. ASSUME NEW a \in Agents, Deploy(a) \/ Undeploy(a) PROVE DedupeUnique'
  BY <1>5 DEF Deploy, Undeploy
<1>6. CASE Tick \/ Crash \/ Restart \/ StoreFails
  BY <1>6 DEF Tick, Crash, Restart, StoreFails
<1>7. CASE Reconcile \/ SettleBatch \/ PersistCheckpoint \/ ListDue
  BY <1>7 DEF Reconcile, SettleBatch, PersistCheckpoint, ListDue
<1>8. CASE ClaimEmission
  BY <1>8 DEF ClaimEmission
<1>9. ASSUME NEW c \in Callbacks, AskGate(c) \/ PublishEvent(c) PROVE DedupeUnique'
  BY <1>9 DEF AskGate, PublishEvent
<1>10. ASSUME NEW a \in Agents, AgentAccepts(a) \/ AgentRejects(a) \/ DispatchRefused(a) \/ TargetGone(a)
       PROVE DedupeUnique'
  BY <1>10 DEF AgentAccepts, AgentRejects, DispatchRefused, TargetGone, FanOutStep
<1> QED
  BY <1>1, <1>2, <1>3, <1>4, <1>5, <1>6, <1>7, <1>8, <1>9, <1>10 DEF Next, PollStep

\* The inductive invariant holds in every reachable state.
LEMMA Invariant == Spec => []IInv
<1>1. IInv /\ [Next]_vars => IInv'
  BY TypeStep, ClaimStep, EmittedStep, CleanStep, DedupeStep DEF IInv
<1> QED BY InitInv, <1>1, PTL DEF Spec

\* A successful cancel is final: a cancelled callback never reached an agent.
THEOREM CancelIsFinal == Spec => []CancelledNeverHanded
<1>1. IInv => CancelledNeverHanded
  BY DEF IInv, TypeOK, EmittedInv, CancelledNeverHanded
<1> QED BY Invariant, <1>1, PTL

\* A delivered callback was accepted by all of at least one matched subscriber.
THEOREM DeliveryIsEarned == Spec => []DeliveredWasAccepted
<1>1. IInv => DeliveredWasAccepted
  BY DEF IInv, CleanInv
<1> QED BY Invariant, <1>1, PTL

\* No row of a claimed batch is cancelled or reconciled during its dispatch.
THEOREM ClaimHolds == Spec => []ClaimedStaysPending
<1>1. IInv => ClaimedStaysPending
  BY DEF IInv
<1> QED BY Invariant, <1>1, PTL

\* A dedupe key is unique among the callbacks that can still be withdrawn.
THEOREM DedupeHolds == Spec => []DedupeUnique
<1>1. IInv => DedupeUnique
  BY DEF IInv
<1> QED BY Invariant, <1>1, PTL

-----------------------------------------------------------------------------
\* The abstract queue sees a step only through the rows' status, the hand-overs
\* and the clean publishes.
LEMMA Stutter ==
    UNCHANGED <<status, handed, clean>> => UNCHANGED AtLeastOnce!vars
BY DEF AtLeastOnce!vars

\* Every step of the callback path is a step of the abstract queue or leaves it
\* alone.
LEMMA RefinementStep ==
    IInv /\ [Next]_vars => [AtLeastOnce!Next]_AtLeastOnce!vars
<1> SUFFICES ASSUME IInv, [Next]_vars PROVE [AtLeastOnce!Next]_AtLeastOnce!vars
  OBVIOUS
<1> USE DEF store, process, loop, env, history
<1>0. TypeOK
  BY DEF IInv
<1>1. CASE UNCHANGED vars
  BY <1>1, Stutter DEF vars
<1>2. ASSUME NEW t \in Turns, StartTurn(t) \/ EndTurn(t) \/ LoseClient(t)
      PROVE  UNCHANGED AtLeastOnce!vars
  BY <1>2, Stutter DEF StartTurn, EndTurn, LoseClient
<1>3. ASSUME NEW c \in Callbacks, ScheduleCallback(c) PROVE AtLeastOnce!Submit(c)
  BY <1>0, <1>3 DEF ScheduleCallback, AtLeastOnce!Submit, Place, TypeOK
<1>4. ASSUME NEW c \in Callbacks, CancelCallback(c) PROVE AtLeastOnce!Withdraw(c)
  <2>1. c \notin handed
    BY <1>4 DEF CancelCallback, Withdrawable, IInv, EmittedInv
  <2> QED BY <1>0, <1>4, <2>1
          DEF CancelCallback, Withdrawable, AtLeastOnce!Withdraw, Place, TypeOK
<1>5. ASSUME NEW a \in Agents, Deploy(a) \/ Undeploy(a)
      PROVE  UNCHANGED AtLeastOnce!vars
  BY <1>5, Stutter DEF Deploy, Undeploy
<1>6. CASE Tick \/ Crash \/ Restart \/ StoreFails
  BY <1>6, Stutter DEF Tick, Crash, Restart, StoreFails
<1>7. CASE SettleBatch \/ PersistCheckpoint \/ ListDue \/ ClaimEmission
  BY <1>7, Stutter DEF SettleBatch, PersistCheckpoint, ListDue, ClaimEmission
<1>8. CASE Reconcile
  <2> DEFINE S == {c \in Callbacks : c \in cp /\ status[c] = "pending"}
  <2>1. \A c \in S : c \in clean /\ Place(status[c]) = "queued"
    BY <1>8 DEF IInv, CleanInv, Place
  <2>2. AtLeastOnce!Settle(S)
    BY <1>0, <1>8, <2>1 DEF Reconcile, AtLeastOnce!Settle, Place, TypeOK
  <2> QED BY <2>2 DEF AtLeastOnce!Next
<1>9. ASSUME NEW c \in Callbacks, AskGate(c) \/ PublishEvent(c)
      PROVE  UNCHANGED AtLeastOnce!vars
  BY <1>9, Stutter DEF AskGate, PublishEvent
<1>10. ASSUME NEW a \in Agents, AgentAccepts(a) \/ AgentRejects(a)
       PROVE  [AtLeastOnce!Next]_AtLeastOnce!vars
  <2> SUFFICES ASSUME ~ UNCHANGED <<status, handed, clean>>
               PROVE  \E c \in Callbacks : AtLeastOnce!HandOver(c)
    BY Stutter DEF AtLeastOnce!Next
  <2>1. pc = "fanout" /\ UNCHANGED status /\ handed' = handed \cup cur
        /\ clean' \in {clean, clean \cup cur, clean \cup (cur \ failed')}
    BY <1>10 DEF AgentAccepts, AgentRejects, FanOutStep
  <2>2. PICK c \in Callbacks : cur = {c}
    BY <1>0, <2>1 DEF TypeOK
  <2>3. Place(status[c]) = "queued"
    BY <1>0, <2>1, <2>2 DEF IInv, ClaimedStaysPending, TypeOK, Place
  <2>4. AtLeastOnce!HandOver(c)
    BY <2>1, <2>2, <2>3 DEF AtLeastOnce!HandOver
  <2> QED BY <2>4
<1>11. ASSUME NEW a \in Agents, DispatchRefused(a) \/ TargetGone(a)
       PROVE  UNCHANGED AtLeastOnce!vars
  <2>1. UNCHANGED <<status, handed, clean>>
    BY <1>11 DEF DispatchRefused, TargetGone, FanOutStep
  <2> QED BY <2>1, Stutter
<1> QED
  BY <1>1, <1>2, <1>3, <1>4, <1>5, <1>6, <1>7, <1>8, <1>9, <1>10, <1>11
  DEF Next, PollStep, AtLeastOnce!Next

\* The callback path implements the host's at-least-once promise.
THEOREM CallbacksAtLeastOnce == Spec => AtLeastOnceSpec
<1>1. Init => AtLeastOnce!Init
  BY DEF Init, AtLeastOnce!Init, Place
<1> QED BY <1>1, RefinementStep, Invariant, PTL DEF Spec, AtLeastOnceSpec, AtLeastOnce!Spec
=============================================================================
