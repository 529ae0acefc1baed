------------------------- MODULE IngressInboxProofs -------------------------
(***************************************************************************)
(* Proofs, for every value of the constants, of the safety properties of   *)
(* IngressInbox and of its refinement of AtLeastOnceDelivery.              *)
(***************************************************************************)
EXTENDS IngressInbox, TLAPS

\* The rows a poll has claimed stay emitted until it is over.
ClaimInv ==
    pc \in {"convert", "dispatch"} => \A i \in todo \cup batch : status[i] = "emitted"

\* What a checkpoint names and what is delivered was concluded; within a batch
\* so was all that is neither waiting nor failed.
ConcludedInv ==
    /\ \A q \in Producers : cp[q] \subseteq concluded /\ savedCp[q] \subseteq concluded
    /\ DeliveredWasConcluded
    /\ pc = "convert" => todo \cap Malformed \subseteq concluded
    /\ pc = "dispatch" => batch \subseteq todo \cup failed \cup concluded

\* A checkpoint names items of its producer's kind that exist, and a poll works
\* on items of its producer's kind.
KindInv ==
    /\ \A q \in Producers : \A i \in cp[q] \cup savedCp[q] :
          Kind[i] = q /\ status[i] # "absent"
    /\ \A i \in todo \cup batch : Kind[i] = p

\* After its reconciliation a producer's own checkpoint names only delivered rows.
ConfirmedInv ==
    pc \in {"requeue", "claim", "convert", "dispatch"} =>
        \A i \in cp[p] : status[i] = "delivered"

IInv == TypeOK /\ ClaimInv /\ ConcludedInv /\ KindInv /\ ConfirmedInv

-----------------------------------------------------------------------------
\* The poll loop starts with an empty inbox and empty checkpoints.
LEMMA InitInv == Init => IInv
<1> SUFFICES ASSUME Init PROVE IInv
  OBVIOUS
<1>1. TypeOK
  BY ProducersAssumption DEF Init, TypeOK, Producers
<1>2. ClaimInv /\ ConcludedInv /\ KindInv /\ ConfirmedInv
  BY <1>1 DEF Init, TypeOK, ClaimInv, ConcludedInv, DeliveredWasConcluded, KindInv, ConfirmedInv
<1> QED BY <1>1, <1>2 DEF IInv

\* Every step keeps the types.
LEMMA TypeStep == TypeOK /\ [Next]_vars => TypeOK'
<1> SUFFICES ASSUME TypeOK, [Next]_vars PROVE TypeOK'
  OBVIOUS
<1> USE ProducersAssumption, BoundsAssumption DEF TypeOK, inbox, locals, loop, env, history, Producers
<1>1. CASE UNCHANGED vars
  BY <1>1 DEF vars
<1>2. ASSUME NEW i \in Items, Enqueue(i) PROVE TypeOK'
  BY <1>2 DEF Enqueue
<1>3. ASSUME NEW i \in Items, TimeOut(i) PROVE TypeOK'
  BY <1>3 DEF TimeOut
<1>4. CASE Reconcile
  BY <1>4 DEF Reconcile
<1>5. CASE RequeueStale
  BY <1>5 DEF RequeueStale
<1>6. CASE ClaimPending
  BY <1>6 DEF ClaimPending, Listed
<1>7. CASE ConversionFails
  BY <1>7 DEF ConversionFails, PollOver
<1>8. CASE ReturnEvents
  <2>1. CASE todo = {}
    <3>1. cp' \in [Producers -> SUBSET Items]
      BY <1>8, <2>1 DEF ReturnEvents
    <3> HIDE DEF TypeOK
    <3>2a. PollOver(TRUE)
      BY <1>8, <2>1 DEF ReturnEvents
    <3>2b. p \in Producers /\ unsaved \in SUBSET Producers
      BY DEF TypeOK
    <3>2. p' \in Producers /\ unsaved' \in SUBSET Producers /\ pc' \in {"save", "poll"}
          /\ todo' = {} /\ batch' = {} /\ failed' = {}
      BY <3>2a, <3>2b DEF PollOver
    <3> USE DEF TypeOK
    <3> QED BY <1>8, <2>1, <3>1, <3>2 DEF ReturnEvents
  <2>2. CASE todo # {}
    BY <1>8, <2>2 DEF ReturnEvents
  <2> QED BY <2>1, <2>2
<1>9. ASSUME NEW i \in Items, DropMalformed(i) PROVE TypeOK'
  BY <1>9 DEF DropMalformed
<1>10. ASSUME NEW i \in Items, Accepted(i) PROVE TypeOK'
  BY <1>10 DEF Accepted
<1>11. ASSUME NEW i \in Items, Unmatched(i) PROVE TypeOK'
  BY <1>11 DEF Unmatched
<1>12. ASSUME NEW i \in Items, DispatchFails(i) PROVE TypeOK'
  BY <1>12 DEF DispatchFails
<1>13. CASE SettleBatch
  BY <1>13 DEF SettleBatch, PollOver
<1>14. CASE PollFails
  BY <1>14 DEF PollFails, PollOver
<1>15. ASSUME NEW q \in Producers, SaveCheckpoint(q) PROVE TypeOK'
  BY <1>15 DEF SaveCheckpoint
<1>16. ASSUME NEW q \in Producers, SaveFails(q) PROVE TypeOK'
  BY <1>16 DEF SaveFails
<1>17. CASE CycleOver
  BY <1>17 DEF CycleOver
<1>18. CASE Crash
  BY <1>18 DEF Crash
<1>19. CASE Restart
  BY <1>19 DEF Restart
<1> QED
  BY <1>1, <1>2, <1>3, <1>4, <1>5, <1>6, <1>7, <1>8, <1>9, <1>10, <1>11,
     <1>12, <1>13, <1>14, <1>15, <1>16, <1>17, <1>18, <1>19 DEF Next, LoopStep

\* The variables always have their types, for every set of items and producers.
THEOREM TypeCorrect == Spec => []TypeOK
<1>1. Init => TypeOK
  BY InitInv DEF IInv
<1> QED BY <1>1, TypeStep, PTL DEF Spec

\* No step takes a claimed row out of the state emitted.
LEMMA ClaimStep == TypeOK /\ ClaimInv /\ [Next]_vars => ClaimInv'
<1> SUFFICES ASSUME TypeOK, ClaimInv, [Next]_vars PROVE ClaimInv'
  OBVIOUS
<1> USE DEF TypeOK, inbox, locals, loop, env, history, ClaimInv
<1>1. CASE UNCHANGED vars
  BY <1>1 DEF vars
<1>2. ASSUME NEW i \in Items, Enqueue(i) PROVE ClaimInv'
  BY <1>2 DEF Enqueue
<1>3. ASSUME NEW i \in Items, TimeOut(i) PROVE ClaimInv'
  BY <1>3 DEF TimeOut
<1>4. CASE Reconcile
  BY <1>4 DEF Reconcile
<1>5. CASE RequeueStale
  BY <1>5 DEF RequeueStale
<1>6. CASE ClaimPending
  BY <1>6 DEF ClaimPending, Listed
<1>7. CASE ConversionFails
  BY <1>7 DEF ConversionFails, PollOver
<1>8. CASE ReturnEvents
  BY <1>8 DEF ReturnEvents, PollOver
<1>9. ASSUME NEW i \in Items, DropMalformed(i) PROVE ClaimInv'
  BY <1>9 DEF DropMalformed
<1>10. ASSUME NEW i \in Items, Accepted(i) PROVE ClaimInv'
  BY <1>10 DEF Accepted
<1>11. ASSUME NEW i \in Items, Unmatched(i) PROVE ClaimInv'
  BY <1>11 DEF Unmatched
<1>12. ASSUME NEW i \in Items, DispatchFails(i) PROVE ClaimInv'
  BY <1>12 DEF DispatchFails
<1>13. CASE SettleBatch
  BY <1>13 DEF SettleBatch, PollOver
<1>14. CASE PollFails
  BY <1>14 DEF PollFails, PollOver
<1>15. ASSUME NEW q \in Producers, SaveCheckpoint(q) PROVE ClaimInv'
  BY <1>15 DEF SaveCheckpoint
<1>16. ASSUME NEW q \in Producers, SaveFails(q) PROVE ClaimInv'
  BY <1>16 DEF SaveFails
<1>17. CASE CycleOver
  BY <1>17 DEF CycleOver
<1>18. CASE Crash
  BY <1>18 DEF Crash
<1>19. CASE Restart
  BY <1>19 DEF Restart
<1> QED
  BY <1>1, <1>2, <1>3, <1>4, <1>5, <1>6, <1>7, <1>8, <1>9, <1>10, <1>11,
     <1>12, <1>13, <1>14, <1>15, <1>16, <1>17, <1>18, <1>19 DEF Next, LoopStep

\* A checkpoint advances only to a batch that was concluded.
LEMMA ConcludedStep == TypeOK /\ ConcludedInv /\ [Next]_vars => ConcludedInv'
<1> SUFFICES ASSUME TypeOK, ConcludedInv, [Next]_vars PROVE ConcludedInv'
  OBVIOUS
<1> USE DEF TypeOK, inbox, locals, loop, env, history, ConcludedInv, DeliveredWasConcluded
<1>1. CASE UNCHANGED vars
  BY <1>1 DEF vars
<1>2. ASSUME NEW i \in Items, Enqueue(i) PROVE ConcludedInv'
  BY <1>2 DEF Enqueue
<1>3. ASSUME NEW i \in Items, TimeOut(i) PROVE ConcludedInv'
  BY <1>3 DEF TimeOut
<1>4. CASE Reconcile
  BY <1>4 DEF Reconcile
<1>5. CASE RequeueStale
  BY <1>5 DEF RequeueStale
<1>6. CASE ClaimPending
  BY <1>6 DEF ClaimPending, Listed
<1>7. CASE ConversionFails
  BY <1>7 DEF ConversionFails, PollOver
<1>8. CASE ReturnEvents
  BY <1>8 DEF ReturnEvents, PollOver
<1>9. ASSUME NEW i \in Items, DropMalformed(i) PROVE ConcludedInv'
  BY <1>9 DEF DropMalformed
<1>10. ASSUME NEW i \in Items, Accepted(i) PROVE ConcludedInv'
  BY <1>10 DEF Accepted
<1>11. ASSUME NEW i \in Items, Unmatched(i) PROVE ConcludedInv'
  BY <1>11 DEF Unmatched
<1>12. ASSUME NEW i \in Items, DispatchFails(i) PROVE ConcludedInv'
  BY <1>12 DEF DispatchFails
<1>13. CASE SettleBatch
  BY <1>13 DEF SettleBatch, PollOver
<1>14. CASE PollFails
  BY <1>14 DEF PollFails, PollOver
<1>15. ASSUME NEW q \in Producers, SaveCheckpoint(q) PROVE ConcludedInv'
  BY <1>15 DEF SaveCheckpoint
<1>16. ASSUME NEW q \in Producers, SaveFails(q) PROVE ConcludedInv'
  BY <1>16 DEF SaveFails
<1>17. CASE CycleOver
  BY <1>17 DEF CycleOver
<1>18. CASE Crash
  BY <1>18 DEF Crash
<1>19. CASE Restart
  BY <1>19 DEF Restart
<1> QED
  BY <1>1, <1>2, <1>3, <1>4, <1>5, <1>6, <1>7, <1>8, <1>9, <1>10, <1>11,
     <1>12, <1>13, <1>14, <1>15, <1>16, <1>17, <1>18, <1>19 DEF Next, LoopStep

\* Producers never touch items of another kind, except to requeue them.
LEMMA KindStep == TypeOK /\ ClaimInv /\ KindInv /\ [Next]_vars => KindInv'
<1> SUFFICES ASSUME TypeOK, ClaimInv, KindInv, [Next]_vars PROVE KindInv'
  OBVIOUS
<1> USE DEF TypeOK, inbox, locals, loop, env, history, ClaimInv, KindInv
<1>1. CASE UNCHANGED vars
  BY <1>1 DEF vars
<1>2. ASSUME NEW i \in Items, Enqueue(i) PROVE KindInv'
  BY <1>2 DEF Enqueue
<1>3. ASSUME NEW i \in Items, TimeOut(i) PROVE KindInv'
  BY <1>3 DEF TimeOut
<1>4. CASE Reconcile
  BY <1>4 DEF Reconcile
<1>5. CASE RequeueStale
  BY <1>5 DEF RequeueStale
<1>6. CASE ClaimPending
  BY <1>6 DEF ClaimPending, Listed
<1>7. CASE ConversionFails
  BY <1>7 DEF ConversionFails, PollOver
<1>8. CASE ReturnEvents
  BY <1>8 DEF ReturnEvents, PollOver
<1>9. ASSUME NEW i \in Items, DropMalformed(i) PROVE KindInv'
  BY <1>9 DEF DropMalformed
<1>10. ASSUME NEW i \in Items, Accepted(i) PROVE KindInv'
  BY <1>10 DEF Accepted
<1>11. ASSUME NEW i \in Items, Unmatched(i) PROVE KindInv'
  BY <1>11 DEF Unmatched
<1>12. ASSUME NEW i \in Items, DispatchFails(i) PROVE KindInv'
  BY <1>12 DEF DispatchFails
<1>13. CASE SettleBatch
  BY <1>13 DEF SettleBatch, PollOver
<1>14. CASE PollFails
  BY <1>14 DEF PollFails, PollOver
<1>15. ASSUME NEW q \in Producers, SaveCheckpoint(q) PROVE KindInv'
  BY <1>15 DEF SaveCheckpoint
<1>16. ASSUME NEW q \in Producers, SaveFails(q) PROVE KindInv'
  BY <1>16 DEF SaveFails
<1>17. CASE CycleOver
  BY <1>17 DEF CycleOver
<1>18. CASE Crash
  BY <1>18 DEF Crash
<1>19. CASE Restart
  BY <1>19 DEF Restart
<1> QED
  BY <1>1, <1>2, <1>3, <1>4, <1>5, <1>6, <1>7, <1>8, <1>9, <1>10, <1>11,
     <1>12, <1>13, <1>14, <1>15, <1>16, <1>17, <1>18, <1>19 DEF Next, LoopStep

\* A reconciled checkpoint stays reconciled until the poll is over.
LEMMA ConfirmedStep == TypeOK /\ KindInv /\ ClaimInv /\ ConfirmedInv /\ [Next]_vars => ConfirmedInv'
<1> SUFFICES ASSUME TypeOK, KindInv, ClaimInv, ConfirmedInv, [Next]_vars PROVE ConfirmedInv'
  OBVIOUS
<1> USE DEF TypeOK, inbox, locals, loop, env, history, KindInv, ClaimInv, ConfirmedInv
<1>1. CASE UNCHANGED vars
  BY <1>1 DEF vars
<1>2. ASSUME NEW i \in Items, Enqueue(i) PROVE ConfirmedInv'
  BY <1>2 DEF Enqueue
<1>3. ASSUME NEW i \in Items, TimeOut(i) PROVE ConfirmedInv'
  BY <1>3 DEF TimeOut
<1>4. CASE Reconcile
  BY <1>4 DEF Reconcile, Confirmable
<1>5. CASE RequeueStale
  BY <1>5 DEF RequeueStale
<1>6. CASE ClaimPending
  BY <1>6 DEF ClaimPending, Listed
<1>7. CASE ConversionFails
  BY <1>7 DEF ConversionFails, PollOver
<1>8. CASE ReturnEvents
  BY <1>8 DEF ReturnEvents, PollOver
<1>9. ASSUME NEW i \in Items, DropMalformed(i) PROVE ConfirmedInv'
  BY <1>9 DEF DropMalformed
<1>10. ASSUME NEW i \in Items, Accepted(i) PROVE ConfirmedInv'
  BY <1>10 DEF Accepted
<1>11. ASSUME NEW i \in Items, Unmatched(i) PROVE ConfirmedInv'
  BY <1>11 DEF Unmatched
<1>12. ASSUME NEW i \in Items, DispatchFails(i) PROVE ConfirmedInv'
  BY <1>12 DEF DispatchFails
<1>13. CASE SettleBatch
  BY <1>13 DEF SettleBatch, PollOver
<1>14. CASE PollFails
  BY <1>14 DEF PollFails, PollOver
<1>15. ASSUME NEW q \in Producers, SaveCheckpoint(q) PROVE ConfirmedInv'
  BY <1>15 DEF SaveCheckpoint
<1>16. ASSUME NEW q \in Producers, SaveFails(q) PROVE ConfirmedInv'
  BY <1>16 DEF SaveFails
<1>17. CASE CycleOver
  BY <1>17 DEF CycleOver
<1>18. CASE Crash
  BY <1>18 DEF Crash
<1>19. CASE Restart
  BY <1>19 DEF Restart
<1> QED
  BY <1>1, <1>2, <1>3, <1>4, <1>5, <1>6, <1>7, <1>8, <1>9, <1>10, <1>11,
     <1>12, <1>13, <1>14, <1>15, <1>16, <1>17, <1>18, <1>19 DEF Next, LoopStep

\* The inductive invariant holds in every reachable state.
LEMMA Invariant == Spec => []IInv
<1>1. IInv /\ [Next]_vars => IInv'
  BY TypeStep, ClaimStep, ConcludedStep, KindStep, ConfirmedStep DEF IInv
<1> QED BY InitInv, <1>1, PTL DEF Spec

\* Nothing leaves the inbox before its delivery was concluded.
THEOREM NothingIsLost == Spec => []DeliveredWasConcluded
<1>1. IInv => DeliveredWasConcluded
  BY DEF IInv, ConcludedInv
<1> QED BY Invariant, <1>1, PTL

\* The rows of a batch stay claimed while its events are with the agents.
THEOREM ClaimHolds == Spec => []ClaimStaysEmitted
<1>1. IInv => ClaimStaysEmitted
  BY DEF IInv, ClaimInv, ClaimStaysEmitted
<1> QED BY Invariant, <1>1, PTL

\* A confirmed item is not dispatched again, whoever requeued it.
THEOREM NoRedispatch == Spec => []ConfirmedNotRedispatched
<1>1. IInv => ConfirmedNotRedispatched
  <2> SUFFICES ASSUME IInv, pc = "dispatch", NEW q \in Producers,
                      NEW i \in batch, i \in cp[q]
               PROVE  FALSE
    BY DEF IInv, TypeOK, ConfirmedNotRedispatched
  <2>1. q = p
    BY DEF IInv, TypeOK, KindInv
  <2>2. status[i] = "delivered" /\ status[i] = "emitted"
    BY <2>1 DEF IInv, ConfirmedInv, ClaimInv
  <2> QED BY <2>2
<1> QED BY Invariant, <1>1, PTL

-----------------------------------------------------------------------------
\* The abstract queue sees a step only through where the items stand, the
\* hand-overs and the conclusions.
LEMMA Stutter ==
    (\A i \in Items : Place(status[i])' = Place(status[i])) /\ UNCHANGED <<handed, concluded>>
        => UNCHANGED AtLeastOnce!vars
BY DEF AtLeastOnce!vars

\* Every step of the inbox is a step of the abstract queue or leaves it alone.
LEMMA RefinementStep ==
    IInv /\ [Next]_vars => [AtLeastOnce!Next]_AtLeastOnce!vars
<1> SUFFICES ASSUME IInv, [Next]_vars PROVE [AtLeastOnce!Next]_AtLeastOnce!vars
  OBVIOUS
<1> USE DEF inbox, locals, loop, env, history
<1>0. TypeOK
  BY DEF IInv
<1>1. CASE UNCHANGED vars
  BY <1>1, Stutter DEF vars
<1>2. ASSUME NEW i \in Items, Enqueue(i) PROVE AtLeastOnce!Submit(i)
  BY <1>0, <1>2 DEF Enqueue, AtLeastOnce!Submit, Place, TypeOK
<1>3. ASSUME NEW i \in Items, TimeOut(i) PROVE UNCHANGED AtLeastOnce!vars
  BY <1>3, Stutter DEF TimeOut
<1>4. CASE Reconcile
  <2> DEFINE S == {i \in cp[p] : status[i] \in Confirmable}
  <2>1. S \in SUBSET Items /\ \A i \in S : i \in concluded /\ Place(status[i]) = "queued"
    BY <1>0 DEF TypeOK, IInv, ConcludedInv, Place, Confirmable
  <2>2. AtLeastOnce!Settle(S)
    BY <1>0, <1>4, <2>1 DEF Reconcile, AtLeastOnce!Settle, Place, TypeOK
  <2> QED BY <2>1, <2>2 DEF AtLeastOnce!Next
<1>5. CASE RequeueStale
  BY <1>0, <1>5, Stutter DEF RequeueStale, Place, TypeOK
<1>6. CASE ClaimPending
  <2> DEFINE S == Listed \cap Malformed
  <2>1. S \in SUBSET Items /\ \A i \in Items : Place(status[i])' = Place(status[i])
    BY <1>0, <1>6 DEF ClaimPending, Listed, Place, TypeOK
  <2>2. \A i \in S : Place(status[i]) = "queued"
    BY DEF Listed, Place
  <2>3. AtLeastOnce!Dispose(S)
    BY <1>6, <2>1, <2>2 DEF ClaimPending, AtLeastOnce!Dispose
  <2> QED BY <2>1, <2>3 DEF AtLeastOnce!Next
<1>7. CASE ConversionFails \/ ReturnEvents \/ SettleBatch \/ PollFails \/ CycleOver \/ Crash \/ Restart
  BY <1>7, Stutter DEF ConversionFails, ReturnEvents, SettleBatch, PollFails, CycleOver, Crash, Restart
<1>8. ASSUME NEW i \in Items, DropMalformed(i) PROVE AtLeastOnce!Settle({i})
  <2>1. i \in concluded /\ Place(status[i]) = "queued"
    BY <1>8 DEF DropMalformed, IInv, ConcludedInv, ClaimInv, Place
  <2> QED BY <1>0, <1>8, <2>1 DEF DropMalformed, AtLeastOnce!Settle, Place, TypeOK
<1>9. ASSUME NEW i \in Items, Accepted(i) PROVE AtLeastOnce!HandOver(i)
  BY <1>0, <1>9 DEF Accepted, AtLeastOnce!HandOver, IInv, ClaimInv, Place, TypeOK
<1>10. ASSUME NEW i \in Items, Unmatched(i) PROVE AtLeastOnce!Dispose({i})
  BY <1>0, <1>10 DEF Unmatched, AtLeastOnce!Dispose, IInv, ClaimInv, Place, TypeOK
<1>11. ASSUME NEW i \in Items, DispatchFails(i)
       PROVE  AtLeastOnce!HandOver(i) \/ UNCHANGED AtLeastOnce!vars
  <2>1. CASE handed' = handed
    BY <1>11, <2>1, Stutter DEF DispatchFails
  <2>2. CASE handed' = handed \cup {i}
    BY <1>0, <1>11, <2>2 DEF DispatchFails, AtLeastOnce!HandOver, IInv, ClaimInv, Place, TypeOK
  <2> QED BY <1>11, <2>1, <2>2 DEF DispatchFails
<1>12. ASSUME NEW q \in Producers, SaveCheckpoint(q) \/ SaveFails(q)
       PROVE  UNCHANGED AtLeastOnce!vars
  BY <1>12, Stutter DEF SaveCheckpoint, SaveFails
<1> QED
  BY <1>1, <1>2, <1>3, <1>4, <1>5, <1>6, <1>7, <1>8, <1>9, <1>10, <1>11, <1>12
  DEF Next, LoopStep, AtLeastOnce!Next

\* The ingress inbox implements the host's at-least-once promise.
THEOREM InboxAtLeastOnce == Spec => AtLeastOnceSpec
<1>1. Init => AtLeastOnce!Init
  BY DEF Init, AtLeastOnce!Init, Place
<1> QED BY <1>1, RefinementStep, Invariant, PTL DEF Spec, AtLeastOnceSpec, AtLeastOnce!Spec
=============================================================================
