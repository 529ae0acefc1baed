---------------------- MODULE LiveStreamSessionProofs ----------------------
(***************************************************************************)
(* Proofs, for every value of the constants, of the safety properties of   *)
(* LiveStreamSession: sessions are exclusive, never lost while a turn has  *)
(* them, and a suspended run is there when it is resumed.                  *)
(***************************************************************************)
EXTENDS LiveStreamSession, TLAPS

\* A session is under its own key, and its task starts with its first turn.
KeyInv ==
    /\ \A k \in Keys : sessions[k] # None => Key[sessions[k]] = k
    /\ \A m \in Turns : turn[m] \in {"claimed", "queued", "running"} => home[m] \in Turns
    /\ \A m \in Turns :
          turn[m] = "new" \/ (turn[m] = "claimed" /\ home[m] = m) => task[m] = "none"

\* The task of a session works on one turn at a time.
TaskInv ==
    /\ \A m \in Turns : turn[m] = "running" =>
          /\ task[home[m]] \in {"start", "resume", "drain", "suspend"}
          /\ \A n \in Turns : turn[n] = "running" /\ home[n] = home[m] => n = m
    /\ \A s \in suspended : task[s] \in {"recv", "suspend"}

\* A session that is torn down is in the map and in flight to the end.
ClosingInv ==
    \A s \in Turns : task[s] = "closing" => sessions[Key[s]] = s /\ Key[s] \in inFlight

\* Only a draining session has a run under way, and the terminal of a run that
\* waits for input is still to be taken.
RunInv ==
    /\ \A s \in Turns : run[s] \in {"setup", "permit", "collect", "deliver"} =>
          task[s] \in {"drain", "closing", "over"}
    /\ \A s \in Turns : "input" \in out[s] => run[s] = "input" /\ task[s] = "drain"

SessionInv ==
    KeyInv /\ TaskInv /\ ClosingInv /\ AcceptedHasSession /\ InFlightExcludes /\ IdleSessionResumes

IInv == TypeOK /\ SessionInv /\ RunInv /\ SuspendedRunWaits

-----------------------------------------------------------------------------
\* No session, no turn and no run at the start.
LEMMA InitInv == Init => IInv
<1> SUFFICES ASSUME Init PROVE IInv
  OBVIOUS
<1>1. TypeOK
  BY LimitAssumption, BoundsAssumption, NoneAssumption DEF Init, TypeOK
<1>2. SessionInv
  BY NoneAssumption, KeyAssumption DEF Init, SessionInv, KeyInv, TaskInv, ClosingInv,
     AcceptedHasSession, InFlightExcludes, IdleSessionResumes, Holds
<1>3. RunInv /\ SuspendedRunWaits
  BY DEF Init, RunInv, SuspendedRunWaits
<1> QED BY <1>1, <1>2, <1>3 DEF IInv

\* Every step keeps the types.
LEMMA TypeStep == TypeOK /\ RunInv /\ [Next]_vars => TypeOK'
<1> SUFFICES ASSUME TypeOK, RunInv, [Next]_vars PROVE TypeOK'
  OBVIOUS
<1> USE KeyAssumption, NoneAssumption, LimitAssumption, BoundsAssumption
    DEF TypeOK, registry, requests, tasks, runs
<1>1. CASE UNCHANGED vars
  BY <1>1 DEF vars
<1>2. ASSUME NEW m \in Turns, Refuse(m) PROVE TypeOK'
  BY <1>2 DEF Refuse
<1>3. ASSUME NEW m \in Turns, Attach(m) PROVE TypeOK'
  BY <1>3 DEF Attach, LookupKey
<1>4. ASSUME NEW m \in Turns, Open(m) PROVE TypeOK'
  BY <1>4 DEF Open
<1>5. ASSUME NEW m \in Turns, Send(m) PROVE TypeOK'
  BY <1>5 DEF Send
<1>6. ASSUME NEW m \in Turns, Disconnect(m) PROVE TypeOK'
  BY <1>6 DEF Disconnect
<1>7. ASSUME NEW s \in Turns, Remove(s) PROVE TypeOK'
  BY <1>7 DEF Remove
<1>8. ASSUME NEW s \in Turns, NEW m \in Turns, Dequeue(s, m) PROVE TypeOK'
  BY <1>8 DEF Dequeue
<1>9. ASSUME NEW s \in Turns, NEW m \in Turns, StartStream(s, m) PROVE TypeOK'
  BY <1>9 DEF StartStream, Break, RunInv
<1>10. ASSUME NEW s \in Turns, NEW m \in Turns, Resume(s, m) PROVE TypeOK'
  BY <1>10 DEF Resume, Break
<1>11. ASSUME NEW s \in Turns, NEW m \in Turns, Forward(s, m) PROVE TypeOK'
  BY <1>11 DEF Forward, Break
<1>12. ASSUME NEW s \in Turns, NEW m \in Turns, Suspend(s, m) PROVE TypeOK'
  BY <1>12 DEF Suspend, Break
<1>13. ASSUME NEW s \in Turns, NEW m \in Turns, EndSuspended(s, m) PROVE TypeOK'
  BY <1>13 DEF EndSuspended
<1>14. ASSUME NEW s \in Turns, NEW m \in Turns, Finish(s, m) PROVE TypeOK'
  BY <1>14 DEF Finish, Break
<1>15. ASSUME NEW s \in Turns, NEW m \in Turns, StartFails(s, m) PROVE TypeOK'
  BY <1>15 DEF StartFails, Break, Faulty
<1>16. ASSUME NEW s \in Turns, NEW m \in Turns, ResumePersistFails(s, m) PROVE TypeOK'
  BY <1>16 DEF ResumePersistFails, Break, Faulty
<1>17. ASSUME NEW s \in Turns, TakeBridge(s) PROVE TypeOK'
  BY <1>17 DEF TakeBridge
<1>18. ASSUME NEW s \in Turns, StartRun(s) PROVE TypeOK'
  BY <1>18 DEF StartRun
<1>19. ASSUME NEW s \in Turns, IdleTimeout(s) PROVE TypeOK'
  BY <1>19 DEF IdleTimeout, Iterates
<1>20. ASSUME NEW s \in Turns, ResumeClosed(s) PROVE TypeOK'
  BY <1>20 DEF ResumeClosed
<1>21. ASSUME NEW s \in Turns, Deliver(s) PROVE TypeOK'
  BY <1>21 DEF Deliver
<1>22. ASSUME NEW s \in Turns, Finalize(s) PROVE TypeOK'
  BY <1>22 DEF Finalize, FinalizeInvocation, Emit
<1>23. ASSUME NEW s \in Turns, YieldChunk(s) PROVE TypeOK'
  BY <1>23 DEF YieldChunk, Emit, Yielding, Iterates
<1>24. ASSUME NEW s \in Turns, YieldInput(s) PROVE TypeOK'
  BY <1>24 DEF YieldInput, Emit, Yielding, Iterates
<1>25. ASSUME NEW s \in Turns, YieldFinal(s) PROVE TypeOK'
  BY <1>25 DEF YieldFinal, Emit, Yielding, Iterates
<1>26. ASSUME NEW s \in Turns, SetupFails(s) PROVE TypeOK'
  BY <1>26 DEF SetupFails, Emit, Faulty
<1>27. ASSUME NEW s \in Turns, EvalFails(s) PROVE TypeOK'
  BY <1>27 DEF EvalFails, Emit, Faulty
<1>28. ASSUME NEW s \in Turns, DrainFails(s) PROVE TypeOK'
  BY <1>28 DEF DrainFails, Emit, Faulty, Iterates
<1>29. ASSUME NEW s \in Turns, DeliverFails(s) PROVE TypeOK'
  BY <1>29 DEF DeliverFails, Emit, Faulty
<1>30. ASSUME NEW s \in Turns, YieldMalformed(s) PROVE TypeOK'
  BY <1>30 DEF YieldMalformed, Emit, Faulty, Yielding, Iterates
<1>31. CASE Tick
  BY <1>31 DEF Tick
<1> QED
  BY <1>1, <1>2, <1>3, <1>4, <1>5, <1>6, <1>7, <1>8, <1>9, <1>10, <1>11, <1>12,
     <1>13, <1>14, <1>15, <1>16, <1>17, <1>18, <1>19, <1>20, <1>21, <1>22, <1>23, <1>24,
     <1>25, <1>26, <1>27, <1>28, <1>29, <1>30, <1>31
     DEF Next, SessionStep, RunStep, AgentStep, FaultStep

-----------------------------------------------------------------------------
\* A step leaves a run that waits for input where the session can resume it.
LEMMA RunInvStep ==
    ASSUME TypeOK, TaskInv, KeyInv, RunInv, SuspendedRunWaits, [Next]_vars
    PROVE  RunInv' /\ SuspendedRunWaits'
<1> DEFINE Goal == RunInv' /\ SuspendedRunWaits'
<1> USE DEF TypeOK, TaskInv, KeyInv, RunInv, SuspendedRunWaits, registry, requests, tasks, runs
<1>1. CASE UNCHANGED vars
  BY <1>1 DEF vars
<1>2. ASSUME NEW m \in Turns, Refuse(m) PROVE Goal
  BY <1>2 DEF Refuse
<1>3. ASSUME NEW m \in Turns, Attach(m) PROVE Goal
  BY <1>3 DEF Attach
<1>4. ASSUME NEW m \in Turns, Open(m) PROVE Goal
  BY <1>4 DEF Open
<1>5. ASSUME NEW m \in Turns, Send(m) PROVE Goal
  BY <1>5 DEF Send
<1>6. ASSUME NEW m \in Turns, Disconnect(m) PROVE Goal
  BY <1>6 DEF Disconnect
<1>7. ASSUME NEW s \in Turns, Remove(s) PROVE Goal
  BY <1>7 DEF Remove
<1>8. ASSUME NEW s \in Turns, NEW m \in Turns, Dequeue(s, m) PROVE Goal
  BY <1>8 DEF Dequeue
<1>9. ASSUME NEW s \in Turns, NEW m \in Turns, StartStream(s, m) PROVE Goal
  BY <1>9 DEF StartStream, Break
<1>10. ASSUME NEW s \in Turns, NEW m \in Turns, Resume(s, m) PROVE Goal
  BY <1>10 DEF Resume, Break
<1>11. ASSUME NEW s \in Turns, NEW m \in Turns, Forward(s, m) PROVE Goal
  BY <1>11 DEF Forward, Break
<1>12. ASSUME NEW s \in Turns, NEW m \in Turns, Suspend(s, m) PROVE Goal
  BY <1>12 DEF Suspend, Break
<1>13. ASSUME NEW s \in Turns, NEW m \in Turns, EndSuspended(s, m) PROVE Goal
  BY <1>13 DEF EndSuspended
<1>14. ASSUME NEW s \in Turns, NEW m \in Turns, Finish(s, m) PROVE Goal
  BY <1>14 DEF Finish, Break
<1>15. ASSUME NEW s \in Turns, NEW m \in Turns, StartFails(s, m) PROVE Goal
  BY <1>15 DEF StartFails, Break
<1>16. ASSUME NEW s \in Turns, NEW m \in Turns, ResumePersistFails(s, m) PROVE Goal
  BY <1>16 DEF ResumePersistFails, Break
<1>17. ASSUME NEW s \in Turns, TakeBridge(s) PROVE Goal
  BY <1>17 DEF TakeBridge
<1>18. ASSUME NEW s \in Turns, StartRun(s) PROVE Goal
  BY <1>18 DEF StartRun
<1>19. ASSUME NEW s \in Turns, IdleTimeout(s) PROVE Goal
  BY <1>19 DEF IdleTimeout, Iterates
<1>20. ASSUME NEW s \in Turns, ResumeClosed(s) PROVE Goal
  BY <1>20 DEF ResumeClosed, Attached
<1>21. ASSUME NEW s \in Turns, Deliver(s) PROVE Goal
  BY <1>21 DEF Deliver
<1>22. ASSUME NEW s \in Turns, Finalize(s) PROVE Goal
  BY <1>22 DEF Finalize, FinalizeInvocation, Emit
<1>23. ASSUME NEW s \in Turns, YieldChunk(s) PROVE Goal
  BY <1>23 DEF YieldChunk, Emit, Yielding, Iterates, Listening, Attached
<1>24. ASSUME NEW s \in Turns, YieldInput(s) PROVE Goal
  BY <1>24 DEF YieldInput, Emit, Yielding, Iterates, Listening, Attached
<1>25. ASSUME NEW s \in Turns, YieldFinal(s) PROVE Goal
  BY <1>25 DEF YieldFinal, Emit, Yielding, Iterates, Listening, Attached
<1>26. ASSUME NEW s \in Turns, SetupFails(s) PROVE Goal
  BY <1>26 DEF SetupFails, Emit
<1>27. ASSUME NEW s \in Turns, EvalFails(s) PROVE Goal
  BY <1>27 DEF EvalFails, Emit
<1>28. ASSUME NEW s \in Turns, DrainFails(s) PROVE Goal
  BY <1>28 DEF DrainFails, Emit, Iterates
<1>29. ASSUME NEW s \in Turns, DeliverFails(s) PROVE Goal
  BY <1>29 DEF DeliverFails, Emit
<1>30. ASSUME NEW s \in Turns, YieldMalformed(s) PROVE Goal
  BY <1>30 DEF YieldMalformed, Emit, Yielding, Iterates
<1>31. CASE Tick
  BY <1>31 DEF Tick
<1> QED
  BY <1>1, <1>2, <1>3, <1>4, <1>5, <1>6, <1>7, <1>8, <1>9, <1>10, <1>11, <1>12,
     <1>13, <1>14, <1>15, <1>16, <1>17, <1>18, <1>19, <1>20, <1>21, <1>22, <1>23, <1>24,
     <1>25, <1>26, <1>27, <1>28, <1>29, <1>30, <1>31
     DEF Next, SessionStep, RunStep, AgentStep, FaultStep

\* The session invariants read the map, the turns and the session tasks only.
LEMMA SessionInvFrame ==
    ASSUME SessionInv,
           UNCHANGED <<sessions, inFlight, turn, home, task, suspended>>
    PROVE  SessionInv'
  BY DEF SessionInv, KeyInv, TaskInv, ClosingInv, AcceptedHasSession, InFlightExcludes,
     IdleSessionResumes, Holds, Attached

\* A step keeps a session to one turn, and in the map while a turn has it.
LEMMA SessionInvStep ==
    ASSUME TypeOK, SessionInv, RunInv, SuspendedRunWaits, [Next]_vars
    PROVE  SessionInv'
<1> USE KeyAssumption, NoneAssumption DEF TypeOK, registry, requests, tasks, runs
<1>1. CASE UNCHANGED vars
  BY <1>1, SessionInvFrame DEF vars
<1>2. ASSUME NEW m \in Turns, Disconnect(m) PROVE SessionInv'
  BY <1>2, SessionInvFrame DEF Disconnect
<1>3. CASE Tick
  BY <1>3, SessionInvFrame DEF Tick
<1>4. ASSUME NEW s \in Turns, RunStep(s) \/ AgentStep(s) PROVE SessionInv'
  BY <1>4, SessionInvFrame DEF RunStep, AgentStep, TakeBridge, StartRun, IdleTimeout, ResumeClosed, Deliver, Finalize, YieldChunk, YieldInput, YieldFinal, Yielding
<1>5. ASSUME NEW s \in Turns,
             SetupFails(s) \/ EvalFails(s) \/ DrainFails(s) \/ DeliverFails(s) \/ YieldMalformed(s)
      PROVE  SessionInv'
  BY <1>5, SessionInvFrame DEF SetupFails, EvalFails, DrainFails, DeliverFails, YieldMalformed, Yielding
<1> USE DEF SessionInv, KeyInv, TaskInv, ClosingInv, AcceptedHasSession, InFlightExcludes,
    IdleSessionResumes, Holds, Attached, InHand
<1>6. ASSUME NEW m \in Turns, Refuse(m) PROVE SessionInv'
  <2>1. KeyInv'
    BY <1>6 DEF Refuse
  <2>2. TaskInv'
    BY <1>6 DEF Refuse
  <2>3. ClosingInv'
    BY <1>6 DEF Refuse
  <2>4. AcceptedHasSession'
    BY <1>6 DEF Refuse
  <2>5. InFlightExcludes'
    BY <1>6 DEF Refuse
  <2>6. IdleSessionResumes'
    BY <1>6 DEF Refuse
  <2> QED BY <2>1, <2>2, <2>3, <2>4, <2>5, <2>6
<1>7. ASSUME NEW m \in Turns, Attach(m) PROVE SessionInv'
  <2>1. KeyInv'
    BY <1>7 DEF Attach, LookupKey
  <2>2. TaskInv'
    BY <1>7 DEF Attach, LookupKey
  <2>3. ClosingInv'
    BY <1>7 DEF Attach, LookupKey
  <2>4. AcceptedHasSession'
    <3>1. PICK s \in Turns : s = sessions[LookupKey(m)] /\ home'[m] = s
      BY <1>7 DEF Attach, LookupKey
    <3>2. Key[s] = LookupKey(m) /\ sessions[Key[s]] = s
      BY <1>7, <3>1 DEF Attach, LookupKey
    <3>3. task[s] \in {"recv", "suspend"}
      BY <1>7, <3>1, <3>2 DEF Attach
    <3>4. ASSUME NEW n \in Turns, n # m, Holds(n)' PROVE Holds(n) /\ home'[n] = home[n]
      BY <1>7, <3>4 DEF Attach
    <3> QED BY <1>7, <3>1, <3>2, <3>3, <3>4 DEF Attach
  <2>5. InFlightExcludes'
    BY <1>7 DEF Attach, LookupKey
  <2>6. IdleSessionResumes'
    BY <1>7 DEF Attach, LookupKey
  <2> QED BY <2>1, <2>2, <2>3, <2>4, <2>5, <2>6
<1>8. ASSUME NEW m \in Turns, Open(m) PROVE SessionInv'
  <2>1. KeyInv'
    BY <1>8 DEF Open, LookupKey
  <2>2. TaskInv'
    BY <1>8 DEF Open, LookupKey
  <2>3. ClosingInv'
    BY <1>8 DEF Open, LookupKey
  <2>4. AcceptedHasSession'
    BY <1>8 DEF Open, LookupKey
  <2>5. InFlightExcludes'
    BY <1>8 DEF Open, LookupKey
  <2>6. IdleSessionResumes'
    BY <1>8 DEF Open, LookupKey
  <2> QED BY <2>1, <2>2, <2>3, <2>4, <2>5, <2>6
<1>9. ASSUME NEW m \in Turns, Send(m) PROVE SessionInv'
  <2>1. KeyInv'
    BY <1>9 DEF Send
  <2>2. TaskInv'
    BY <1>9 DEF Send
  <2>3. ClosingInv'
    BY <1>9 DEF Send
  <2>4. AcceptedHasSession'
    BY <1>9 DEF Send
  <2>5. InFlightExcludes'
    BY <1>9 DEF Send
  <2>6. IdleSessionResumes'
    BY <1>9 DEF Send
  <2> QED BY <2>1, <2>2, <2>3, <2>4, <2>5, <2>6
<1>10. ASSUME NEW s \in Turns, Remove(s) PROVE SessionInv'
  <2>1. KeyInv'
    BY <1>10 DEF Remove
  <2>2. TaskInv'
    BY <1>10 DEF Remove
  <2>3. ClosingInv'
    BY <1>10 DEF Remove
  <2>4. AcceptedHasSession'
    BY <1>10 DEF Remove
  <2>5. InFlightExcludes'
    BY <1>10 DEF Remove
  <2>6. IdleSessionResumes'
    BY <1>10 DEF Remove
  <2> QED BY <2>1, <2>2, <2>3, <2>4, <2>5, <2>6
<1>11. ASSUME NEW s \in Turns, NEW m \in Turns, Dequeue(s, m) PROVE SessionInv'
  <2>1. KeyInv'
    BY <1>11 DEF Dequeue
  <2>2. TaskInv'
    BY <1>11 DEF Dequeue
  <2>3. ClosingInv'
    BY <1>11 DEF Dequeue
  <2>4. AcceptedHasSession'
    BY <1>11 DEF Dequeue
  <2>5. InFlightExcludes'
    BY <1>11 DEF Dequeue
  <2>6. IdleSessionResumes'
    BY <1>11 DEF Dequeue
  <2> QED BY <2>1, <2>2, <2>3, <2>4, <2>5, <2>6
<1>12. ASSUME NEW s \in Turns, NEW m \in Turns, StartStream(s, m) PROVE SessionInv'
  <2>1. KeyInv'
    BY <1>12 DEF StartStream, Break
  <2>2. TaskInv'
    BY <1>12 DEF StartStream, Break
  <2>3. ClosingInv'
    BY <1>12 DEF StartStream, Break
  <2>4. AcceptedHasSession'
    BY <1>12 DEF StartStream, Break
  <2>5. InFlightExcludes'
    BY <1>12 DEF StartStream, Break
  <2>6. IdleSessionResumes'
    BY <1>12 DEF StartStream, Break
  <2> QED BY <2>1, <2>2, <2>3, <2>4, <2>5, <2>6
<1>13. ASSUME NEW s \in Turns, NEW m \in Turns, Resume(s, m) PROVE SessionInv'
  <2>1. KeyInv'
    BY <1>13 DEF Resume, Break, SuspendedRunWaits
  <2>2. TaskInv'
    BY <1>13 DEF Resume, Break, SuspendedRunWaits
  <2>3. ClosingInv'
    BY <1>13 DEF Resume, Break, SuspendedRunWaits
  <2>4. AcceptedHasSession'
    BY <1>13 DEF Resume, Break, SuspendedRunWaits
  <2>5. InFlightExcludes'
    BY <1>13 DEF Resume, Break, SuspendedRunWaits
  <2>6. IdleSessionResumes'
    BY <1>13 DEF Resume, Break, SuspendedRunWaits
  <2> QED BY <2>1, <2>2, <2>3, <2>4, <2>5, <2>6
<1>14. ASSUME NEW s \in Turns, NEW m \in Turns, Forward(s, m) PROVE SessionInv'
  <2>1. KeyInv'
    BY <1>14 DEF Forward, Break
  <2>2. TaskInv'
    BY <1>14 DEF Forward, Break
  <2>3. ClosingInv'
    BY <1>14 DEF Forward, Break
  <2>4. AcceptedHasSession'
    BY <1>14 DEF Forward, Break
  <2>5. InFlightExcludes'
    BY <1>14 DEF Forward, Break
  <2>6. IdleSessionResumes'
    BY <1>14 DEF Forward, Break
  <2> QED BY <2>1, <2>2, <2>3, <2>4, <2>5, <2>6
<1>15. ASSUME NEW s \in Turns, NEW m \in Turns, Suspend(s, m) PROVE SessionInv'
  <2>1. KeyInv'
    BY <1>15 DEF Suspend, Break, RunInv
  <2>2. TaskInv'
    BY <1>15 DEF Suspend, Break, RunInv
  <2>3. ClosingInv'
    BY <1>15 DEF Suspend, Break, RunInv
  <2>4. AcceptedHasSession'
    BY <1>15 DEF Suspend, Break, RunInv
  <2>5. InFlightExcludes'
    BY <1>15 DEF Suspend, Break, RunInv
  <2>6. IdleSessionResumes'
    BY <1>15 DEF Suspend, Break, RunInv
  <2> QED BY <2>1, <2>2, <2>3, <2>4, <2>5, <2>6
<1>16. ASSUME NEW s \in Turns, NEW m \in Turns, EndSuspended(s, m) PROVE SessionInv'
  <2>1. KeyInv'
    BY <1>16 DEF EndSuspended
  <2>2. TaskInv'
    BY <1>16 DEF EndSuspended
  <2>3. ClosingInv'
    BY <1>16 DEF EndSuspended
  <2>4. AcceptedHasSession'
    BY <1>16 DEF EndSuspended
  <2>5. InFlightExcludes'
    BY <1>16 DEF EndSuspended
  <2>6. IdleSessionResumes'
    BY <1>16 DEF EndSuspended
  <2> QED BY <2>1, <2>2, <2>3, <2>4, <2>5, <2>6
<1>17. ASSUME NEW s \in Turns, NEW m \in Turns, Finish(s, m) PROVE SessionInv'
  <2>1. KeyInv'
    BY <1>17 DEF Finish, Break
  <2>2. TaskInv'
    BY <1>17 DEF Finish, Break
  <2>3. ClosingInv'
    BY <1>17 DEF Finish, Break
  <2>4. AcceptedHasSession'
    BY <1>17 DEF Finish, Break
  <2>5. InFlightExcludes'
    BY <1>17 DEF Finish, Break
  <2>6. IdleSessionResumes'
    BY <1>17 DEF Finish, Break
  <2> QED BY <2>1, <2>2, <2>3, <2>4, <2>5, <2>6
<1>18. ASSUME NEW s \in Turns, NEW m \in Turns, StartFails(s, m) PROVE SessionInv'
  <2>1. KeyInv'
    BY <1>18 DEF StartFails, Break
  <2>2. TaskInv'
    BY <1>18 DEF StartFails, Break
  <2>3. ClosingInv'
    BY <1>18 DEF StartFails, Break
  <2>4. AcceptedHasSession'
    BY <1>18 DEF StartFails, Break
  <2>5. InFlightExcludes'
    BY <1>18 DEF StartFails, Break
  <2>6. IdleSessionResumes'
    BY <1>18 DEF StartFails, Break
  <2> QED BY <2>1, <2>2, <2>3, <2>4, <2>5, <2>6
<1>19. ASSUME NEW s \in Turns, NEW m \in Turns, ResumePersistFails(s, m) PROVE SessionInv'
  <2>1. KeyInv'
    BY <1>19 DEF ResumePersistFails, Break
  <2>2. TaskInv'
    BY <1>19 DEF ResumePersistFails, Break
  <2>3. ClosingInv'
    BY <1>19 DEF ResumePersistFails, Break
  <2>4. AcceptedHasSession'
    BY <1>19 DEF ResumePersistFails, Break
  <2>5. InFlightExcludes'
    BY <1>19 DEF ResumePersistFails, Break
  <2>6. IdleSessionResumes'
    BY <1>19 DEF ResumePersistFails, Break
  <2> QED BY <2>1, <2>2, <2>3, <2>4, <2>5, <2>6
<1> QED
  BY <1>1, <1>2, <1>3, <1>4, <1>5, <1>6, <1>7, <1>8, <1>9, <1>10, <1>11, <1>12,
     <1>13, <1>14, <1>15, <1>16, <1>17, <1>18, <1>19
     DEF Next, SessionStep, FaultStep

-----------------------------------------------------------------------------
\* The inductive invariant holds in every reachable state.
THEOREM Invariance == Spec => []IInv
<1>1. IInv /\ [Next]_vars => IInv'
  BY TypeStep, RunInvStep, SessionInvStep DEF IInv, SessionInv
<1> QED BY InitInv, <1>1, PTL DEF Spec

\* The variables always have their types, and only a run in its setup phase
\* holds the bridge's lock across an await.
THEOREM TypeCorrect == Spec => []TypeOK
<1>1. IInv => TypeOK
  BY DEF IInv
<1> QED BY Invariance, <1>1, PTL

\* An accepted turn's session stays in the map and its task in its loop until
\* the turn is answered, so no accepted message is sent to a session that is
\* being torn down.
THEOREM SessionsAreKept == Spec => []AcceptedHasSession
<1>1. IInv => AcceptedHasSession
  BY DEF IInv, SessionInv
<1> QED BY Invariance, <1>1, PTL

\* in_flight keeps every session to one turn at a time.
THEOREM SessionsAreExclusive == Spec => []InFlightExcludes
<1>1. IInv => InFlightExcludes
  BY DEF IInv, SessionInv
<1> QED BY Invariance, <1>1, PTL

\* The run of a suspended session waits for its input until it is resumed.
THEOREM SuspendedRunsWait == Spec => []SuspendedRunWaits
<1>1. IInv => SuspendedRunWaits
  BY DEF IInv
<1> QED BY Invariance, <1>1, PTL

\* A session that can be claimed has a suspended run.
THEOREM IdleSessionsResume == Spec => []IdleSessionResumes
<1>1. IInv => IdleSessionResumes
  BY DEF IInv, SessionInv
<1> QED BY Invariance, <1>1, PTL
=============================================================================
