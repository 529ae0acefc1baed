------------------------- MODULE LiveStreamSession -------------------------
(***************************************************************************)
(* message.sendStream on a live session: the handler claims the session of *)
(* the message's key or opens one (a2a_transport.rs), the session task     *)
(* takes one turn after the other and drains the collector of the agent's  *)
(* JavaScript run into the turn's response stream, and the collector       *)
(* (a2a_stream.rs) pumps that run through the bridge it shares with all    *)
(* other runs of the agent (quickjs_bridge/stream.rs).                     *)
(*                                                                         *)
(* A run that asks for input is suspended: its turn ends, and the next     *)
(* message of the key resumes the same run.  A session is named by the     *)
(* turn that opened it.  Chunks in the channel are not told apart, and     *)
(* the task that relays them from collector to session                     *)
(* (stream_collector.rs) is part of the channel.  Nobody sends on abort_tx and the bridge keeps the yield       *)
(* sender of a run, so neither an abort nor a closed yield channel ends it. *)
(***************************************************************************)
EXTENDS Integers, FiniteSets

CONSTANTS
    Turns,      \* message.sendStream requests
    Keys,       \* session keys
    Key,        \* a request's own key, of its context and task
    ContextKey, \* the key of its context: its own key if it names no task
    Permits,    \* stream_concurrency
    IdleLimit,  \* stream_collector_idle_secs, in ticks
    MaxYields,  \* bound on what the agent yields in one run
    MaxFaults,  \* bound on errors
    None

ASSUME KeyAssumption == Key \in [Turns -> Keys] /\ ContextKey \in [Turns -> Keys]
ASSUME NoneAssumption == None \notin Turns
ASSUME LimitAssumption == Permits \in Nat \ {0} /\ IdleLimit \in Nat \ {0}
ASSUME BoundsAssumption == MaxYields \in Nat /\ MaxFaults \in Nat

VARIABLES
    \* --- stream_sessions
    sessions,   \* the session under each key
    inFlight,   \* keys whose session has in_flight set
    \* --- requests
    turn,       \* new, refused, claimed, queued, running or ended
    home,       \* the session whose turn_tx the handler took
    gone,       \* turns whose client dropped the response stream
    \* --- session tasks
    task,       \* next step of the session's task
    suspended,  \* sessions that hold a suspended run
    \* --- collectors and the bridge
    run,        \* next step of the session's run and its collector
    out,        \* what the channel to the session holds
    bridge,     \* the run that holds the bridge's lock across an await
    permits,    \* sessions in the bridge's map, each with its permit
    idle,       \* time since last_yield_at
    yields,     \* yields of the run so far
    faults      \* errors so far

registry == <<sessions, inFlight>>
requests == <<turn, home, gone>>
tasks == <<task, suspended>>
runs == <<run, out, bridge, permits, idle, yields>>
vars == <<registry, requests, tasks, runs, faults>>

\* rx, resume_tx and abort_tx are dropped when a session task leaves its loop.
Attached(s) == task[s] \notin {"closing", "over"}

\* The relay stops after it passed a final terminal on.
Listening(s) == Attached(s) /\ "final" \notin out[s]

Faulty == faults < MaxFaults /\ faults' = faults + 1

-----------------------------------------------------------------------------
(* handle_live_message_stream *)

\* Where the lookup under the lock ends.
LookupKey(m) ==
    IF sessions[Key[m]] = None /\ sessions[ContextKey[m]] # None
    THEN ContextKey[m] ELSE Key[m]

Refuse(m) ==
    /\ turn[m] = "new"
    /\ sessions[LookupKey(m)] # None
    /\ LookupKey(m) \in inFlight
    /\ turn' = [turn EXCEPT ![m] = "refused"]
    /\ UNCHANGED <<registry, home, gone, tasks, runs, faults>>

\* Mutant: a session is taken whether or not it is in flight.
AttachMutant(m) ==
    /\ turn[m] = "new"
    /\ sessions[LookupKey(m)] # None
    /\ inFlight' = inFlight \cup {LookupKey(m)}
    /\ turn' = [turn EXCEPT ![m] = "claimed"]
    /\ home' = [home EXCEPT ![m] = sessions[LookupKey(m)]]
    /\ UNCHANGED <<sessions, gone, tasks, runs, faults>>

Attach(m) ==
    /\ turn[m] = "new"
    /\ sessions[LookupKey(m)] # None
    /\ LookupKey(m) \notin inFlight
    /\ inFlight' = inFlight \cup {LookupKey(m)}
    /\ turn' = [turn EXCEPT ![m] = "claimed"]
    /\ home' = [home EXCEPT ![m] = sessions[LookupKey(m)]]
    /\ UNCHANGED <<sessions, gone, tasks, runs, faults>>

\* Mutant: the session is registered under its context, not under its own key.
OpenMutant(m) ==
    /\ turn[m] = "new"
    /\ sessions[LookupKey(m)] = None
    /\ sessions' = [sessions EXCEPT ![ContextKey[m]] = m]
    /\ inFlight' = inFlight \cup {ContextKey[m]}
    /\ turn' = [turn EXCEPT ![m] = "claimed"]
    /\ home' = [home EXCEPT ![m] = m]
    /\ UNCHANGED <<gone, tasks, runs, faults>>

Open(m) ==
    /\ turn[m] = "new"
    /\ sessions[LookupKey(m)] = None
    /\ sessions' = [sessions EXCEPT ![Key[m]] = m]
    /\ inFlight' = inFlight \cup {Key[m]}
    /\ turn' = [turn EXCEPT ![m] = "claimed"]
    /\ home' = [home EXCEPT ![m] = m]
    /\ UNCHANGED <<gone, tasks, runs, faults>>

\* The turn goes to the session it was claimed for, and a new session's task
\* is spawned.
Send(m) ==
    /\ turn[m] = "claimed"
    /\ IF task[home[m]] = "over"
       THEN /\ turn' = [turn EXCEPT ![m] = "refused"]
            /\ inFlight' = inFlight \ {Key[home[m]]}
            /\ UNCHANGED task
       ELSE /\ turn' = [turn EXCEPT ![m] = "queued"]
            /\ task' = IF home[m] = m THEN [task EXCEPT ![m] = "recv"] ELSE task
            /\ UNCHANGED inFlight
    /\ UNCHANGED <<sessions, home, gone, suspended, runs, faults>>

\* The client drops its response stream.
Disconnect(m) ==
    /\ turn[m] \in {"claimed", "queued", "running"}
    /\ m \notin gone
    /\ gone' = gone \cup {m}
    /\ UNCHANGED <<registry, turn, home, tasks, runs, faults>>

-----------------------------------------------------------------------------
(* run_live_stream_session *)

InHand(s, m) == turn[m] = "running" /\ home[m] = s

\* suspended.take() decides whether the turn resumes a run or starts one.
Dequeue(s, m) ==
    /\ task[s] = "recv"
    /\ turn[m] = "queued" /\ home[m] = s
    /\ turn' = [turn EXCEPT ![m] = "running"]
    /\ task' = [task EXCEPT ![s] = IF s \in suspended THEN "resume" ELSE "start"]
    /\ suspended' = suspended \ {s}
    /\ UNCHANGED <<registry, home, gone, runs, faults>>

\* TurnAction::Break: the response stream ends and the channels are dropped.
Break(s, m) ==
    /\ task' = [task EXCEPT ![s] = "closing"]
    /\ turn' = [turn EXCEPT ![m] = "ended"]
    /\ out' = [out EXCEPT ![s] = {}]

\* The run is handed to the bridge's lane.
StartStream(s, m) ==
    /\ task[s] = "start" /\ InHand(s, m)
    /\ IF sessions[Key[s]] = None
       THEN Break(s, m) /\ UNCHANGED run
       ELSE /\ task' = [task EXCEPT ![s] = "drain"]
            /\ run' = [run EXCEPT ![s] = "setup"]
            /\ UNCHANGED <<turn, out>>
    /\ UNCHANGED <<registry, home, gone, suspended, bridge, permits, idle, yields, faults>>

\* The request is answered with an error or without a stream.
StartFails(s, m) ==
    /\ task[s] = "start" /\ InHand(s, m)
    /\ Faulty
    /\ Break(s, m)
    /\ UNCHANGED <<registry, home, gone, suspended, run, bridge, permits, idle, yields>>

\* The message is persisted and goes to the suspended run.
Resume(s, m) ==
    /\ task[s] = "resume" /\ InHand(s, m)
    /\ IF run[s] = "input"
       THEN /\ task' = [task EXCEPT ![s] = "drain"]
            /\ run' = [run EXCEPT ![s] = "deliver"]
            /\ UNCHANGED <<turn, out>>
       ELSE Break(s, m) /\ UNCHANGED run
    /\ UNCHANGED <<registry, home, gone, suspended, bridge, permits, idle, yields, faults>>

ResumePersistFails(s, m) ==
    /\ task[s] = "resume" /\ InHand(s, m)
    /\ Faulty
    /\ Break(s, m)
    /\ UNCHANGED <<registry, home, gone, suspended, run, bridge, permits, idle, yields>>

\* A chunk goes to the client, or finds the client gone.
Forward(s, m) ==
    /\ task[s] = "drain" /\ InHand(s, m)
    /\ "chunk" \in out[s]
    /\ IF m \in gone
       THEN Break(s, m)
       ELSE out' = [out EXCEPT ![s] = @ \ {"chunk"}] /\ UNCHANGED <<task, turn>>
    /\ UNCHANGED <<registry, home, gone, suspended, run, bridge, permits, idle, yields, faults>>

\* InputRequired: the run is kept, and the session takes messages again
\* before the response stream ends.
Suspend(s, m) ==
    /\ task[s] = "drain" /\ InHand(s, m)
    /\ out[s] = {"input"}
    /\ IF m \in gone
       THEN Break(s, m) /\ UNCHANGED <<inFlight, suspended>>
       ELSE /\ task' = [task EXCEPT ![s] = "suspend"]
            /\ out' = [out EXCEPT ![s] = {}]
            /\ suspended' = suspended \cup {s}
            /\ inFlight' = inFlight \ {Key[s]}
            /\ UNCHANGED turn
    /\ UNCHANGED <<sessions, home, gone, run, bridge, permits, idle, yields, faults>>

EndSuspended(s, m) ==
    /\ task[s] = "suspend" /\ InHand(s, m)
    /\ task' = [task EXCEPT ![s] = "recv"]
    /\ turn' = [turn EXCEPT ![m] = "ended"]
    /\ UNCHANGED <<registry, home, gone, suspended, runs, faults>>

\* Mutant: the session takes messages again while it is torn down.
FinishMutant(s, m) ==
    /\ task[s] = "drain" /\ InHand(s, m)
    /\ out[s] = {"final"}
    /\ Break(s, m)
    /\ inFlight' = inFlight \ {Key[s]}
    /\ UNCHANGED <<sessions, home, gone, suspended, run, bridge, permits, idle, yields, faults>>

\* Any other completion.
Finish(s, m) ==
    /\ task[s] = "drain" /\ InHand(s, m)
    /\ out[s] = {"final"}
    /\ Break(s, m)
    /\ UNCHANGED <<registry, home, gone, suspended, run, bridge, permits, idle, yields, faults>>

Remove(s) ==
    /\ task[s] = "closing"
    /\ task' = [task EXCEPT ![s] = "over"]
    /\ sessions' = [sessions EXCEPT ![Key[s]] = None]
    /\ inFlight' = inFlight \ {Key[s]}
    /\ UNCHANGED <<requests, suspended, runs, faults>>

SessionStep(s) ==
    \/ Remove(s)
    \/ \E m \in Turns :
         \/ Dequeue(s, m) \/ StartStream(s, m) \/ Resume(s, m) \/ Forward(s, m)
         \/ Suspend(s, m) \/ EndSuspended(s, m) \/ Finish(s, m)

-----------------------------------------------------------------------------
(* The run and its collector *)

\* What the session's end of the channel still takes.
Emit(s, what) == out' = IF Listening(s) THEN [out EXCEPT ![s] = @ \cup what] ELSE out

\* run_stream_same_thread takes the bridge's lock for the setup ...
TakeBridge(s) ==
    /\ run[s] = "setup"
    /\ bridge = None
    /\ bridge' = s
    /\ run' = [run EXCEPT ![s] = "permit"]
    /\ UNCHANGED <<registry, requests, tasks, out, permits, idle, yields, faults>>

\* ... and awaits its permit while it holds it.
StartRun(s) ==
    /\ run[s] = "permit"
    /\ Cardinality(permits) < Permits
    /\ permits' = permits \cup {s}
    /\ bridge' = None
    /\ run' = [run EXCEPT ![s] = "collect"]
    /\ idle' = [idle EXCEPT ![s] = 0]
    /\ UNCHANGED <<registry, requests, tasks, out, yields, faults>>

\* The setup fails before the permit, or the agent's function does and the
\* session is finalized.
SetupFails(s) ==
    /\ run[s] = "permit"
    /\ Faulty
    /\ bridge' = None
    /\ run' = [run EXCEPT ![s] = "done"]
    /\ Emit(s, {"final"})
    /\ UNCHANGED <<registry, requests, tasks, permits, idle, yields>>

\* The script that starts the agent's function fails to evaluate: the error is
\* returned and the session stays in the bridge's map.
EvalFails(s) ==
    /\ run[s] = "permit"
    /\ Cardinality(permits) < Permits
    /\ Faulty
    /\ permits' = permits \cup {s}
    /\ bridge' = None
    /\ run' = [run EXCEPT ![s] = "done"]
    /\ Emit(s, {"final"})
    /\ UNCHANGED <<registry, requests, tasks, idle, yields>>

\* One iteration of the collector needs the lock for a moment.
Iterates(s) == run[s] = "collect" /\ bridge = None

\* The blocking task that runs the pending jobs panics: the error is sent and
\* nothing is finalized.
DrainFails(s) ==
    /\ Iterates(s)
    /\ Faulty
    /\ Emit(s, {"final"})
    /\ run' = [run EXCEPT ![s] = "done"]
    /\ UNCHANGED <<registry, requests, tasks, bridge, permits, idle, yields>>

Yielding(s) ==
    /\ Iterates(s)
    /\ yields[s] < MaxYields
    /\ yields' = [yields EXCEPT ![s] = @ + 1]

\* The agent yields.  A collector that has lost its listener finalizes when a
\* send fails, which it need not do at once: the relay's buffer still takes it.
YieldChunk(s) ==
    /\ Yielding(s)
    /\ Emit(s, {"chunk"})
    /\ \/ idle' = [idle EXCEPT ![s] = 0] /\ UNCHANGED run
       \/ ~ Listening(s) /\ run' = [run EXCEPT ![s] = "finalize"] /\ UNCHANGED idle
    /\ UNCHANGED <<registry, requests, tasks, bridge, permits, faults>>

\* A chunk with state INPUT_REQUIRED and the terminal that goes with it; the
\* iteration ends before last_yield_at is set.
YieldInput(s) ==
    /\ Yielding(s)
    /\ Emit(s, {"chunk", "input"})
    /\ \/ run' = [run EXCEPT ![s] = "input"]
       \/ ~ Listening(s) /\ run' = [run EXCEPT ![s] = "finalize"]
    /\ UNCHANGED <<registry, requests, tasks, bridge, permits, idle, faults>>

YieldFinal(s) ==
    /\ Yielding(s)
    /\ Emit(s, {"chunk"})
    /\ run' = [run EXCEPT ![s] = "finalize"]
    /\ UNCHANGED <<registry, requests, tasks, bridge, permits, idle, faults>>

\* The relay cannot normalize a yield: it passes an error on and stops.
YieldMalformed(s) ==
    /\ Yielding(s)
    /\ Faulty
    /\ Listening(s)
    /\ Emit(s, {"final"})
    /\ idle' = [idle EXCEPT ![s] = 0]
    /\ UNCHANGED <<registry, requests, tasks, run, bridge, permits>>

\* Mutant: the time-out also ends a run that waits for input.
IdleTimeoutMutant(s) ==
    /\ run[s] \in {"collect", "input"} /\ bridge = None
    /\ idle[s] = IdleLimit
    /\ run' = [run EXCEPT ![s] = "finalize"]
    /\ UNCHANGED <<registry, requests, tasks, out, bridge, permits, idle, yields, faults>>

\* Mutant: the time-out counts from the first yield.
IdleTimeoutFirstYield(s) ==
    /\ Iterates(s)
    /\ idle[s] = IdleLimit /\ yields[s] > 0
    /\ run' = [run EXCEPT ![s] = "finalize"]
    /\ UNCHANGED <<registry, requests, tasks, out, bridge, permits, idle, yields, faults>>

IdleTimeout(s) ==
    /\ Iterates(s)
    /\ idle[s] = IdleLimit
    /\ run' = [run EXCEPT ![s] = "finalize"]
    /\ UNCHANGED <<registry, requests, tasks, out, bridge, permits, idle, yields, faults>>

\* Mutant: a collector whose session left the map waits for its input for ever.
ResumeClosedMutant(s) ==
    /\ run[s] = "input"
    /\ ~ Attached(s) /\ sessions[Key[s]] = s
    /\ run' = [run EXCEPT ![s] = "finalize"]
    /\ UNCHANGED <<registry, requests, tasks, out, bridge, permits, idle, yields, faults>>

\* The session dropped resume_tx.
ResumeClosed(s) ==
    /\ run[s] = "input"
    /\ ~ Attached(s)
    /\ run' = [run EXCEPT ![s] = "finalize"]
    /\ UNCHANGED <<registry, requests, tasks, out, bridge, permits, idle, yields, faults>>

\* deliver_resume_input, through the lane and under the lock
Deliver(s) ==
    /\ run[s] = "deliver"
    /\ bridge = None
    /\ run' = [run EXCEPT ![s] = "collect"]
    /\ UNCHANGED <<registry, requests, tasks, out, bridge, permits, idle, yields, faults>>

DeliverFails(s) ==
    /\ run[s] = "deliver"
    /\ bridge = None
    /\ Faulty
    /\ Emit(s, {"final"})
    /\ run' = [run EXCEPT ![s] = "finalize"]
    /\ UNCHANGED <<registry, requests, tasks, bridge, permits, idle, yields>>

\* The session leaves the bridge's map, and its permit with it.
FinalizeInvocation(s) == permits' = permits \ {s}

\* finalize_once: under the lock, and then the terminal is sent.
Finalize(s) ==
    /\ run[s] = "finalize"
    /\ bridge = None
    /\ FinalizeInvocation(s)
    /\ Emit(s, {"final"})
    /\ run' = [run EXCEPT ![s] = "done"]
    /\ UNCHANGED <<registry, requests, tasks, bridge, idle, yields, faults>>

RunStep(s) ==
    \/ TakeBridge(s) \/ StartRun(s) \/ IdleTimeout(s) \/ ResumeClosed(s)
    \/ Deliver(s) \/ Finalize(s)

AgentStep(s) == YieldChunk(s) \/ YieldInput(s) \/ YieldFinal(s)

FaultStep(s) ==
    \/ SetupFails(s) \/ EvalFails(s) \/ DrainFails(s) \/ DeliverFails(s)
    \/ YieldMalformed(s)
    \/ \E m \in Turns : StartFails(s, m) \/ ResumePersistFails(s, m)

\* Time passes for the runs that are under way.
Tick ==
    /\ idle' = [s \in Turns |->
           IF run[s] \in {"collect", "input", "deliver"} /\ idle[s] < IdleLimit
           THEN idle[s] + 1 ELSE idle[s]]
    /\ UNCHANGED <<registry, requests, tasks, run, out, bridge, permits, yields, faults>>

-----------------------------------------------------------------------------
Init ==
    /\ sessions = [k \in Keys |-> None]
    /\ inFlight = {}
    /\ turn = [m \in Turns |-> "new"]
    /\ home = [m \in Turns |-> None]
    /\ gone = {}
    /\ task = [s \in Turns |-> "none"]
    /\ suspended = {}
    /\ run = [s \in Turns |-> "none"]
    /\ out = [s \in Turns |-> {}]
    /\ bridge = None
    /\ permits = {}
    /\ idle = [s \in Turns |-> 0]
    /\ yields = [s \in Turns |-> 0]
    /\ faults = 0

Next ==
    \/ \E m \in Turns : Refuse(m) \/ Attach(m) \/ Open(m) \/ Send(m) \/ Disconnect(m)
    \/ \E s \in Turns : SessionStep(s) \/ RunStep(s) \/ AgentStep(s) \/ FaultStep(s)
    \/ Tick

Spec == Init /\ [][Next]_vars

\* Handlers, session tasks and collectors are spawned tasks that go on, and
\* time passes.  Clients and the agent owe nothing.
FairSpec ==
    /\ Spec
    /\ \A s \in Turns : WF_vars(Send(s)) /\ WF_vars(SessionStep(s)) /\ WF_vars(RunStep(s))
    /\ WF_vars(Tick)

-----------------------------------------------------------------------------
(* Properties *)

\* The variables have their types, and the bridge's lock is held across an await
\* by the one run that is in its setup phase.
TypeOK ==
    /\ sessions \in [Keys -> Turns \cup {None}]
    /\ inFlight \subseteq Keys
    /\ turn \in [Turns -> {"new", "refused", "claimed", "queued", "running", "ended"}]
    /\ home \in [Turns -> Turns \cup {None}]
    /\ gone \subseteq Turns
    /\ task \in [Turns -> {"none", "recv", "start", "resume", "drain", "suspend",
                           "closing", "over"}]
    /\ suspended \subseteq Turns
    /\ run \in [Turns -> {"none", "setup", "permit", "collect", "input", "deliver",
                          "finalize", "done"}]
    /\ out \in [Turns -> SUBSET {"chunk", "input", "final"}]
    /\ bridge \in Turns \cup {None}
    /\ \A s \in Turns : run[s] = "permit" <=> bridge = s
    /\ permits \subseteq Turns
    /\ idle \in [Turns -> 0 .. IdleLimit]
    /\ yields \in [Turns -> 0 .. MaxYields]
    /\ faults \in 0 .. MaxFaults

\* A turn that has the session to itself: accepted and not yet answered.
Holds(m) ==
    \/ turn[m] \in {"claimed", "queued"}
    \/ turn[m] = "running" /\ task[home[m]] # "suspend"

\* An accepted turn is never left without a session: until it is answered its
\* session is in the map and its task has not left the loop (in_flight is kept
\* set through the teardown of a session).
AcceptedHasSession ==
    \A m \in Turns : Holds(m) =>
        sessions[Key[home[m]]] = home[m] /\ Attached(home[m])

\* in_flight excludes: two turns never have one session at the same time, and
\* while one has it the flag is set.
InFlightExcludes ==
    \A m \in Turns : Holds(m) =>
        /\ Key[home[m]] \in inFlight
        /\ \A n \in Turns : Holds(n) /\ home[n] = home[m] => n = m

\* "abort_tx MUST be kept": a suspended run is still there when the message
\* that resumes it arrives, so a resume is never dropped silently.
SuspendedRunWaits ==
    \A s \in Turns : s \in suspended \/ task[s] = "resume" => run[s] = "input"

\* A session that holds no turn and is still in the map can be claimed and has
\* a suspended run: what a client finds after its stream ended in
\* INPUT_REQUIRED.
IdleSessionResumes ==
    \A k \in Keys : sessions[k] # None /\ k \notin inFlight => sessions[k] \in suspended

\* Every accepted turn's response stream ends, whether the agent yields a
\* terminal or falls silent and whatever the client does ("the idle-timeout and
\* terminal-chunk mechanism ensures the consumer is not left hanging").
StreamsEnd == \A m \in Turns : turn[m] = "claimed" ~> turn[m] = "ended"

\* A run whose session is gone ends too: neither the input it may be waiting for
\* nor the yield that would tell it keeps its collector for ever.
RunsEnd == \A s \in Turns : task[s] = "over" ~> run[s] \in {"none", "done"}
=============================================================================
