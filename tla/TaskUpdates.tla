---------------------------- MODULE TaskUpdates ----------------------------
(***************************************************************************)
(* The updates of one A2A task: how the chunks of the agent's stream reach *)
(* the provenance graph (stream_collector.rs, result_deduplicator.rs,      *)
(* task_subgraph_store.rs), and how tasks.subscribe follows them           *)
(* (handlers.rs, task_update_session.rs, task_update_broadcaster.rs,       *)
(* task_graph_reader_impl.rs).                                             *)
(*                                                                         *)
(* Three writers record updates of the same task and nothing orders them:  *)
(* the collector; on the HTTP route the drain of the live session, which   *)
(* applies every chunk a second time; and the subscriber of the effect     *)
(* bus that reports WORKING when a tool starts.  A subscriber first reads  *)
(* the task, then joins the broadcast channel, then replays the graph with *)
(* three queries, then follows the channel.                                *)
(***************************************************************************)
EXTENDS Integers, Sequences

CONSTANTS
    ChunkKinds,  \* what a chunk may carry: sequences of updates
    Subs,        \* calls of tasks.subscribe
    Capacity,    \* ring buffer capacity of a channel
    MaxChunks,   \* bound on the agent's chunks that are applied: on the live route each is twice
    MaxIncidents \* bound on concurrent writers and failures: the live drain, tool starts,
                 \* failed graph accesses

Terminal == {"COMPLETED", "FAILED", "CANCELED", "REJECTED"}
Statuses == {"SUBMITTED", "WORKING", "INPUT_REQUIRED", "AUTH_REQUIRED"} \cup Terminal
Updates == Statuses \cup {"artifact", "message"}
Frames == [cur : Nat, kind : Updates]
Writers == {"collector", "drain", "auto"}
None == 0

ASSUME ChunkAssumption == ChunkKinds \subseteq Seq(Updates) \ {<<>>}
ASSUME CapacityAssumption == Capacity \in Nat \ {0}
ASSUME BoundsAssumption == MaxChunks \in Nat /\ MaxIncidents \in Nat

VARIABLES
    \* --- the provenance graph
    graph,      \* committed updates, each with its cursor
    head,       \* the state latest_state reads, "NONE" before the first
    cursors,    \* the counter cursors are minted from
    \* --- the stream
    live,       \* drained by a live session
    todo,       \* chunks the collector has to store: the injected one, the agent's one
    submitted,  \* submitted_sent
    seen,       \* chunks the deduplicator has marked
    forwarded,  \* chunks on their way to the drain
    gone,       \* the drain has stopped: its client does not listen any more
    ended,      \* the collector takes no more chunks
    \* --- writers
    pc,         \* next step
    ups,        \* updates of the chunk in hand that are still to be recorded
    cur,        \* cursor minted for the first of them
    hold,       \* channel of the writer handle
    \* --- the broadcaster
    chan,       \* the channel under the task's key
    log,        \* frames sent on each channel
    \* --- subscribers
    spc, snap,  \* next step; whether the task was terminal when it was read
    rx, pos,    \* the receiver: its channel, and the frames it is past
    found,      \* frames of the replay not delivered yet
    last,       \* last_cursor
    got,        \* frames passed on to the client
    failed,     \* subscribers whose replay failed
    \* --- environment
    yields, tools, faults

store == <<graph, head, cursors>>
relay == <<todo, submitted, seen, forwarded, gone, ended>>
stream == <<live, relay>>
writers == <<pc, ups, cur, hold>>
channels == <<chan, log>>
sessions == <<spc, snap, rx, pos, found, last, got, failed>>
env == <<yields, tools, faults>>
vars == <<store, stream, writers, channels, sessions, env>>

Quiet == tools + faults + (IF live THEN 1 ELSE 0) < MaxIncidents

Faulty == Quiet /\ faults' = faults + 1

-----------------------------------------------------------------------------
(* The chunks of the stream *)

\* run_chat_stream_collector receives a chunk.  SUBMITTED is stored before it
\* until that has succeeded once.  COMPLETED and FAILED end the agent's stream.
Receive(k) ==
    /\ ~ ended /\ todo = <<>>
    /\ (yields + 1) * (IF live THEN 2 ELSE 1) <= MaxChunks
    /\ yields' = yields + 1
    /\ todo' = IF submitted THEN <<k>> ELSE <<<<"SUBMITTED">>, k>>
    /\ ended' = \E i \in DOMAIN k : k[i] \in {"COMPLETED", "FAILED"}
    /\ UNCHANGED <<store, live, submitted, seen, forwarded, gone, writers, channels, sessions, tools, faults>>

\* The collector is done with the chunk in hand, and passes it on.  When nobody takes the
\* agent's chunk it stops.
Forward(ok) ==
    /\ todo' = Tail(todo)
    /\ submitted' = (submitted \/ (ok /\ Len(todo) = 2 /\ ~ gone))
    /\ forwarded' = IF live /\ ~ gone /\ (ok \/ Len(todo) = 1) THEN Append(forwarded, Head(todo))
                                                              ELSE forwarded
    /\ ended' = (ended \/ (gone /\ Len(todo) = 1))
    /\ UNCHANGED gone

\* DeduplicatingPipeline: a chunk of the same shape may or may not be the same
\* chunk.
StoreResult ==
    /\ pc["collector"] = "idle" /\ todo # <<>>
    /\ pc' = [pc EXCEPT !["collector"] = "apply"]
    /\ ups' = [ups EXCEPT !["collector"] = Head(todo)]
    /\ UNCHANGED <<store, stream, cur, hold, channels, sessions, env>>

SkipDuplicate ==
    /\ pc["collector"] = "idle" /\ todo # <<>>
    /\ Head(todo) \in seen
    /\ Forward(TRUE)
    /\ UNCHANGED <<store, live, seen, writers, channels, sessions, env>>

\* The live session stores what it received once more, without the deduplicator.
DrainStore ==
    /\ pc["drain"] = "idle" /\ forwarded # <<>>
    /\ pc' = [pc EXCEPT !["drain"] = "apply"]
    /\ ups' = [ups EXCEPT !["drain"] = Head(forwarded)]
    /\ UNCHANGED <<store, stream, cur, hold, channels, sessions, env>>

\* emit_working
ToolStarted ==
    /\ pc["auto"] = "idle" /\ Quiet
    /\ tools' = tools + 1
    /\ pc' = [pc EXCEPT !["auto"] = "apply"]
    /\ ups' = [ups EXCEPT !["auto"] = <<"WORKING">>]
    /\ UNCHANGED <<store, stream, cur, hold, channels, sessions, yields, faults>>

\* The call that stored the chunk returns.  The drain then sends it to the client, and stops
\* when that fails: what is on its way to it is lost.
Finish(w, ok) ==
    \/ /\ w = "collector"
       /\ Forward(ok)
       /\ seen' = IF ok THEN seen \cup {Head(todo)} ELSE seen
    \/ /\ w = "drain"
       /\ \/ forwarded' = Tail(forwarded) /\ UNCHANGED gone
          \/ forwarded' = <<>> /\ gone' = TRUE
       /\ UNCHANGED <<todo, submitted, seen, ended>>
    \/ /\ w = "auto"
       /\ UNCHANGED relay

\* The first of the updates is done with.  After the last one the chunk is marked as
\* processed, and passed on.
Advance(w) ==
    /\ ups' = [ups EXCEPT ![w] = Tail(ups[w])]
    /\ cur' = [cur EXCEPT ![w] = 0]
    /\ \/ /\ Len(ups[w]) > 1
          /\ pc' = [pc EXCEPT ![w] = "apply"]
          /\ UNCHANGED relay
       \/ /\ Len(ups[w]) = 1
          /\ pc' = [pc EXCEPT ![w] = "idle"]
          /\ Finish(w, TRUE)

-----------------------------------------------------------------------------
(* record_status_update, record_artifact_update, emit_message_lifecycle_event *)

\* Mutant: a submitted task can only start to work.
is_allowed_transitionMutant(from, to) ==
    \/ from = to
    \/ from = "SUBMITTED" /\ to = "WORKING"
    \/ from = "WORKING" /\ to \in Statuses \ {"SUBMITTED"}
    \/ from \in {"INPUT_REQUIRED", "AUTH_REQUIRED"} /\ to \in {"WORKING"} \cup Terminal

is_allowed_transition(from, to) ==
    \/ from = to
    \/ from = "SUBMITTED" /\ to \in Statuses \ {"SUBMITTED"}
    \/ from = "WORKING" /\ to \in Statuses \ {"SUBMITTED"}
    \/ from \in {"INPUT_REQUIRED", "AUTH_REQUIRED"} /\ to \in {"WORKING"} \cup Terminal

\* Mutant: the gate only refuses updates of tasks that were never submitted.
AllowedMutant(u) ==
    \/ u \notin Statuses
    \/ head = "NONE" /\ u = "SUBMITTED"
    \/ head # "NONE"

Allowed(u) ==
    \/ u \notin Statuses
    \/ head = "NONE" /\ u = "SUBMITTED"
    \/ head \in Statuses \ Terminal /\ is_allowed_transition(head, u)

Update(w) == Head(ups[w])

\* The gate reads the head, and the event is minted with its cursor.
Mint(w) ==
    /\ pc[w] = "apply"
    /\ Allowed(Update(w))
    /\ cursors' = cursors + 1
    /\ cur' = [cur EXCEPT ![w] = cursors + 1]
    /\ pc' = [pc EXCEPT ![w] = "commit"]
    /\ UNCHANGED <<graph, head, stream, ups, hold, channels, sessions, env>>

Refuse(w) ==
    /\ pc[w] = "apply"
    /\ ~ Allowed(Update(w))
    /\ Advance(w)
    /\ UNCHANGED <<store, live, hold, channels, sessions, env>>

\* add_event: the state node and the head pointer in one transaction.
Commit(w) ==
    /\ pc[w] = "commit"
    /\ graph' = graph \cup {[cur |-> cur[w], kind |-> Update(w)]}
    /\ head' = IF Update(w) \in Statuses THEN Update(w) ELSE head
    /\ \/ Update(w) = "message" /\ Advance(w)
       \/ /\ Update(w) # "message"
          /\ pc' = [pc EXCEPT ![w] = "send"]
          /\ UNCHANGED <<ups, cur, relay>>
    /\ UNCHANGED <<cursors, live, hold, channels, sessions, env>>

\* The error leaves apply_task_chunk: the rest of the chunk is not recorded.
CommitFails(w) ==
    /\ pc[w] = "commit"
    /\ Faulty
    /\ Finish(w, FALSE)
    /\ pc' = [pc EXCEPT ![w] = "idle"]
    /\ ups' = [ups EXCEPT ![w] = <<>>]
    /\ cur' = [cur EXCEPT ![w] = 0]
    /\ UNCHANGED <<store, live, hold, channels, sessions, yields, tools>>

\* ensure_sender: the channel under the key, a new one if there is none; then frames are
\* sent on it.
ensure_sender(c, frames) ==
    \/ /\ chan # None /\ c = chan
       /\ log' = [log EXCEPT ![c] = @ \o frames]
       /\ UNCHANGED chan
    \/ /\ chan = None /\ c = Len(log) + 1
       /\ log' = Append(log, frames)
       /\ chan' = c

\* TaskUpdateBroadcaster::writer and send.  No await lies between them; a terminal frame's
\* handle is kept until the channel is retired.
Send(w) ==
    /\ pc[w] = "send"
    /\ \E c \in 1 .. Len(log) + 1 :
        /\ ensure_sender(c, <<[cur |-> cur[w], kind |-> Update(w)]>>)
        /\ hold' = [hold EXCEPT ![w] = IF Update(w) \in Terminal THEN c ELSE None]
    /\ \/ /\ Update(w) \in Terminal
          /\ pc' = [pc EXCEPT ![w] = "retire"]
          /\ UNCHANGED <<ups, cur, relay>>
       \/ Update(w) \notin Terminal /\ Advance(w)
    /\ UNCHANGED <<store, live, sessions, env>>

\* Mutant: the handle is dropped, the channel stays under the key.
RetireMutant(w) ==
    /\ pc[w] = "retire"
    /\ hold' = [hold EXCEPT ![w] = None]
    /\ Advance(w)
    /\ UNCHANGED <<store, live, channels, sessions, env>>

\* retire_task removes whatever channel is under the key, and drops the handle.
Retire(w) ==
    /\ pc[w] = "retire"
    /\ chan' = None
    /\ hold' = [hold EXCEPT ![w] = None]
    /\ Advance(w)
    /\ UNCHANGED <<store, live, log, sessions, env>>

-----------------------------------------------------------------------------
(* handle_subscribe and TaskUpdateSession *)

\* A task without a status may be bound already, or missing; only then it is refused.
GetTask(s) ==
    /\ spc[s] = "new"
    /\ \/ spc' = [spc EXCEPT ![s] = "subscribe"]
       \/ head = "NONE" /\ spc' = [spc EXCEPT ![s] = "refused"]
    /\ snap' = [snap EXCEPT ![s] = head \in Terminal]
    /\ UNCHANGED <<store, stream, writers, channels, rx, pos, found, last, got, failed, env>>

\* TaskUpdateSession::open joins the channel first.
Subscribe(s) ==
    /\ spc[s] = "subscribe"
    /\ \E c \in 1 .. Len(log) + 1 :
        /\ ensure_sender(c, <<>>)
        /\ rx' = [rx EXCEPT ![s] = c]
        /\ pos' = [pos EXCEPT ![s] = Len(log'[c])]
    /\ spc' = [spc EXCEPT ![s] = "messages"]
    /\ UNCHANGED <<store, stream, writers, snap, found, last, got, failed, env>>

\* What replay_since(last_cursor) still has to read, in the order of its queries.
QueryKinds(l) == [messages |-> {"message"}, artifacts |-> {"artifact"}, statuses |-> Statuses][l]
AfterQuery(l) == [messages |-> "artifacts", artifacts |-> "statuses", statuses |-> "replay"][l]
Queries == {"messages", "artifacts", "statuses"}

ReplayQuery(s) ==
    /\ spc[s] \in Queries
    /\ found' = [found EXCEPT ![s] = @ \cup
                    {f \in graph : f.kind \in QueryKinds(spc[s]) /\ f.cur > last[s]}]
    /\ spc' = [spc EXCEPT ![s] = AfterQuery(spc[s])]
    /\ UNCHANGED <<store, stream, writers, channels, snap, rx, pos, last, got, failed, env>>

\* The subscription is refused, or ends like one that has seen everything.
ReplayFails(s) ==
    /\ spc[s] \in Queries
    /\ Faulty
    /\ spc' = [spc EXCEPT ![s] = "done"]
    /\ found' = [found EXCEPT ![s] = {}]
    /\ failed' = failed \cup {s}
    /\ UNCHANGED <<store, stream, writers, channels, snap, rx, pos, last, got, yields, tools>>

\* Messages have no form on the wire.
Deliver(s, f) ==
    /\ last' = [last EXCEPT ![s] = f.cur]
    /\ got' = IF f.kind = "message" THEN got ELSE [got EXCEPT ![s] = @ \cup {f}]

ReplayNext(s) ==
    /\ spc[s] = "replay"
    /\ \E f \in found[s] :
        /\ \A g \in found[s] : f.cur <= g.cur
        /\ Deliver(s, f)
        /\ found' = [found EXCEPT ![s] = @ \ {f}]
    /\ UNCHANGED <<store, stream, writers, channels, spc, snap, rx, pos, failed, env>>

ReplayEnds(s) ==
    /\ spc[s] = "replay" /\ found[s] = {}
    /\ spc' = [spc EXCEPT ![s] = IF snap[s] THEN "done" ELSE "live"]
    /\ UNCHANGED <<store, stream, writers, channels, snap, rx, pos, found, last, got, failed, env>>

Behind(s) == Len(log[rx[s]]) - pos[s]

\* Mutant: every frame of the channel is delivered.
RecvMutant(s) ==
    /\ spc[s] = "live" /\ Behind(s) \in 1 .. Capacity
    /\ pos' = [pos EXCEPT ![s] = @ + 1]
    /\ Deliver(s, log[rx[s]][pos[s] + 1])
    /\ UNCHANGED <<store, stream, writers, channels, spc, snap, rx, found, failed, env>>

\* The next frame of the channel, unless the replay has delivered it.
Recv(s) ==
    /\ spc[s] = "live" /\ Behind(s) \in 1 .. Capacity
    /\ pos' = [pos EXCEPT ![s] = @ + 1]
    /\ LET f == log[rx[s]][pos[s] + 1] IN
       \/ f.cur > last[s] /\ Deliver(s, f)
       \/ f.cur <= last[s] /\ UNCHANGED <<last, got>>
    /\ UNCHANGED <<store, stream, writers, channels, spc, snap, rx, found, failed, env>>

\* Mutant: after a lag the subscriber goes on with the oldest frame kept.
LaggedMutant(s) ==
    /\ spc[s] = "live" /\ Behind(s) > Capacity
    /\ pos' = [pos EXCEPT ![s] = Len(log[rx[s]]) - Capacity]
    /\ UNCHANGED <<store, stream, writers, channels, spc, snap, rx, found, last, got, failed, env>>

\* RecvError::Lagged: the receiver moves to the oldest frame kept, and the graph is
\* replayed from last_cursor.
Lagged(s) ==
    /\ spc[s] = "live" /\ Behind(s) > Capacity
    /\ pos' = [pos EXCEPT ![s] = Len(log[rx[s]]) - Capacity]
    /\ spc' = [spc EXCEPT ![s] = "messages"]
    /\ UNCHANGED <<store, stream, writers, channels, snap, rx, found, last, got, failed, env>>

\* A channel is closed when the last of its senders is dropped.
Open(c) == chan = c \/ \E w \in Writers : hold[w] = c

\* Mutant: what a closed channel still buffers is not drained.
RecvClosedMutant(s) ==
    /\ spc[s] = "live"
    /\ ~ Open(rx[s])
    /\ spc' = [spc EXCEPT ![s] = "done"]
    /\ UNCHANGED <<store, stream, writers, channels, snap, rx, pos, found, last, got, failed, env>>

RecvClosed(s) ==
    /\ spc[s] = "live" /\ Behind(s) = 0
    /\ ~ Open(rx[s])
    /\ spc' = [spc EXCEPT ![s] = "done"]
    /\ UNCHANGED <<store, stream, writers, channels, snap, rx, pos, found, last, got, failed, env>>

-----------------------------------------------------------------------------

Init ==
    /\ graph = {} /\ head = "NONE" /\ cursors = 0
    /\ live \in BOOLEAN
    /\ todo = <<>> /\ submitted = FALSE /\ seen = {} /\ forwarded = <<>> /\ gone = FALSE /\ ended = FALSE
    /\ pc = [w \in Writers |-> "idle"]
    /\ ups = [w \in Writers |-> <<>>]
    /\ cur = [w \in Writers |-> 0]
    /\ hold = [w \in Writers |-> None]
    /\ chan = None /\ log = <<>>
    /\ spc = [s \in Subs |-> "new"]
    /\ snap = [s \in Subs |-> FALSE]
    /\ rx = [s \in Subs |-> None]
    /\ pos = [s \in Subs |-> 0]
    /\ found = [s \in Subs |-> {}]
    /\ last = [s \in Subs |-> 0]
    /\ got = [s \in Subs |-> {}]
    /\ failed = {}
    /\ yields = 0 /\ tools = 0 /\ faults = 0

Record(w) ==
    \/ Mint(w) \/ Refuse(w) \/ Commit(w) \/ CommitFails(w)
    \/ Send(w) \/ Retire(w)

Follow(s) ==
    \/ Subscribe(s) \/ ReplayQuery(s) \/ ReplayFails(s) \/ ReplayNext(s) \/ ReplayEnds(s)
    \/ Recv(s) \/ Lagged(s) \/ RecvClosed(s)

Next ==
    \/ \E k \in ChunkKinds : Receive(k)
    \/ StoreResult \/ SkipDuplicate \/ DrainStore \/ ToolStarted
    \/ \E w \in Writers : Record(w)
    \/ \E s \in Subs : GetTask(s) \/ Follow(s)

Spec == Init /\ [][Next]_vars

\* Spawned tasks are polled.  Nothing makes the agent yield, a tool start or a client
\* subscribe.
FairSpec ==
    /\ Spec
    /\ WF_vars(StoreResult \/ SkipDuplicate) /\ WF_vars(DrainStore)
    /\ \A w \in Writers : WF_vars(Record(w))
    /\ \A s \in Subs : WF_vars(Follow(s))

-----------------------------------------------------------------------------
(* Properties *)

\* Every variable has its type.
TypeOK ==
    /\ graph \subseteq Frames /\ head \in Statuses \cup {"NONE"} /\ cursors \in Nat
    /\ live \in BOOLEAN /\ submitted \in BOOLEAN /\ gone \in BOOLEAN /\ ended \in BOOLEAN
    /\ todo \in Seq(Seq(Updates)) /\ forwarded \in Seq(Seq(Updates)) /\ seen \subseteq Seq(Updates)
    /\ pc \in [Writers -> {"idle", "apply", "commit", "send", "retire"}]
    /\ ups \in [Writers -> Seq(Updates)] /\ cur \in [Writers -> Nat]
    /\ hold \in [Writers -> 0 .. Len(log)]
    /\ chan \in 0 .. Len(log) /\ log \in Seq(Seq(Frames))
    /\ spc \in [Subs -> {"new", "refused", "subscribe", "replay", "live", "done"} \cup Queries]
    /\ snap \in [Subs -> BOOLEAN] /\ rx \in [Subs -> 0 .. Len(log)] /\ pos \in [Subs -> Nat]
    /\ found \in [Subs -> SUBSET Frames] /\ last \in [Subs -> Nat]
    /\ got \in [Subs -> SUBSET Frames] /\ failed \subseteq Subs
    /\ yields \in Nat /\ tools \in Nat /\ faults \in Nat

\* One writer at a time: an internal stream whose agent starts no tool.
Serial == ~ live /\ tools = 0

\* A subscriber sees frames in the order of their cursors and none twice, whatever the
\* writers do, across the change from replay to live delivery and back after a lag
\* (task_update_session.rs).
DeliveredInOrder ==
    [][\A s \in Subs : \A f \in got'[s] \ got[s] : \A g \in got[s] : g.cur < f.cur]_vars

\* With one writer no status is skipped: what a subscriber has not seen of the task's
\* history is newer than all it has seen (replay reads statuses last; lag recovery).
StatusesKept ==
    Serial => \A s \in Subs : \A f \in graph :
        f.kind \in Statuses /\ f.cur <= last[s] => f \in got[s]

\* With one writer a subscription that ends, and did not fail, has delivered every
\* status of the task, the terminal one included.
EndsComplete ==
    Serial => \A s \in Subs \ failed : spc[s] = "done" =>
        \A f \in graph : f.kind \in Statuses => f \in got[s]

\* With one writer a terminal state is final, whatever the agent goes on to yield
\* (a2a_store.rs: "Enforces I1 (FSM boundary)").
TerminalIsFinal == [][Serial' /\ head \in Terminal => head' = head]_head

\* A live stream is applied twice, by collector and drain concurrently, and the drain can
\* overwrite a terminal head; but once the drain has caught up, and has not lost its client, a
\* stream that ended with COMPLETED or FAILED has left the task terminal.
DrainSettles ==
    /\ ended /\ ~ gone /\ todo = <<>> /\ forwarded = <<>>
    /\ pc["collector"] = "idle" /\ pc["drain"] = "idle"
    /\ tools = 0 /\ faults = 0
    => head \in Terminal

\* A subscriber whose channel has carried a terminal frame ends (retire_task closes the
\* channel, and what it buffers is drained).
TerminalEndsStream ==
    \A s \in Subs :
        (rx[s] # None /\ \E i \in DOMAIN log[rx[s]] : log[rx[s]][i].kind \in Terminal)
            ~> spc[s] = "done"

\* conversation-spec: "The consumer never observes a gap."
NoGap ==
    Serial => \A s \in Subs : \A f \in graph :
        f.kind # "message" /\ f.cur <= last[s] => f \in got[s]
=============================================================================
