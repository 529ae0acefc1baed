------------------------- MODULE TaskUpdatesProofs -------------------------
(***************************************************************************)
(* Proofs, for every value of the constants, of safety properties of       *)
(* TaskUpdates: the types; the order in which a subscriber sees the        *)
(* updates of a task; with a single writer, that a terminal state stays,   *)
(* that a subscriber skips no status and that a subscription ends with all *)
(* of them; and that a stream applied twice leaves the task terminal.      *)
(***************************************************************************)
EXTENDS TaskUpdates, SequenceTheorems, TLAPS

Chunks == Seq(Updates) \ {<<>>}

\* A writer at work has an update in hand, and the chunk it came from.  A subscriber past
\* its subscription has a channel.
WorkInv ==
    /\ todo \in Seq(Chunks) /\ forwarded \in Seq(Chunks)
    /\ \A w \in Writers : pc[w] # "idle" => ups[w] # <<>>
    /\ pc["collector"] # "idle" => todo # <<>>
    /\ pc["drain"] # "idle" => forwarded # <<>>
    /\ \A s \in Subs : spc[s] \in Queries \cup {"replay", "live"} => rx[s] # None

TypeInv == TypeOK /\ WorkInv

\* What Advance and Finish may change.
WriterType ==
    /\ todo \in Seq(Chunks) /\ forwarded \in Seq(Chunks) /\ seen \subseteq Seq(Updates)
    /\ submitted \in BOOLEAN /\ gone \in BOOLEAN /\ ended \in BOOLEAN
    /\ pc \in [Writers -> {"idle", "apply", "commit", "send", "retire"}]
    /\ ups \in [Writers -> Seq(Updates)] /\ cur \in [Writers -> Nat]
    /\ \A w \in Writers : pc[w] # "idle" => ups[w] # <<>>
    /\ pc["collector"] # "idle" => todo # <<>>
    /\ pc["drain"] # "idle" => forwarded # <<>>

-----------------------------------------------------------------------------
\* The rest of a sequence that has more than one element.
LEMMA LongTail ==
    ASSUME NEW S, NEW q \in Seq(S), Len(q) > 1
    PROVE  Tail(q) \in Seq(S) /\ Tail(q) # <<>>
<1>1. Len(q) \in Nat /\ q # <<>>
  BY EmptySeq, LenProperties
<1>2. Tail(q) \in Seq(S) /\ Len(Tail(q)) = Len(q) - 1
  BY <1>1, HeadTailProperties
<1>3. Len(Tail(q)) # 0
  BY <1>1, <1>2
<1> QED BY <1>2, <1>3, EmptySeq, Zenon

\* Sequences of chunks are sequences of sequences.
LEMMA ChunkSeq == Seq(Chunks) \subseteq Seq(Seq(Updates))
  BY DEF Chunks

\* A chunk leaves the hands of the collector.
LEMMA ForwardType ==
    ASSUME live \in BOOLEAN, submitted \in BOOLEAN, gone \in BOOLEAN, ended \in BOOLEAN, NEW ok \in BOOLEAN,
           todo \in Seq(Chunks), todo # <<>>, forwarded \in Seq(Chunks), Forward(ok)
    PROVE  /\ todo' \in Seq(Chunks) /\ forwarded' \in Seq(Chunks) /\ submitted' \in BOOLEAN
           /\ gone' \in BOOLEAN /\ ended' \in BOOLEAN
           /\ forwarded # <<>> => forwarded' # <<>>
<1>1. Head(todo) \in Chunks /\ Tail(todo) \in Seq(Chunks)
  OBVIOUS
<1>2. Append(forwarded, Head(todo)) \in Seq(Chunks) /\ Append(forwarded, Head(todo)) # <<>>
  BY <1>1
<1> QED BY <1>1, <1>2 DEF Forward

\* The return of a call that stored a chunk keeps the chunks well-typed.
LEMMA FinishType ==
    ASSUME TypeOK, WorkInv, NEW w \in Writers, NEW ok \in BOOLEAN, pc[w] # "idle", Finish(w, ok)
    PROVE  /\ todo' \in Seq(Chunks) /\ forwarded' \in Seq(Chunks) /\ submitted' \in BOOLEAN
           /\ gone' \in BOOLEAN /\ ended' \in BOOLEAN
           /\ seen' \subseteq Seq(Updates)
           /\ w # "collector" => todo' = todo
           /\ w # "drain" /\ forwarded # <<>> => forwarded' # <<>>
<1>1. CASE w = "collector"
  <2>1. Forward(ok) /\ seen' \subseteq seen \cup {Head(todo)}
    BY <1>1 DEF Finish
  <2>2. todo # <<>> /\ Head(todo) \in Seq(Updates)
    BY <1>1 DEF WorkInv, Chunks
  <2> QED BY <1>1, <2>1, <2>2, ForwardType DEF TypeOK, WorkInv
<1>2. CASE w = "drain"
  <2>1. /\ \/ forwarded' = Tail(forwarded) /\ UNCHANGED gone
           \/ forwarded' = <<>> /\ gone' = TRUE
        /\ UNCHANGED <<todo, submitted, seen, ended>>
    BY <1>2 DEF Finish
  <2>2. forwarded \in Seq(Chunks) /\ forwarded # <<>>
    BY <1>2 DEF WorkInv
  <2>3. Tail(forwarded) \in Seq(Chunks) /\ <<>> \in Seq(Chunks)
    BY <2>2
  <2> QED BY <1>2, <2>1, <2>3 DEF TypeOK, WorkInv
<1>3. CASE w = "auto"
  BY <1>3 DEF Finish, relay, TypeOK, WorkInv
<1> QED BY <1>1, <1>2, <1>3 DEF Writers

\* A writer that is done with an update goes on to one that is there.
LEMMA AdvanceType ==
    ASSUME TypeOK, WorkInv, NEW w \in Writers, pc[w] # "idle", Advance(w)
    PROVE  WriterType'
<1> USE DEF relay
<1>1. ups[w] \in Seq(Updates) /\ ups[w] # <<>> /\ Tail(ups[w]) \in Seq(Updates)
  BY DEF TypeOK, WorkInv
<1>2. /\ ups' \in [Writers -> Seq(Updates)] /\ cur' \in [Writers -> Nat]
      /\ \A v \in Writers \ {w} : ups'[v] = ups[v]
      /\ ups'[w] = Tail(ups[w])
  BY <1>1 DEF Advance, TypeOK
<1>3. CASE /\ Len(ups[w]) > 1
           /\ pc' = [pc EXCEPT ![w] = "apply"]
           /\ UNCHANGED relay
  <2>1. Tail(ups[w]) # <<>>
    BY <1>1, <1>3, LongTail
  <2>2. \A v \in Writers : ups'[v] # <<>> \/ (v # w /\ ups'[v] = ups[v])
    BY <1>2, <2>1
  <2>3. pc' \in [Writers -> {"idle", "apply", "commit", "send", "retire"}]
    BY <1>3 DEF TypeOK
  <2>4. \A v \in Writers : pc'[v] # "idle" => ups'[v] # <<>>
    BY <1>3, <2>2 DEF TypeOK, WorkInv
  <2>5. /\ pc'["collector"] # "idle" => todo' # <<>>
        /\ pc'["drain"] # "idle" => forwarded' # <<>>
    BY <1>3 DEF TypeOK, WorkInv, Writers
  <2> QED BY <1>2, <1>3, <2>3, <2>4, <2>5 DEF WriterType, TypeOK, WorkInv
<1>4. CASE pc' = [pc EXCEPT ![w] = "idle"] /\ Finish(w, TRUE)
  <2>1. /\ todo' \in Seq(Chunks) /\ forwarded' \in Seq(Chunks) /\ submitted' \in BOOLEAN
        /\ gone' \in BOOLEAN /\ ended' \in BOOLEAN
        /\ seen' \subseteq Seq(Updates)
        /\ w # "collector" => todo' = todo
        /\ w # "drain" /\ forwarded # <<>> => forwarded' # <<>>
    BY <1>4, FinishType
  <2>2. pc' \in [Writers -> {"idle", "apply", "commit", "send", "retire"}]
    BY <1>4 DEF TypeOK
  <2>3. \A v \in Writers : pc'[v] # "idle" => v # w /\ pc[v] # "idle"
    BY <1>4 DEF TypeOK
  <2>4. \A v \in Writers : pc'[v] # "idle" => ups'[v] # <<>>
    BY <1>2, <2>3 DEF WorkInv
  <2>5. /\ pc'["collector"] # "idle" => todo' # <<>>
        /\ pc'["drain"] # "idle" => forwarded' # <<>>
    BY <2>1, <2>3 DEF WorkInv, Writers
  <2> QED BY <1>2, <2>1, <2>2, <2>4, <2>5 DEF WriterType
<1> QED BY <1>3, <1>4 DEF Advance

\* A sender belongs to a channel that is there, and channels stay.
LEMMA SenderType ==
    ASSUME TypeOK, NEW c \in 1 .. Len(log) + 1, NEW frames \in Seq(Frames),
           ensure_sender(c, frames)
    PROVE  /\ log' \in Seq(Seq(Frames)) /\ Len(log') \in Nat /\ Len(log) <= Len(log')
           /\ c \in 1 .. Len(log') /\ chan' \in 0 .. Len(log')
           /\ Len(log'[c]) \in Nat
<1>1. log \in Seq(Seq(Frames)) /\ chan \in 0 .. Len(log) /\ Len(log) \in Nat
  BY DEF TypeOK
<1>2. CASE chan # None
  <2>1. c = chan /\ log' = [log EXCEPT ![c] = @ \o frames] /\ chan' = chan
    BY <1>2 DEF ensure_sender
  <2>2. c \in 1 .. Len(log)
    BY <1>1, <1>2, <2>1 DEF None
  <2>3. log[c] \o frames \in Seq(Frames)
    BY <1>1, <2>2, ElementOfSeq, ConcatProperties
  <2>4. log' \in Seq(Seq(Frames)) /\ Len(log') = Len(log) /\ log'[c] = log[c] \o frames
    BY <1>1, <2>1, <2>2, <2>3, ExceptSeq
  <2> QED BY <1>1, <2>1, <2>2, <2>3, <2>4, LenProperties
<1>3. CASE chan = None
  <2>1. c = Len(log) + 1 /\ log' = Append(log, frames) /\ chan' = c
    BY <1>3 DEF ensure_sender
  <2>2. log' \in Seq(Seq(Frames)) /\ Len(log') = Len(log) + 1 /\ log'[c] = frames
    BY <1>1, <2>1
  <2> QED BY <1>1, <2>1, <2>2, LenProperties
<1> QED BY <1>2, <1>3

\* The types of what no writer's bookkeeping touches.
RestType ==
    /\ graph \subseteq Frames /\ head \in Statuses \cup {"NONE"} /\ cursors \in Nat
    /\ live \in BOOLEAN
    /\ hold \in [Writers -> 0 .. Len(log)]
    /\ chan \in 0 .. Len(log) /\ log \in Seq(Seq(Frames))
    /\ spc \in [Subs -> {"new", "refused", "subscribe", "replay", "live", "done"} \cup Queries]
    /\ snap \in [Subs -> BOOLEAN] /\ rx \in [Subs -> 0 .. Len(log)] /\ pos \in [Subs -> Nat]
    /\ found \in [Subs -> SUBSET Frames] /\ last \in [Subs -> Nat]
    /\ got \in [Subs -> SUBSET Frames] /\ failed \subseteq Subs
    /\ yields \in Nat /\ tools \in Nat /\ faults \in Nat
    /\ \A s \in Subs : spc[s] \in Queries \cup {"replay", "live"} => rx[s] # None

\* The two halves of the type invariant.
LEMMA TypeSplit == TypeInv <=> WriterType /\ RestType
  BY ChunkSeq DEF TypeInv, TypeOK, WorkInv, WriterType, RestType

\* The same after a step.
LEMMA TypeJoin == WriterType' /\ RestType' => TypeInv'
  BY ChunkSeq DEF TypeInv, TypeOK, WorkInv, WriterType, RestType

\* The update in hand.
LEMMA UpdateType ==
    ASSUME TypeInv, NEW w \in Writers, pc[w] # "idle"
    PROVE  Update(w) \in Updates
  BY DEF TypeInv, TypeOK, WorkInv, Update

\* Nothing is stored and nobody subscribes at the start.
LEMMA InitType == Init => TypeInv
<1> SUFFICES ASSUME Init PROVE TypeInv
  OBVIOUS
<1>0. /\ <<>> \in Seq(Chunks) /\ <<>> \in Seq(Updates) /\ <<>> \in Seq(Seq(Frames))
      /\ Len(<<>>) = 0 /\ None \in 0 .. 0
  BY EmptySeq DEF None
<1>1. WriterType
  <2>1. ups \in [Writers -> Seq(Updates)] /\ cur \in [Writers -> Nat]
    BY <1>0 DEF Init
  <2>2. pc = [w \in Writers |-> "idle"]
    BY DEF Init
  <2> QED BY <1>0, <2>1, <2>2 DEF Init, WriterType, Writers
<1>2. RestType
  <2>1. /\ hold \in [Writers -> 0 .. Len(log)] /\ rx \in [Subs -> 0 .. Len(log)]
        /\ chan \in 0 .. Len(log) /\ log \in Seq(Seq(Frames))
    BY <1>0 DEF Init
  <2>2. spc = [s \in Subs |-> "new"]
    BY DEF Init
  <2>3. /\ spc \in [Subs -> {"new", "refused", "subscribe", "replay", "live", "done"} \cup Queries]
        /\ \A s \in Subs : spc[s] \notin Queries \cup {"replay", "live"}
    BY <2>2 DEF Queries
  <2> QED BY <2>1, <2>3 DEF Init, RestType
<1> QED BY <1>1, <1>2, TypeSplit

\* The steps that feed the writers keep the types.
LEMMA StreamTypeStep ==
    ASSUME TypeInv,
           (\E k \in ChunkKinds : Receive(k)) \/ StoreResult \/ SkipDuplicate \/ DrainStore \/ ToolStarted
    PROVE  TypeInv'
<1> USE DEF store, stream, relay, writers, channels, sessions, env
<1>0. WriterType /\ RestType
  BY TypeSplit
<1>1. ASSUME NEW k \in ChunkKinds, Receive(k) PROVE TypeInv'
  <2>1. k \in Chunks /\ <<"SUBMITTED">> \in Chunks
    BY ChunkAssumption DEF Chunks, Updates, Statuses
  <2>2. todo' \in Seq(Chunks) /\ todo' # <<>>
    BY <1>1, <2>1 DEF Receive
  <2>3. WriterType'
    BY <1>0, <1>1, <2>2 DEF WriterType, Receive
  <2>4. RestType'
    BY <1>0, <1>1 DEF RestType, Receive
  <2> QED BY <2>3, <2>4, TypeJoin
<1>2. CASE StoreResult
  <2>1. Head(todo) \in Chunks
    BY <1>0, <1>2 DEF StoreResult, WriterType
  <2>2. WriterType'
    BY <1>0, <1>2, <2>1 DEF WriterType, StoreResult, Chunks, Writers
  <2>3. RestType'
    BY <1>0, <1>2 DEF RestType, StoreResult
  <2> QED BY <2>2, <2>3, TypeJoin
<1>3. CASE SkipDuplicate
  <2>1. /\ todo' \in Seq(Chunks) /\ forwarded' \in Seq(Chunks) /\ submitted' \in BOOLEAN
        /\ gone' \in BOOLEAN /\ ended' \in BOOLEAN
        /\ forwarded # <<>> => forwarded' # <<>>
    BY <1>0, <1>3, ForwardType DEF SkipDuplicate, WriterType, RestType
  <2>2. WriterType'
    BY <1>0, <1>3, <2>1 DEF WriterType, SkipDuplicate
  <2>3. RestType'
    BY <1>0, <1>3 DEF RestType, SkipDuplicate
  <2> QED BY <2>2, <2>3, TypeJoin
<1>4. CASE DrainStore
  <2>1. Head(forwarded) \in Chunks
    BY <1>0, <1>4 DEF DrainStore, WriterType
  <2>2. WriterType'
    BY <1>0, <1>4, <2>1 DEF WriterType, DrainStore, Chunks, Writers
  <2>3. RestType'
    BY <1>0, <1>4 DEF RestType, DrainStore
  <2> QED BY <2>2, <2>3, TypeJoin
<1>5. CASE ToolStarted
  <2>1. <<"WORKING">> \in Seq(Updates) /\ <<"WORKING">> # <<>>
    BY DEF Updates, Statuses
  <2>2. WriterType'
    BY <1>0, <1>5, <2>1 DEF WriterType, ToolStarted, Writers
  <2>3. RestType'
    BY <1>0, <1>5 DEF RestType, ToolStarted
  <2> QED BY <2>2, <2>3, TypeJoin
<1> QED BY <1>1, <1>2, <1>3, <1>4, <1>5

\* The steps of a writer keep the types.
LEMMA RecordTypeStep ==
    ASSUME TypeInv, NEW w \in Writers, Record(w)
    PROVE  TypeInv'
<1> USE DEF store, stream, relay, writers, channels, sessions, env
<1>0. WriterType /\ RestType /\ TypeOK /\ WorkInv
  BY TypeSplit DEF TypeInv
<1>1. CASE Mint(w)
  <2>1. WriterType'
    BY <1>0, <1>1 DEF WriterType, Mint, RestType
  <2>2. RestType'
    BY <1>0, <1>1 DEF RestType, Mint
  <2> QED BY <2>1, <2>2, TypeJoin
<1>2. CASE Refuse(w)
  <2>1. WriterType'
    BY <1>0, <1>2, AdvanceType DEF Refuse
  <2>2. RestType'
    BY <1>0, <1>2 DEF RestType, Refuse
  <2> QED BY <2>1, <2>2, TypeJoin
<1>3. CASE Commit(w)
  <2>0. /\ pc[w] # "idle"
        /\ Advance(w) \/ ( /\ pc' = [pc EXCEPT ![w] = "send"]
                          /\ UNCHANGED <<ups, cur, relay>> )
    BY <1>3 DEF Commit
  <2>3. WriterType'
    <3>1. CASE Advance(w)
      BY <1>0, <2>0, <3>1, AdvanceType
    <3>2. CASE /\ pc' = [pc EXCEPT ![w] = "send"]
               /\ UNCHANGED <<ups, cur, relay>>
      BY <1>0, <2>0, <3>2 DEF WriterType
    <3> QED BY <2>0, <3>1, <3>2
  <2>4. [cur |-> cur[w], kind |-> Update(w)] \in Frames
    BY <1>0, <1>3, UpdateType DEF Frames, WriterType, Commit
  <2>5. RestType'
    BY <1>0, <1>3, <2>4 DEF RestType, Commit
  <2> QED BY <2>3, <2>5, TypeJoin
<1>4. CASE CommitFails(w)
  <2>1. /\ todo' \in Seq(Chunks) /\ forwarded' \in Seq(Chunks) /\ submitted' \in BOOLEAN
        /\ gone' \in BOOLEAN /\ ended' \in BOOLEAN
        /\ seen' \subseteq Seq(Updates)
        /\ w # "collector" => todo' = todo
        /\ w # "drain" /\ forwarded # <<>> => forwarded' # <<>>
    BY <1>0, <1>4, FinishType DEF CommitFails
  <2>2. /\ pc' \in [Writers -> {"idle", "apply", "commit", "send", "retire"}]
        /\ ups' \in [Writers -> Seq(Updates)] /\ cur' \in [Writers -> Nat]
    BY <1>0, <1>4, EmptySeq DEF CommitFails, WriterType
  <2>3. \A v \in Writers : pc'[v] # "idle" => v # w /\ pc[v] # "idle" /\ ups'[v] = ups[v]
    BY <1>0, <1>4 DEF CommitFails, WriterType
  <2>4. /\ pc'["collector"] # "idle" => todo' # <<>>
        /\ pc'["drain"] # "idle" => forwarded' # <<>>
    BY <1>0, <2>1, <2>3 DEF WorkInv, Writers
  <2>5. \A v \in Writers : pc'[v] # "idle" => ups'[v] # <<>>
    BY <1>0, <2>3 DEF WorkInv
  <2>6. WriterType'
    BY <2>1, <2>2, <2>4, <2>5 DEF WriterType
  <2>7. RestType'
    BY <1>0, <1>4 DEF RestType, CommitFails, Faulty
  <2> QED BY <2>6, <2>7, TypeJoin
<1>5. CASE Send(w)
  <2>1. PICK c \in 1 .. Len(log) + 1 :
          /\ ensure_sender(c, <<[cur |-> cur[w], kind |-> Update(w)]>>)
          /\ hold' = [hold EXCEPT ![w] = IF Update(w) \in Terminal THEN c ELSE None]
    BY <1>5 DEF Send
  <2>2. [cur |-> cur[w], kind |-> Update(w)] \in Frames
    BY <1>0, <1>5, UpdateType DEF Frames, WriterType, Send
  <2>3. <<[cur |-> cur[w], kind |-> Update(w)]>> \in Seq(Frames)
    BY <2>2
  <2>4. /\ log' \in Seq(Seq(Frames)) /\ Len(log') \in Nat /\ Len(log) <= Len(log')
        /\ c \in 1 .. Len(log') /\ chan' \in 0 .. Len(log')
    BY <1>0, <2>1, <2>3, SenderType
  <2>5. Len(log) \in Nat
    BY <1>0 DEF RestType
  <2>6. 0 .. Len(log) \subseteq 0 .. Len(log') /\ None \in 0 .. Len(log')
    BY <2>4, <2>5 DEF None
  <2>7. hold' \in [Writers -> 0 .. Len(log')] /\ rx' \in [Subs -> 0 .. Len(log')]
    BY <1>0, <1>5, <2>1, <2>4, <2>6 DEF RestType, Send
  <2>8. /\ pc[w] # "idle"
        /\ Advance(w) \/ ( /\ pc' = [pc EXCEPT ![w] = "retire"]
                          /\ UNCHANGED <<ups, cur, relay>> )
    BY <1>5 DEF Send
  <2>10. WriterType'
    <3>1. CASE Advance(w)
      BY <1>0, <2>8, <3>1, AdvanceType
    <3>2. CASE /\ pc' = [pc EXCEPT ![w] = "retire"]
               /\ UNCHANGED <<ups, cur, relay>>
      BY <1>0, <2>8, <3>2 DEF WriterType
    <3> QED BY <2>8, <3>1, <3>2
  <2>11. RestType'
    BY <1>0, <1>5, <2>4, <2>7 DEF RestType, Send
  <2> QED BY <2>10, <2>11, TypeJoin
<1>6. CASE Retire(w)
  <2>1. WriterType'
    BY <1>0, <1>6, AdvanceType DEF Retire
  <2>2. RestType'
    BY <1>0, <1>6 DEF RestType, Retire, None
  <2> QED BY <2>1, <2>2, TypeJoin
<1> QED BY <1>1, <1>2, <1>3, <1>4, <1>5, <1>6 DEF Record

\* The steps of a subscriber keep the types.
LEMMA FollowTypeStep ==
    ASSUME TypeInv, NEW s \in Subs, GetTask(s) \/ Follow(s)
    PROVE  TypeInv'
<1> USE DEF store, stream, relay, writers, channels, sessions, env
<1>0. WriterType /\ RestType /\ TypeOK
  BY TypeSplit DEF TypeInv
<1>w. ASSUME UNCHANGED <<relay, pc, ups, cur>>, RestType' PROVE TypeInv'
  <2>1. WriterType'
    BY <1>0, <1>w DEF WriterType
  <2> QED BY <1>w, <2>1, TypeJoin
<1>1. CASE GetTask(s)
  <2>0. spc' \in [Subs -> {"new", "refused", "subscribe", "replay", "live", "done"} \cup Queries]
    BY <1>0, <1>1 DEF RestType, GetTask
  <2>1. snap' \in [Subs -> BOOLEAN]
    <3>1. snap' = [snap EXCEPT ![s] = head \in Terminal] /\ snap \in [Subs -> BOOLEAN]
      BY <1>0, <1>1 DEF RestType, GetTask
    <3>2. (head \in Terminal) \in BOOLEAN
      OBVIOUS
    <3> QED BY <3>1, <3>2, Zenon
  <2>2. UNCHANGED <<store, live, relay, writers, channels, rx, pos, found, last, got, failed, env>>
    BY <1>1 DEF GetTask
  <2>3. \A t \in Subs : spc'[t] \in Queries \cup {"replay", "live"} => spc[t] \in Queries \cup {"replay", "live"}
    BY <1>0, <1>1 DEF RestType, GetTask, Queries
  <2>4. RestType'
    BY <1>0, <2>0, <2>1, <2>2, <2>3 DEF RestType
  <2> QED BY <2>2, <2>4, <1>w
<1>2. CASE Subscribe(s)
  <2>1. PICK c \in 1 .. Len(log) + 1 :
          /\ ensure_sender(c, <<>>)
          /\ rx' = [rx EXCEPT ![s] = c]
          /\ pos' = [pos EXCEPT ![s] = Len(log'[c])]
    BY <1>2 DEF Subscribe
  <2>2. /\ log' \in Seq(Seq(Frames)) /\ Len(log') \in Nat /\ Len(log) <= Len(log')
        /\ c \in 1 .. Len(log') /\ chan' \in 0 .. Len(log')
        /\ Len(log'[c]) \in Nat
    BY <1>0, <2>1, SenderType, EmptySeq
  <2>3. Len(log) \in Nat
    BY <1>0 DEF RestType
  <2>4. 0 .. Len(log) \subseteq 0 .. Len(log') /\ c \in 0 .. Len(log') /\ c # None
    BY <2>2, <2>3 DEF None
  <2>5. /\ hold' \in [Writers -> 0 .. Len(log')] /\ rx' \in [Subs -> 0 .. Len(log')]
        /\ pos' \in [Subs -> Nat]
    BY <1>0, <1>2, <2>1, <2>2, <2>4 DEF RestType, Subscribe
  <2>6. /\ spc' \in [Subs -> {"new", "refused", "subscribe", "replay", "live", "done"} \cup Queries]
        /\ \A r \in Subs : spc'[r] \in Queries \cup {"replay", "live"} => rx'[r] # None
    BY <1>0, <1>2, <2>1, <2>4 DEF RestType, Subscribe, Queries
  <2>7. RestType'
    BY <1>0, <1>2, <2>2, <2>5, <2>6 DEF RestType, Subscribe
  <2> QED BY <1>2, <2>7, <1>w DEF Subscribe
<1>3. CASE ReplayQuery(s)
  <2>1. AfterQuery(spc[s]) \in Queries \cup {"replay"}
    BY <1>3 DEF ReplayQuery, AfterQuery, Queries
  <2>2. RestType'
    BY <1>0, <1>3, <2>1 DEF RestType, ReplayQuery
  <2> QED BY <1>3, <2>2, <1>w DEF ReplayQuery
<1>4. CASE ReplayFails(s)
  <2>1. RestType'
    BY <1>0, <1>4 DEF RestType, ReplayFails, Faulty, Queries
  <2> QED BY <1>4, <2>1, <1>w DEF ReplayFails
<1>5. CASE ReplayNext(s)
  <2>1. PICK f \in found[s] : Deliver(s, f) /\ found' = [found EXCEPT ![s] = @ \ {f}]
    BY <1>5 DEF ReplayNext
  <2>2. f \in Frames /\ f.cur \in Nat
    BY <1>0 DEF RestType, Frames
  <2>3. last' \in [Subs -> Nat] /\ got' \in [Subs -> SUBSET Frames] /\ found' \in [Subs -> SUBSET Frames]
    BY <1>0, <2>1, <2>2 DEF RestType, Deliver
  <2>4. RestType'
    BY <1>0, <1>5, <2>3 DEF RestType, ReplayNext
  <2> QED BY <1>5, <2>4, <1>w DEF ReplayNext
<1>6. CASE ReplayEnds(s)
  <2>1. RestType'
    BY <1>0, <1>6 DEF RestType, ReplayEnds, Queries
  <2> QED BY <1>6, <2>1, <1>w DEF ReplayEnds
<1>7. CASE Recv(s)
  <2> DEFINE f == log[rx[s]][pos[s] + 1]
  <2>1. f \in Frames /\ f.cur \in Nat
    <3>1. rx[s] \in 1 .. Len(log)
      BY <1>0, <1>7 DEF RestType, Recv, None
    <3>2. log[rx[s]] \in Seq(Frames)
      BY <1>0, <3>1, ElementOfSeq DEF RestType
    <3>3. pos[s] + 1 \in 1 .. Len(log[rx[s]])
      BY <1>0, <1>7, <3>2 DEF RestType, Recv, Behind
    <3>4. f \in Frames
      BY <3>2, <3>3, ElementOfSeq
    <3> QED BY <3>4 DEF Frames
  <2>2. last' \in [Subs -> Nat] /\ got' \in [Subs -> SUBSET Frames]
    <3>1. CASE Deliver(s, f)
      BY <1>0, <2>1, <3>1 DEF RestType, Deliver
    <3>2. CASE UNCHANGED <<last, got>>
      BY <1>0, <3>2 DEF RestType
    <3> QED BY <1>7, <3>1, <3>2 DEF Recv
  <2>3. pos' = [pos EXCEPT ![s] = pos[s] + 1] /\ UNCHANGED <<store, live, hold, channels, spc, snap, rx, found, failed, env>>
    BY <1>7 DEF Recv
  <2>4. RestType'
    BY <1>0, <2>2, <2>3 DEF RestType
  <2> QED BY <1>7, <2>4, <1>w DEF Recv
<1>8. CASE Lagged(s)
  <2>1. rx[s] \in 1 .. Len(log)
    BY <1>0, <1>8 DEF RestType, Lagged, None
  <2>2. Len(log[rx[s]]) \in Nat
    BY <1>0, <2>1, ElementOfSeq, LenProperties DEF RestType
  <2>3. Len(log[rx[s]]) - Capacity \in Nat
    BY <1>0, <1>8, <2>2, CapacityAssumption DEF RestType, Lagged, Behind
  <2>4. RestType'
    BY <1>0, <1>8, <2>3 DEF RestType, Lagged, Queries
  <2> QED BY <1>8, <2>4, <1>w DEF Lagged
<1>9. CASE RecvClosed(s)
  <2>1. RestType'
    BY <1>0, <1>9 DEF RestType, RecvClosed, Queries
  <2> QED BY <1>9, <2>1, <1>w DEF RecvClosed
<1> QED BY <1>1, <1>2, <1>3, <1>4, <1>5, <1>6, <1>7, <1>8, <1>9 DEF Follow

\* Every step keeps the types.
LEMMA TypeStep == TypeInv /\ [Next]_vars => TypeInv'
<1> SUFFICES ASSUME TypeInv, [Next]_vars PROVE TypeInv'
  OBVIOUS
<1>1. CASE UNCHANGED vars
  BY <1>1 DEF vars, store, stream, relay, writers, channels, sessions, env, TypeInv, TypeOK, WorkInv
<1>2. CASE Next
  BY <1>2, StreamTypeStep, RecordTypeStep, FollowTypeStep DEF Next
<1> QED BY <1>1, <1>2

\* TypeOK for every value of the constants (task_subgraph_store.rs, task_update_session.rs):
\* writers have an update in hand, subscribers a channel.
THEOREM TypeCorrect == Spec => []TypeOK
<1>1. TypeInv => TypeOK
  BY DEF TypeInv
<1> QED BY InitType, TypeStep, <1>1, PTL DEF Spec

-----------------------------------------------------------------------------
(* The order of delivery *)

\* No cursor is used twice, whichever writers mint them.
CursorInv ==
    /\ \A f \in graph : f.cur <= cursors
    /\ \A f, g \in graph : f.cur = g.cur => f = g
    /\ \A w \in Writers : pc[w] = "commit" =>
          cur[w] <= cursors /\ \A f \in graph : f.cur # cur[w]
    /\ \A v, w \in Writers : pc[v] = "commit" /\ pc[w] = "commit" /\ cur[v] = cur[w] => v = w

\* last_cursor divides what was delivered from what is still to be replayed.
DeliveryInv ==
    \A s \in Subs :
        /\ found[s] \subseteq graph
        /\ \A f \in found[s] : last[s] < f.cur
        /\ \A f \in got[s] : f.cur <= last[s]

\* Only a replay has frames to deliver.
ReplayInv == \A s \in Subs : spc[s] \notin Queries \cup {"replay"} => found[s] = {}

\* A writer that is done with an update has no cursor pending.
LEMMA AdvanceClears ==
    ASSUME TypeInv, NEW w \in Writers, Advance(w)
    PROVE  /\ pc'[w] # "commit"
           /\ \A v \in Writers \ {w} : pc'[v] = pc[v] /\ cur'[v] = cur[v]
<1>1. cur' = [cur EXCEPT ![w] = 0]
  BY DEF Advance
<1>2. pc' = [pc EXCEPT ![w] = "apply"] \/ pc' = [pc EXCEPT ![w] = "idle"]
  BY DEF Advance
<1> QED BY <1>1, <1>2 DEF TypeInv, TypeOK

\* A step that neither mints nor commits keeps the cursors unique.
LEMMA CursorKept ==
    ASSUME TypeInv, CursorInv, UNCHANGED <<graph, cursors>>,
           \A v \in Writers : pc'[v] = "commit" => pc[v] = "commit" /\ cur'[v] = cur[v]
    PROVE  CursorInv'
  BY DEF CursorInv

\* Cursors stay unique: each comes from one fetch_add.
LEMMA CursorStep == TypeInv /\ CursorInv /\ [Next]_vars => CursorInv'
<1> SUFFICES ASSUME TypeInv, CursorInv, [Next]_vars PROVE CursorInv'
  OBVIOUS
<1> USE DEF store, stream, relay, writers, channels, sessions, env
<1>1. CASE UNCHANGED vars
  BY <1>1, CursorKept DEF vars
<1>2. CASE \/ \E k \in ChunkKinds : Receive(k)
           \/ StoreResult \/ SkipDuplicate \/ DrainStore \/ ToolStarted
  <2>1. UNCHANGED <<graph, cursors, cur>>
    BY <1>2 DEF Receive, StoreResult, SkipDuplicate, DrainStore, ToolStarted
  <2>2. \A v \in Writers : pc'[v] = "commit" => pc[v] = "commit"
    BY <1>2 DEF Receive, StoreResult, SkipDuplicate, DrainStore, ToolStarted, TypeInv, TypeOK
  <2> QED BY <2>1, <2>2, CursorKept
<1>3. ASSUME NEW w \in Writers, Record(w) PROVE CursorInv'
  <2>1. CASE Mint(w)
    <3>1. /\ cursors \in Nat /\ cursors' = cursors + 1 /\ graph' = graph
          /\ cur'[w] = cursors + 1 /\ cur[w] \in Nat
          /\ \A v \in Writers \ {w} : pc'[v] = pc[v] /\ cur'[v] = cur[v] /\ cur[v] \in Nat
          /\ \A f \in graph : f.cur \in Nat
      BY <2>1 DEF Mint, TypeInv, TypeOK, Frames
    <3>2. \A f \in graph : f.cur <= cursors' /\ f.cur # cur'[w]
      BY <3>1 DEF CursorInv
    <3>3. \A v \in Writers \ {w} : pc[v] = "commit" => cur[v] <= cursors' /\ cur[v] # cur'[w]
      BY <3>1 DEF CursorInv
    <3> QED BY <3>1, <3>2, <3>3 DEF CursorInv
  <2>2. CASE Refuse(w)
    BY <2>2, AdvanceClears, CursorKept DEF Refuse
  <2>3. CASE Commit(w)
    <3>1. /\ graph' = graph \cup {[cur |-> cur[w], kind |-> Update(w)]}
          /\ cursors' = cursors /\ pc[w] = "commit"
      BY <2>3 DEF Commit
    <3>2. /\ pc'[w] # "commit"
          /\ \A v \in Writers \ {w} : pc'[v] = pc[v] /\ cur'[v] = cur[v]
      <4>1. CASE Advance(w)
        BY <4>1, AdvanceClears
      <4>2. CASE pc' = [pc EXCEPT ![w] = "send"] /\ cur' = cur
        BY <4>2 DEF TypeInv, TypeOK
      <4> QED BY <2>3, <4>1, <4>2 DEF Commit
    <3>3. \A v \in Writers \ {w} : pc[v] = "commit" => cur[v] # cur[w]
      BY <3>1 DEF CursorInv
    <3> QED BY <3>1, <3>2, <3>3 DEF CursorInv
  <2>4. CASE CommitFails(w)
    <3>1. \A v \in Writers : pc'[v] = "commit" => pc[v] = "commit" /\ cur'[v] = cur[v]
      BY <2>4 DEF CommitFails, TypeInv, TypeOK
    <3> QED BY <2>4, <3>1, CursorKept DEF CommitFails
  <2>5. CASE Send(w)
    <3>1. \A v \in Writers : pc'[v] = "commit" => pc[v] = "commit" /\ cur'[v] = cur[v]
      <4>1. CASE Advance(w)
        BY <4>1, AdvanceClears
      <4>2. CASE pc' = [pc EXCEPT ![w] = "retire"] /\ cur' = cur
        BY <4>2 DEF TypeInv, TypeOK
      <4> QED BY <2>5, <4>1, <4>2 DEF Send
    <3> QED BY <2>5, <3>1, CursorKept DEF Send
  <2>6. CASE Retire(w)
    BY <2>6, AdvanceClears, CursorKept DEF Retire
  <2> QED BY <1>3, <2>1, <2>2, <2>3, <2>4, <2>5, <2>6 DEF Record
<1>4. ASSUME NEW s \in Subs, GetTask(s) \/ Follow(s) PROVE CursorInv'
  <2>1. UNCHANGED <<graph, cursors, pc, cur>>
    BY <1>4 DEF GetTask, Follow, Subscribe, ReplayQuery, ReplayFails, ReplayNext, ReplayEnds,
       Recv, Lagged, RecvClosed
  <2> QED BY <2>1, CursorKept
<1> QED BY <1>1, <1>2, <1>3, <1>4 DEF Next

\* A replay is delivered before the channel is read.
LEMMA ReplayStep == TypeInv /\ ReplayInv /\ [Next]_vars => ReplayInv'
<1> SUFFICES ASSUME TypeInv, ReplayInv, [Next]_vars PROVE ReplayInv'
  OBVIOUS
<1> USE DEF store, stream, relay, writers, channels, sessions, env
<1>u. ASSUME UNCHANGED <<spc, found>> PROVE ReplayInv'
  BY <1>u DEF ReplayInv
<1>1. CASE UNCHANGED vars
  BY <1>1, <1>u DEF vars
<1>2. CASE \/ \E k \in ChunkKinds : Receive(k)
           \/ StoreResult \/ SkipDuplicate \/ DrainStore \/ ToolStarted
  BY <1>2, <1>u DEF Receive, StoreResult, SkipDuplicate, DrainStore, ToolStarted
<1>3. ASSUME NEW w \in Writers, Record(w) PROVE ReplayInv'
  BY <1>3, <1>u DEF Record, Mint, Refuse, Commit, CommitFails, Send, Retire
<1>4. ASSUME NEW s \in Subs, GetTask(s) \/ Follow(s) PROVE ReplayInv'
  <2> USE DEF TypeInv, TypeOK, ReplayInv
  <2>1. CASE GetTask(s)
    BY <2>1 DEF GetTask, Queries
  <2>2. CASE Subscribe(s)
    BY <2>2 DEF Subscribe, Queries
  <2>3. CASE ReplayQuery(s)
    BY <2>3 DEF ReplayQuery, AfterQuery, Queries
  <2>4. CASE ReplayFails(s)
    BY <2>4 DEF ReplayFails, Queries
  <2>5. CASE ReplayNext(s)
    BY <2>5 DEF ReplayNext, Queries
  <2>6. CASE ReplayEnds(s)
    BY <2>6 DEF ReplayEnds, Queries
  <2>7. CASE Recv(s)
    BY <2>7, <1>u DEF Recv
  <2>8. CASE Lagged(s)
    BY <2>8 DEF Lagged, Queries
  <2>9. CASE RecvClosed(s)
    BY <2>9 DEF RecvClosed, Queries
  <2> QED BY <1>4, <2>1, <2>2, <2>3, <2>4, <2>5, <2>6, <2>7, <2>8, <2>9 DEF Follow
<1> QED BY <1>1, <1>2, <1>3, <1>4 DEF Next

\* What one step of a subscriber or a writer delivers is newer than what was delivered.
InOrder == \A s \in Subs : \A f \in got'[s] \ got[s] : \A g \in got[s] : g.cur < f.cur

\* A frame past last_cursor is delivered, and last_cursor follows.
LEMMA DeliverStep ==
    ASSUME TypeInv, DeliveryInv, NEW s \in Subs, NEW f \in Frames, last[s] < f.cur, Deliver(s, f)
    PROVE  /\ last' = [last EXCEPT ![s] = f.cur]
           /\ \A r \in Subs \ {s} : got'[r] = got[r]
           /\ \A g \in got'[s] : g.cur <= f.cur
           /\ \A h \in got'[s] \ got[s] : \A g \in got[s] : g.cur < h.cur
<1>1. /\ last[s] \in Nat /\ f.cur \in Nat /\ \A g \in got[s] : g.cur \in Nat
  BY DEF TypeInv, TypeOK, Frames
<1>2. \A g \in got[s] : g.cur < f.cur
  BY <1>1 DEF DeliveryInv
<1>3. /\ last' = [last EXCEPT ![s] = f.cur]
      /\ \A r \in Subs \ {s} : got'[r] = got[r]
      /\ got'[s] \subseteq got[s] \cup {f}
  BY DEF Deliver, TypeInv, TypeOK
<1> QED BY <1>1, <1>2, <1>3

\* Every step delivers in order and keeps last_cursor between the past and the replay.
LEMMA DeliveryStep ==
    ASSUME TypeInv, CursorInv, ReplayInv, DeliveryInv, [Next]_vars
    PROVE  DeliveryInv' /\ InOrder
<1> USE DEF store, stream, relay, writers, channels, sessions, env
<1>0. /\ last \in [Subs -> Nat] /\ found \in [Subs -> SUBSET Frames] /\ got \in [Subs -> SUBSET Frames]
      /\ \A f \in Frames : f.cur \in Nat
  BY DEF TypeInv, TypeOK, Frames
<1>u. ASSUME UNCHANGED <<found, last, got>>, graph \subseteq graph' PROVE DeliveryInv' /\ InOrder
  BY <1>u DEF DeliveryInv, InOrder
<1>1. CASE UNCHANGED vars
  BY <1>1, <1>u DEF vars
<1>2. CASE \/ \E k \in ChunkKinds : Receive(k)
           \/ StoreResult \/ SkipDuplicate \/ DrainStore \/ ToolStarted
  BY <1>2, <1>u DEF Receive, StoreResult, SkipDuplicate, DrainStore, ToolStarted
<1>3. ASSUME NEW w \in Writers, Record(w) PROVE DeliveryInv' /\ InOrder
  BY <1>3, <1>u DEF Record, Mint, Refuse, Commit, CommitFails, Send, Retire
<1>4. ASSUME NEW s \in Subs, GetTask(s) \/ Follow(s) PROVE DeliveryInv' /\ InOrder
  <2>1. CASE GetTask(s) \/ Subscribe(s) \/ ReplayEnds(s) \/ Lagged(s) \/ RecvClosed(s)
    BY <2>1, <1>u DEF GetTask, Subscribe, ReplayEnds, Lagged, RecvClosed
  <2>2. CASE ReplayQuery(s)
    <3>1. UNCHANGED <<graph, last, got>>
      BY <2>2 DEF ReplayQuery
    <3>2. \A r \in Subs : \A f \in found'[r] : f \in found[r] \/ (f \in graph /\ f.cur > last[r])
      BY <1>0, <2>2 DEF ReplayQuery
    <3>3. \A f \in graph : f.cur \in Nat
      BY DEF TypeInv, TypeOK, Frames
    <3> QED BY <1>0, <3>1, <3>2, <3>3 DEF DeliveryInv, InOrder
  <2>3. CASE ReplayFails(s)
    <3>1. UNCHANGED <<graph, last, got>> /\ \A r \in Subs : found'[r] \subseteq found[r]
      BY <1>0, <2>3 DEF ReplayFails
    <3> QED BY <3>1 DEF DeliveryInv, InOrder
  <2>4. CASE ReplayNext(s)
    <3>1. PICK f \in found[s] :
            /\ \A g \in found[s] : f.cur <= g.cur
            /\ Deliver(s, f)
            /\ found' = [found EXCEPT ![s] = @ \ {f}]
      BY <2>4 DEF ReplayNext
    <3>2. f \in Frames /\ last[s] < f.cur /\ graph' = graph
      BY <1>0, <2>4 DEF DeliveryInv, ReplayNext
    <3>3. /\ last' = [last EXCEPT ![s] = f.cur]
          /\ \A r \in Subs \ {s} : got'[r] = got[r]
          /\ \A g \in got'[s] : g.cur <= f.cur
          /\ \A h \in got'[s] \ got[s] : \A g \in got[s] : g.cur < h.cur
      BY <3>1, <3>2, DeliverStep
    <3>4. \A g \in found[s] \ {f} : g.cur # f.cur /\ f.cur <= g.cur /\ g.cur \in Nat /\ f.cur \in Nat
      BY <1>0, <3>1 DEF DeliveryInv, CursorInv
    <3>5. \A g \in found'[s] : f.cur < g.cur /\ g \in graph
      BY <1>0, <3>1, <3>4 DEF DeliveryInv
    <3>6. \A r \in Subs \ {s} : found'[r] = found[r] /\ last'[r] = last[r]
      BY <1>0, <3>1, <3>3
    <3>7. last'[s] = f.cur
      BY <1>0, <3>3
    <3> QED BY <3>2, <3>3, <3>5, <3>6, <3>7 DEF DeliveryInv, InOrder
  <2>5. CASE Recv(s)
    <3> DEFINE f == log[rx[s]][pos[s] + 1]
    <3>1. CASE f.cur <= last[s] /\ UNCHANGED <<last, got>>
      BY <2>5, <3>1, <1>u DEF Recv
    <3>2. CASE f.cur > last[s] /\ Deliver(s, f)
      <4>1. f \in Frames
        <5>1. rx[s] \in 1 .. Len(log) /\ log \in Seq(Seq(Frames)) /\ pos[s] \in Nat
          BY <2>5 DEF TypeInv, TypeOK, WorkInv, Recv, None
        <5>2. log[rx[s]] \in Seq(Frames)
          BY <5>1, ElementOfSeq
        <5>3. pos[s] + 1 \in 1 .. Len(log[rx[s]])
          BY <2>5, <5>1, <5>2 DEF Recv, Behind
        <5> QED BY <5>2, <5>3, ElementOfSeq
      <4>2. found' = found /\ graph' = graph
        BY <2>5 DEF Recv
      <4>3. /\ last' = [last EXCEPT ![s] = f.cur]
            /\ \A r \in Subs \ {s} : got'[r] = got[r]
            /\ \A g \in got'[s] : g.cur <= f.cur
            /\ \A h \in got'[s] \ got[s] : \A g \in got[s] : g.cur < h.cur
        BY <1>0, <3>2, <4>1, DeliverStep
      <4>4. last'[s] = f.cur /\ \A r \in Subs \ {s} : last'[r] = last[r]
        BY <1>0, <4>3
      <4>5. found[s] = {}
        BY <2>5 DEF ReplayInv, Recv, Queries
      <4> QED BY <4>2, <4>3, <4>4, <4>5 DEF DeliveryInv, InOrder
    <3> QED BY <2>5, <3>1, <3>2 DEF Recv
  <2> QED BY <1>4, <2>1, <2>2, <2>3, <2>4, <2>5 DEF Follow
<1> QED BY <1>1, <1>2, <1>3, <1>4 DEF Next

\* DeliveredInOrder for every value of the constants: however many writers interleave, and
\* however often a subscriber lags, what it is sent next is newer than all it was sent.
THEOREM DeliveryIsOrdered == Spec => DeliveredInOrder
<1> DEFINE Inv == TypeInv /\ CursorInv /\ ReplayInv /\ DeliveryInv
<1>1. Init => Inv
  <2>1. ASSUME Init PROVE CursorInv /\ ReplayInv /\ DeliveryInv
    BY <2>1 DEF Init, CursorInv, ReplayInv, DeliveryInv
  <2> QED BY InitType, <2>1
<1>2. Inv /\ [Next]_vars => Inv'
  BY TypeStep, CursorStep, ReplayStep, DeliveryStep
<1>3. Inv /\ [Next]_vars =>
        [\A s \in Subs : \A f \in got'[s] \ got[s] : \A g \in got[s] : g.cur < f.cur]_vars
  BY DeliveryStep DEF InOrder
<1> QED BY <1>1, <1>2, <1>3, PTL DEF Spec, DeliveredInOrder

-----------------------------------------------------------------------------
(* A terminal state under one writer *)

\* With one writer only the collector is at work, and what it is about to commit passed the
\* gate on the state that is still the head.
GateInv ==
    Serial =>
        /\ forwarded = <<>>
        /\ pc["drain"] = "idle" /\ pc["auto"] = "idle"
        /\ pc["collector"] = "commit" /\ Update("collector") \in Statuses => head \notin Terminal

\* Writers do not become fewer.
LEMMA SerialBefore ==
    ASSUME TypeInv, [Next]_vars, Serial'
    PROVE  Serial
<1> USE DEF store, stream, relay, writers, channels, sessions, env
<1>1. live' = live
  BY DEF vars, Next, Record, Follow, Receive, StoreResult, SkipDuplicate, DrainStore, ToolStarted,
     Mint, Refuse, Commit, CommitFails, Send, Retire, GetTask, Subscribe, ReplayQuery, ReplayFails,
     ReplayNext, ReplayEnds, Recv, Lagged, RecvClosed
<1>2. tools' = tools \/ tools' = tools + 1
  BY DEF vars, Next, Record, Follow, Receive, StoreResult, SkipDuplicate, DrainStore, ToolStarted,
     Mint, Refuse, Commit, CommitFails, Send, Retire, GetTask, Subscribe, ReplayQuery, ReplayFails,
     ReplayNext, ReplayEnds, Recv, Lagged, RecvClosed
<1>3. tools \in Nat
  BY DEF TypeInv, TypeOK
<1> QED BY <1>1, <1>2, <1>3 DEF Serial

\* The gate's answer holds until the commit, and so a terminal head stays.
LEMMA GateStep ==
    ASSUME TypeInv, GateInv, [Next]_vars
    PROVE  /\ GateInv'
           /\ Serial' /\ head \in Terminal => head' = head
<1> SUFFICES ASSUME Serial'
             PROVE  GateInv' /\ (head \in Terminal => head' = head)
  BY DEF GateInv
<1> USE DEF store, stream, relay, writers, channels, sessions, env
<1>0. /\ Serial /\ forwarded = <<>> /\ pc["drain"] = "idle" /\ pc["auto"] = "idle"
      /\ pc["collector"] = "commit" /\ Update("collector") \in Statuses => head \notin Terminal
      /\ live = FALSE
      /\ pc \in [Writers -> {"idle", "apply", "commit", "send", "retire"}]
  BY SerialBefore DEF GateInv, TypeInv, TypeOK, Serial
<1>u. ASSUME UNCHANGED <<forwarded, pc, ups, head>>
      PROVE  GateInv' /\ (head \in Terminal => head' = head)
  BY <1>0, <1>u DEF GateInv, Update
<1>f. ASSUME NEW ok \in BOOLEAN, Forward(ok) PROVE forwarded' = <<>>
  BY <1>0, <1>f DEF Forward
<1>a. ASSUME Advance("collector") \/ (pc' = [pc EXCEPT !["collector"] = "idle"] /\ Finish("collector", FALSE))
      PROVE  /\ forwarded' = <<>> /\ pc'["drain"] = "idle" /\ pc'["auto"] = "idle"
             /\ pc'["collector"] # "commit"
  <2>1. /\ pc' = [pc EXCEPT !["collector"] = "apply"] \/ pc' = [pc EXCEPT !["collector"] = "idle"]
        /\ forwarded' = forwarded \/ Finish("collector", TRUE) \/ Finish("collector", FALSE)
    BY <1>a DEF Advance
  <2>2. forwarded' = <<>>
    BY <1>0, <2>1, <1>f DEF Finish
  <2> QED BY <1>0, <2>1, <2>2 DEF Writers
<1>1. CASE UNCHANGED vars
  BY <1>1, <1>u DEF vars
<1>2. ASSUME NEW k \in ChunkKinds, Receive(k)
      PROVE  GateInv' /\ (head \in Terminal => head' = head)
  BY <1>2, <1>u DEF Receive
<1>3. CASE StoreResult
  BY <1>0, <1>3 DEF StoreResult, GateInv, Writers
<1>4. CASE SkipDuplicate
  BY <1>0, <1>4, <1>f DEF SkipDuplicate, GateInv, Update
<1>5. CASE DrainStore
  BY <1>0, <1>5 DEF DrainStore
<1>6. CASE ToolStarted
  <2>1. tools' = tools + 1 /\ tools \in Nat /\ tools' = 0
    BY <1>6 DEF ToolStarted, Serial, TypeInv, TypeOK
  <2> QED BY <2>1
<1>7. ASSUME NEW w \in Writers, Record(w)
      PROVE  GateInv' /\ (head \in Terminal => head' = head)
  <2>0. w = "collector" /\ pc[w] # "idle"
    BY <1>0, <1>7 DEF Record, Mint, Refuse, Commit, CommitFails, Send, Retire, Writers
  <2>1. CASE Mint(w)
    <3>1. Update(w) \in Statuses => head \notin Terminal
      BY <2>1 DEF Mint, Allowed, Terminal
    <3> QED BY <1>0, <2>0, <2>1, <3>1 DEF Mint, GateInv, Update, Writers
  <2>2. CASE Refuse(w)
    BY <2>0, <2>2, <1>a DEF Refuse, GateInv
  <2>3. CASE Commit(w)
    <3>1. head \in Terminal => head' = head
      BY <1>0, <2>0, <2>3 DEF Commit
    <3>2. CASE Advance(w)
      BY <2>0, <3>1, <3>2, <1>a DEF GateInv
    <3>3. CASE pc' = [pc EXCEPT ![w] = "send"] /\ forwarded' = forwarded
      BY <1>0, <2>0, <3>1, <3>3 DEF GateInv, Writers
    <3> QED BY <2>3, <3>2, <3>3 DEF Commit
  <2>4. CASE CommitFails(w)
    BY <2>0, <2>4, <1>a DEF CommitFails, GateInv
  <2>5. CASE Send(w)
    <3>1. head' = head
      BY <2>5 DEF Send
    <3>2. CASE Advance(w)
      BY <2>0, <3>1, <3>2, <1>a DEF GateInv
    <3>3. CASE pc' = [pc EXCEPT ![w] = "retire"] /\ forwarded' = forwarded
      BY <1>0, <2>0, <3>1, <3>3 DEF GateInv, Writers
    <3> QED BY <2>5, <3>2, <3>3 DEF Send
  <2>6. CASE Retire(w)
    BY <2>0, <2>6, <1>a DEF Retire, GateInv
  <2> QED BY <1>7, <2>1, <2>2, <2>3, <2>4, <2>5, <2>6 DEF Record
<1>8. ASSUME NEW s \in Subs, GetTask(s) \/ Follow(s)
      PROVE  GateInv' /\ (head \in Terminal => head' = head)
  BY <1>8, <1>u DEF GetTask, Follow, Subscribe, ReplayQuery, ReplayFails, ReplayNext, ReplayEnds,
     Recv, Lagged, RecvClosed
<1> QED BY <1>1, <1>2, <1>3, <1>4, <1>5, <1>6, <1>7, <1>8 DEF Next

\* TerminalIsFinal for every value of the constants: whatever one writer's agent yields and
\* whatever fails, the gate of record_status_update keeps a terminal head.
THEOREM TerminalStays == Spec => TerminalIsFinal
<1> DEFINE Inv == TypeInv /\ GateInv
<1>1. Init => Inv
  <2>1. ASSUME Init PROVE GateInv
    BY <2>1 DEF Init, GateInv, Writers
  <2> QED BY InitType, <2>1
<1>2. Inv /\ [Next]_vars => Inv'
  BY TypeStep, GateStep
<1>3. Inv /\ [Next]_vars => [Serial' /\ head \in Terminal => head' = head]_head
  BY GateStep
<1> QED BY <1>1, <1>2, <1>3, PTL DEF Spec, TerminalIsFinal

-----------------------------------------------------------------------------
(* What a subscriber gets of one writer's statuses *)

\* The frame of the update in the collector's hands.
Pending == [cur |-> cur["collector"], kind |-> Update("collector")]

\* The collector has the state it committed, or a newer cursor to commit.
PendingInv ==
    Serial =>
        /\ pc["collector"] = "commit" => \A f \in graph : f.cur < cur["collector"]
        /\ pc["collector"] = "send" => Pending \in graph
        /\ pc["collector"] \in {"send", "retire"} /\ Update("collector") \in Statuses =>
              head = Update("collector")
        /\ pc["collector"] = "retire" => Update("collector") \in Terminal

\* A channel carries recorded frames in the order of their cursors, all older than the one
\* that is sent next.
LogInv ==
    Serial =>
        \A c \in 1 .. Len(log) :
            /\ \A i \in 1 .. Len(log[c]) :
                  log[c][i] \in graph /\ (pc["collector"] = "send" => log[c][i].cur < cur["collector"])
            /\ \A i, j \in 1 .. Len(log[c]) : i < j => log[c][i].cur < log[c][j].cur

\* The channel is retired only when the terminal state was sent.
Unretired ==
    head \notin Terminal \/ (pc["collector"] \in {"send", "retire"} /\ Update("collector") \in Terminal)

\* Until then all subscribers are on the one channel.
AttachInv == Serial /\ Unretired => \A s \in Subs : rx[s] # None => rx[s] = chan

\* No subscriber is past what was committed.
LastInv ==
    Serial => \A s \in Subs :
        last[s] <= cursors /\ (pc["collector"] = "commit" => last[s] < cur["collector"])

\* No receiver is past the end of its channel.
PosInv == Serial => \A s \in Subs : rx[s] # None => pos[s] <= Len(log[rx[s]])

\* s will still receive f from its channel.
Ahead(s, f) ==
    \/ \E i \in 1 .. Len(log[rx[s]]) : i > pos[s] /\ log[rx[s]][i] = f
    \/ pc["collector"] = "send" /\ f = Pending

\* Past the query of the statuses no status is lost: it was delivered, or was found, or is
\* still to come on the channel; and what was found is cut off at a cursor.
CoverInv ==
    Serial => \A s \in Subs : spc[s] \in {"replay", "live"} =>
        \A g \in graph : g.kind \in Statuses =>
            /\ g.cur <= last[s] \/ g \in found[s] \/ Ahead(s, g)
            /\ \A f \in found[s] : g.cur <= f.cur => g \in found[s] \cup got[s]

\* A subscription ends after the terminal state: the task was terminal before the replay,
\* or the channel was retired.
EndInv ==
    Serial => \A s \in Subs :
        /\ snap[s] => head \in Terminal
        /\ snap[s] /\ spc[s] = "replay" =>
              \A g \in graph : g.kind \in Statuses => g \in found[s] \cup got[s]
        /\ spc[s] = "live" => ~ snap[s]
        /\ spc[s] = "done" /\ s \notin failed =>
              head \in Terminal /\ \A g \in graph : g.kind \in Statuses => g \in got[s]

\* A step that leaves the graph, the channels and the subscribers alone, and after which the
\* collector has nothing pending that it had not before.
Still ==
    /\ UNCHANGED <<store, channels, sessions>>
    /\ \/ pc["collector"] \in {"idle", "apply", "commit"} /\ pc'["collector"] \in {"idle", "apply"}
       \/ /\ pc'["collector"] = pc["collector"] /\ ups'["collector"] = ups["collector"]
          /\ cur'["collector"] = cur["collector"]

\* An update done with is followed by the next one, or by none.
LEMMA AdvanceRests ==
    ASSUME TypeInv, Advance("collector")
    PROVE  pc'["collector"] \in {"idle", "apply"}
  BY DEF Advance, TypeInv, TypeOK, Writers

\* The steps there are with one writer.
LEMMA SerialStep ==
    ASSUME TypeInv, GateInv, [Next]_vars, Serial'
    PROVE  /\ Serial
           /\ \/ Still \/ Mint("collector") \/ Commit("collector") \/ Send("collector")
              \/ Retire("collector") \/ \E s \in Subs : GetTask(s) \/ Follow(s)
<1> USE DEF store, stream, relay, writers, channels, sessions, env
<1>0. /\ Serial /\ forwarded = <<>> /\ pc["drain"] = "idle" /\ pc["auto"] = "idle"
      /\ pc \in [Writers -> {"idle", "apply", "commit", "send", "retire"}]
      /\ "collector" \in Writers
  BY SerialBefore DEF GateInv, TypeInv, TypeOK, Writers
<1>1. CASE UNCHANGED vars \/ (\E k \in ChunkKinds : Receive(k)) \/ SkipDuplicate
  BY <1>0, <1>1 DEF vars, Receive, SkipDuplicate, Still
<1>2. CASE StoreResult
  BY <1>0, <1>2 DEF StoreResult, Still
<1>3. CASE DrainStore
  BY <1>0, <1>3 DEF DrainStore
<1>4. CASE ToolStarted
  <2>1. tools' = tools + 1 /\ tools \in Nat /\ tools' = 0
    BY <1>4 DEF ToolStarted, Serial, TypeInv, TypeOK
  <2> QED BY <2>1
<1>5. ASSUME NEW w \in Writers, Record(w)
      PROVE  \/ Still \/ Mint("collector") \/ Commit("collector") \/ Send("collector")
             \/ Retire("collector")
  <2>1. w = "collector"
    BY <1>0, <1>5 DEF Record, Mint, Refuse, Commit, CommitFails, Send, Retire, Writers
  <2>2. CASE Refuse(w)
    BY <2>1, <2>2, AdvanceRests DEF Refuse, Still
  <2>3. CASE CommitFails(w)
    BY <1>0, <2>1, <2>3 DEF CommitFails, Still
  <2> QED BY <1>5, <2>1, <2>2, <2>3 DEF Record
<1> QED BY <1>0, <1>1, <1>2, <1>3, <1>4, <1>5 DEF Next

\* What the collector's commit does.
LEMMA CommitEffect ==
    ASSUME TypeInv, Commit("collector")
    PROVE  /\ pc["collector"] = "commit" /\ graph' = graph \cup {Pending}
           /\ Pending \in Frames
           /\ head' = IF Update("collector") \in Statuses THEN Update("collector") ELSE head
           /\ UNCHANGED <<cursors, channels, sessions>>
           /\ \/ Update("collector") \notin Statuses /\ pc'["collector"] \in {"idle", "apply"}
              \/ /\ pc'["collector"] = "send" /\ ups'["collector"] = ups["collector"]
                 /\ cur'["collector"] = cur["collector"]
<1>1. pc["collector"] = "commit" /\ "collector" \in Writers
  BY DEF Commit, Writers
<1>2. Update("collector") \in Updates /\ cur["collector"] \in Nat
  BY <1>1, UpdateType DEF TypeInv, TypeOK
<1>3. Pending \in Frames
  BY <1>2 DEF Pending, Frames
<1>4. CASE Update("collector") = "message" /\ Advance("collector")
  BY <1>1, <1>3, <1>4, AdvanceRests DEF Commit, Pending, Statuses, Terminal
<1>5. CASE pc' = [pc EXCEPT !["collector"] = "send"] /\ UNCHANGED <<ups, cur>>
  BY <1>1, <1>3, <1>5 DEF Commit, Pending, TypeInv, TypeOK
<1> QED BY <1>4, <1>5 DEF Commit

\* What ensure_sender does to the channels.
LEMMA SenderEffect ==
    ASSUME TypeInv, NEW c \in 1 .. Len(log) + 1, NEW frames \in Seq(Frames),
           ensure_sender(c, frames)
    PROVE  /\ chan' = c /\ c \in 1 .. Len(log') /\ Len(log) <= Len(log')
           /\ \A d \in 1 .. Len(log') : d # c => d \in 1 .. Len(log) /\ log'[d] = log[d]
           /\ chan # None => c = chan /\ c \in 1 .. Len(log) /\ log'[c] = log[c] \o frames
           /\ chan = None => c = Len(log) + 1 /\ log'[c] = frames
<1>1. log \in Seq(Seq(Frames)) /\ chan \in 0 .. Len(log) /\ Len(log) \in Nat
  BY DEF TypeInv, TypeOK
<1>2. CASE chan # None
  <2>1. c = chan /\ log' = [log EXCEPT ![c] = @ \o frames] /\ chan' = chan
    BY <1>2 DEF ensure_sender
  <2>2. c \in 1 .. Len(log)
    BY <1>1, <1>2, <2>1 DEF None
  <2>3. log[c] \o frames \in Seq(Frames)
    BY <1>1, <2>2, ElementOfSeq, ConcatProperties
  <2>4. /\ Len(log') = Len(log) /\ log'[c] = log[c] \o frames
        /\ \A d \in 1 .. Len(log) : d # c => log'[d] = log[d]
    BY <1>1, <2>1, <2>2, <2>3, ExceptSeq
  <2> QED BY <1>1, <1>2, <2>1, <2>2, <2>4
<1>3. CASE chan = None
  <2>1. c = Len(log) + 1 /\ log' = Append(log, frames) /\ chan' = c
    BY <1>3 DEF ensure_sender
  <2>2. /\ Len(log') = Len(log) + 1 /\ log'[c] = frames
        /\ \A d \in 1 .. Len(log) : log'[d] = log[d]
    BY <1>1, <2>1
  <2> QED BY <1>1, <1>3, <2>1, <2>2
<1> QED BY <1>2, <1>3

\* A channel that somebody joins stays as it is, or is new and empty.
LEMMA JoinEffect ==
    ASSUME TypeInv, NEW c \in 1 .. Len(log) + 1, ensure_sender(c, <<>>)
    PROVE  /\ chan' = c /\ c \in 1 .. Len(log') /\ (chan # None => c = chan)
           /\ \A d \in 1 .. Len(log) : d \in 1 .. Len(log') /\ log'[d] = log[d]
           /\ \A d \in 1 .. Len(log') : d \notin 1 .. Len(log) => log'[d] = <<>>
<1>1. /\ log \in Seq(Seq(Frames)) /\ Len(log) \in Nat /\ Len(log') \in Nat /\ <<>> \in Seq(Frames)
  BY SenderType, EmptySeq DEF TypeInv, TypeOK
<1>2. /\ chan' = c /\ c \in 1 .. Len(log') /\ Len(log) <= Len(log')
      /\ \A d \in 1 .. Len(log') : d # c => d \in 1 .. Len(log) /\ log'[d] = log[d]
      /\ chan # None => c = chan /\ c \in 1 .. Len(log) /\ log'[c] = log[c] \o <<>>
      /\ chan = None => c = Len(log) + 1 /\ log'[c] = <<>>
  BY <1>1, SenderEffect
<1>3. chan # None => log'[c] = log[c]
  <2>1. chan # None => log[c] \in Seq(Frames)
    BY <1>1, <1>2, ElementOfSeq
  <2> QED BY <1>2, <2>1
<1> QED BY <1>1, <1>2, <1>3

\* A frame is the last of the channel it is sent on, and the others stay as they are.
LEMMA SendEffect ==
    ASSUME TypeInv, NEW c \in 1 .. Len(log) + 1, NEW f \in Frames, ensure_sender(c, <<f>>)
    PROVE  /\ chan' = c /\ c \in 1 .. Len(log') /\ (chan # None => c = chan)
           /\ \A d \in 1 .. Len(log) :
                 /\ d \in 1 .. Len(log') /\ Len(log[d]) <= Len(log'[d])
                 /\ \A i \in 1 .. Len(log[d]) : log'[d][i] = log[d][i]
           /\ Len(log'[c]) \in Nat \ {0} /\ log'[c][Len(log'[c])] = f
           /\ \A d \in 1 .. Len(log') : \A i \in 1 .. Len(log'[d]) :
                 \/ d \in 1 .. Len(log) /\ i \in 1 .. Len(log[d])
                 \/ d = c /\ i = Len(log'[c]) /\ log'[d][i] = f
           /\ chan # None => Len(log'[c]) = Len(log[c]) + 1
<1>1. /\ log \in Seq(Seq(Frames)) /\ Len(log) \in Nat /\ <<f>> \in Seq(Frames)
      /\ \A d \in 1 .. Len(log) : log[d] \in Seq(Frames) /\ Len(log[d]) \in Nat
  BY ElementOfSeq, LenProperties DEF TypeInv, TypeOK
<1>2. Len(log') \in Nat
  BY <1>1, SenderType DEF TypeInv
<1>3. /\ chan' = c /\ c \in 1 .. Len(log') /\ Len(log) <= Len(log')
      /\ \A d \in 1 .. Len(log') : d # c => d \in 1 .. Len(log) /\ log'[d] = log[d]
      /\ chan # None => c = chan /\ c \in 1 .. Len(log) /\ log'[c] = log[c] \o <<f>>
      /\ chan = None => c = Len(log) + 1 /\ log'[c] = <<f>>
  BY <1>1, SenderEffect
<1>4. chan # None => /\ Len(log'[c]) = Len(log[c]) + 1 /\ log'[c][Len(log[c]) + 1] = f
                     /\ \A i \in 1 .. Len(log[c]) : log'[c][i] = log[c][i]
  BY <1>1, <1>3
<1>5. chan = None => Len(log'[c]) = 1 /\ log'[c][1] = f /\ c \notin 1 .. Len(log)
  BY <1>1, <1>3
<1>6. ASSUME NEW d \in 1 .. Len(log)
      PROVE  /\ d \in 1 .. Len(log') /\ Len(log[d]) <= Len(log'[d])
             /\ \A i \in 1 .. Len(log[d]) : log'[d][i] = log[d][i]
  <2>1. d \in 1 .. Len(log') /\ Len(log[d]) \in Nat
    BY <1>1, <1>2, <1>3
  <2>2. CASE d # c
    BY <1>3, <2>1, <2>2
  <2>3. CASE d = c
    BY <1>4, <1>5, <2>1, <2>3
  <2> QED BY <2>2, <2>3
<1>7. ASSUME NEW d \in 1 .. Len(log'), NEW i \in 1 .. Len(log'[d])
      PROVE  \/ d \in 1 .. Len(log) /\ i \in 1 .. Len(log[d])
             \/ d = c /\ i = Len(log'[c]) /\ log'[d][i] = f
  <2>1. CASE d # c
    BY <1>3, <2>1
  <2>2. CASE d = c /\ chan # None
    <3>1. Len(log[d]) \in Nat /\ d \in 1 .. Len(log)
      BY <1>1, <1>3, <2>2
    <3> QED BY <1>4, <2>2, <3>1
  <2>3. CASE d = c /\ chan = None
    <3>1. Len(log'[c]) = 1 /\ log'[c][1] = f
      BY <1>5, <2>3
    <3>2. i = 1
      BY <2>3, <3>1
    <3> QED BY <2>3, <3>1, <3>2
  <2> QED BY <2>1, <2>2, <2>3
<1>8. Len(log'[c]) \in Nat \ {0} /\ log'[c][Len(log'[c])] = f
  BY <1>1, <1>3, <1>4, <1>5
<1> QED BY <1>3, <1>4, <1>6, <1>7, <1>8

\* What the collector's send does.
LEMMA CollectorSends ==
    ASSUME TypeInv, Send("collector")
    PROVE  /\ pc["collector"] = "send" /\ Pending \in Frames /\ UNCHANGED <<graph, head, cursors, sessions>>
           /\ \E c \in 1 .. Len(log) + 1 : ensure_sender(c, <<Pending>>)
           /\ \/ Update("collector") \notin Terminal /\ pc'["collector"] \in {"idle", "apply"}
              \/ /\ Update("collector") \in Terminal /\ pc'["collector"] = "retire"
                 /\ ups'["collector"] = ups["collector"]
<1>1. pc["collector"] = "send" /\ "collector" \in Writers
  BY DEF Send, Writers
<1>2. Update("collector") \in Updates /\ cur["collector"] \in Nat
  BY <1>1, UpdateType DEF TypeInv, TypeOK
<1>3. Pending \in Frames
  BY <1>2 DEF Pending, Frames
<1>4. \E c \in 1 .. Len(log) + 1 : ensure_sender(c, <<Pending>>)
  BY DEF Send, Pending
<1>5. UNCHANGED <<graph, head, cursors, sessions>>
  BY DEF Send, store
<1>6. CASE Update("collector") \notin Terminal /\ Advance("collector")
  BY <1>1, <1>3, <1>4, <1>5, <1>6, AdvanceRests
<1>7. CASE Update("collector") \in Terminal /\ pc' = [pc EXCEPT !["collector"] = "retire"] /\ UNCHANGED ups
  BY <1>1, <1>3, <1>4, <1>5, <1>7 DEF TypeInv, TypeOK
<1> QED BY <1>6, <1>7 DEF Send

\* A subscriber leaves what the writers own alone.
LEMMA FollowerFrame ==
    ASSUME NEW s \in Subs, GetTask(s) \/ Follow(s)
    PROVE  UNCHANGED <<graph, head, cursors, pc, ups, cur>>
  BY DEF GetTask, Follow, Subscribe, ReplayQuery, ReplayFails, ReplayNext, ReplayEnds, Recv,
     Lagged, RecvClosed, store, writers

\* Every step keeps what the collector has in hand in line with the graph.
LEMMA PendingStep ==
    ASSUME TypeInv, CursorInv, GateInv, PendingInv, [Next]_vars
    PROVE  PendingInv'
<1> SUFFICES ASSUME Serial' PROVE PendingInv'
  BY DEF PendingInv
<1>0. /\ Serial
      /\ \/ Still \/ Mint("collector") \/ Commit("collector") \/ Send("collector")
         \/ Retire("collector") \/ \E s \in Subs : GetTask(s) \/ Follow(s)
  BY SerialStep
<1>r. ASSUME pc'["collector"] \in {"idle", "apply"} PROVE PendingInv'
  BY <1>r DEF PendingInv
<1>u. ASSUME UNCHANGED <<graph, head>>, pc'["collector"] = pc["collector"],
             ups'["collector"] = ups["collector"], cur'["collector"] = cur["collector"]
      PROVE  PendingInv'
  BY <1>0, <1>u DEF PendingInv, Pending, Update
<1>1. CASE Still
  BY <1>1, <1>r, <1>u DEF Still, store
<1>2. CASE Mint("collector")
  <2>1. /\ graph' = graph /\ cursors \in Nat /\ pc'["collector"] = "commit"
        /\ cur'["collector"] = cursors + 1 /\ \A f \in graph : f.cur \in Nat
    BY <1>2 DEF Mint, TypeInv, TypeOK, Writers, Frames
  <2>2. \A f \in graph : f.cur < cursors + 1
    BY <2>1 DEF CursorInv
  <2> QED BY <2>1, <2>2 DEF PendingInv
<1>3. CASE Commit("collector")
  <2>1. CASE pc'["collector"] \in {"idle", "apply"}
    BY <2>1, <1>r
  <2>2. CASE /\ pc'["collector"] = "send" /\ ups'["collector"] = ups["collector"]
             /\ cur'["collector"] = cur["collector"]
    <3>1. Pending' = Pending /\ Update("collector")' = Update("collector")
      BY <2>2 DEF Pending, Update
    <3> QED BY <1>3, <2>2, <3>1, CommitEffect DEF PendingInv
  <2> QED BY <1>3, <2>1, <2>2, CommitEffect
<1>4. CASE Send("collector")
  <2>1. CASE pc'["collector"] \in {"idle", "apply"}
    BY <2>1, <1>r
  <2>2. CASE /\ Update("collector") \in Terminal /\ pc'["collector"] = "retire"
             /\ ups'["collector"] = ups["collector"]
    <3>1. Update("collector")' = Update("collector") /\ Update("collector") \in Statuses
      BY <2>2 DEF Update, Statuses
    <3> QED BY <1>0, <1>4, <2>2, <3>1, CollectorSends DEF PendingInv
  <2> QED BY <1>4, <2>1, <2>2, CollectorSends
<1>5. CASE Retire("collector")
  BY <1>5, <1>r, AdvanceRests DEF Retire
<1>6. ASSUME NEW s \in Subs, GetTask(s) \/ Follow(s) PROVE PendingInv'
  BY <1>6, <1>u, FollowerFrame
<1> QED BY <1>0, <1>1, <1>2, <1>3, <1>4, <1>5, <1>6

\* Only subscribing touches the channels.
LEMMA FollowerChannels ==
    ASSUME NEW s \in Subs, GetTask(s) \/ Follow(s), ~ Subscribe(s)
    PROVE  UNCHANGED <<chan, log, rx>>
  BY DEF GetTask, Follow, ReplayQuery, ReplayFails, ReplayNext, ReplayEnds, Recv, Lagged,
     RecvClosed, channels

\* Every step keeps the channels in the order of the cursors.
LEMMA LogStep ==
    ASSUME TypeInv, GateInv, PendingInv, LogInv, [Next]_vars
    PROVE  LogInv'
<1> SUFFICES ASSUME Serial' PROVE LogInv'
  BY DEF LogInv
<1>0. /\ Serial
      /\ \/ Still \/ Mint("collector") \/ Commit("collector") \/ Send("collector")
         \/ Retire("collector") \/ \E s \in Subs : GetTask(s) \/ Follow(s)
  BY SerialStep
<1>t. /\ \A c \in 1 .. Len(log) : Len(log[c]) \in Nat
      /\ \A f \in Frames : f.cur \in Nat
      /\ graph \subseteq Frames /\ cur["collector"] \in Nat
  BY ElementOfSeq, LenProperties DEF TypeInv, TypeOK, Writers, Frames
<1>u. ASSUME log' = log, graph \subseteq graph',
             pc'["collector"] # "send" \/ (pc["collector"] = "send" /\ cur'["collector"] = cur["collector"])
      PROVE  LogInv'
  BY <1>0, <1>u DEF LogInv
<1>1. CASE Still
  BY <1>1, <1>u DEF Still, store, channels
<1>2. CASE Mint("collector")
  BY <1>2, <1>u DEF Mint, channels, TypeInv, TypeOK, Writers
<1>3. CASE Commit("collector")
  <2>1. CASE pc'["collector"] \in {"idle", "apply"}
    BY <1>3, <2>1, <1>u, CommitEffect DEF channels
  <2>2. CASE pc'["collector"] = "send" /\ cur'["collector"] = cur["collector"]
    <3>1. pc["collector"] = "commit" /\ log' = log /\ graph \subseteq graph'
      BY <1>3, CommitEffect DEF channels
    <3>2. \A f \in graph : f.cur < cur["collector"]
      BY <1>0, <3>1 DEF PendingInv
    <3> QED BY <1>0, <2>2, <3>1, <3>2 DEF LogInv
  <2> QED BY <1>3, <2>1, <2>2, CommitEffect
<1>4. CASE Send("collector")
  <2>1. PICK c \in 1 .. Len(log) + 1 : ensure_sender(c, <<Pending>>)
    BY <1>4, CollectorSends
  <2>2. /\ pc["collector"] = "send" /\ Pending \in graph /\ Pending \in Frames /\ graph' = graph
        /\ pc'["collector"] # "send" /\ Pending.cur = cur["collector"]
    BY <1>0, <1>4, CollectorSends DEF PendingInv, Pending
  <2>3. /\ \A d \in 1 .. Len(log) :
              /\ d \in 1 .. Len(log') /\ Len(log[d]) <= Len(log'[d])
              /\ \A i \in 1 .. Len(log[d]) : log'[d][i] = log[d][i]
        /\ \A d \in 1 .. Len(log') : \A i \in 1 .. Len(log'[d]) :
              \/ d \in 1 .. Len(log) /\ i \in 1 .. Len(log[d])
              \/ d = c /\ i = Len(log'[c]) /\ log'[d][i] = Pending
    BY <2>1, <2>2, SendEffect
  <2>4. ASSUME NEW d \in 1 .. Len(log'), NEW i \in 1 .. Len(log'[d]) PROVE log'[d][i] \in graph'
    BY <1>0, <2>2, <2>3 DEF LogInv
  <2>5. ASSUME NEW d \in 1 .. Len(log'), NEW i \in 1 .. Len(log'[d]), NEW j \in 1 .. Len(log'[d]), i < j
        PROVE  log'[d][i].cur < log'[d][j].cur
    <3>1. d \in 1 .. Len(log) /\ i \in 1 .. Len(log[d])
      BY <2>3, <2>5
    <3>2. CASE j \in 1 .. Len(log[d])
      BY <1>0, <2>3, <2>5, <3>1, <3>2 DEF LogInv
    <3>3. CASE log'[d][j] = Pending
      BY <1>0, <2>2, <2>3, <3>1, <3>3 DEF LogInv
    <3> QED BY <2>3, <3>2, <3>3
  <2> QED BY <2>2, <2>4, <2>5 DEF LogInv
<1>5. CASE Retire("collector")
  BY <1>5, <1>u, AdvanceRests DEF Retire, store
<1>6. ASSUME NEW s \in Subs, GetTask(s) \/ Follow(s) PROVE LogInv'
  <2>1. UNCHANGED <<graph, pc, cur>>
    BY <1>6, FollowerFrame
  <2>2. CASE Subscribe(s)
    <3>1. PICK c \in 1 .. Len(log) + 1 : ensure_sender(c, <<>>)
      BY <2>2 DEF Subscribe
    <3>2. /\ \A d \in 1 .. Len(log) : d \in 1 .. Len(log') /\ log'[d] = log[d]
          /\ \A d \in 1 .. Len(log') : d \notin 1 .. Len(log) => log'[d] = <<>>
      BY <3>1, JoinEffect
    <3> QED BY <1>0, <2>1, <3>2 DEF LogInv
  <2>3. CASE ~ Subscribe(s)
    BY <1>6, <2>1, <2>3, <1>u, FollowerChannels
  <2> QED BY <2>2, <2>3
<1> QED BY <1>0, <1>1, <1>2, <1>3, <1>4, <1>5, <1>6

\* Every step keeps the subscribers on the channel until it is retired.
LEMMA AttachStep ==
    ASSUME TypeInv, GateInv, PendingInv, AttachInv, [Next]_vars
    PROVE  AttachInv'
<1> SUFFICES ASSUME Serial', Unretired', NEW r \in Subs, rx'[r] # None PROVE rx'[r] = chan'
  BY DEF AttachInv
<1>0. /\ Serial
      /\ \/ Still \/ Mint("collector") \/ Commit("collector") \/ Send("collector")
         \/ Retire("collector") \/ \E s \in Subs : GetTask(s) \/ Follow(s)
  BY SerialStep
<1>u. ASSUME UNCHANGED <<chan, rx>>, Unretired PROVE rx'[r] = chan'
  BY <1>0, <1>u DEF AttachInv
<1>1. CASE Still
  BY <1>1, <1>u DEF Still, store, channels, sessions, Unretired, Update
<1>2. CASE Mint("collector")
  BY <1>2, <1>u DEF Mint, channels, sessions, Unretired, TypeInv, TypeOK, Writers
<1>3. CASE Commit("collector")
  <2>1. pc["collector"] = "commit" /\ UNCHANGED <<chan, rx>>
    BY <1>3, CommitEffect DEF channels, sessions
  <2>2. Unretired
    <3>1. CASE Update("collector") \in Statuses
      BY <1>0, <2>1, <3>1 DEF GateInv, Unretired
    <3>2. CASE Update("collector") \notin Statuses
      <4>1. head' = head /\ (Unretired' => head' \notin Terminal)
        BY <1>3, <3>2, CommitEffect DEF Unretired, Update, Statuses
      <4> QED BY <4>1 DEF Unretired
    <3> QED BY <3>1, <3>2
  <2> QED BY <2>1, <2>2, <1>u
<1>4. CASE Send("collector")
  <2>1. PICK c \in 1 .. Len(log) + 1 : ensure_sender(c, <<Pending>>)
    BY <1>4, CollectorSends
  <2>2. Pending \in Frames /\ rx' = rx /\ Unretired
    BY <1>4, CollectorSends DEF sessions, Unretired, Update
  <2>3. chan' = c /\ (chan # None => c = chan)
    BY <2>1, <2>2, SendEffect
  <2> QED BY <1>0, <2>2, <2>3 DEF AttachInv
<1>5. CASE Retire("collector")
  <2>1. pc["collector"] = "retire" /\ head' = head /\ pc'["collector"] \in {"idle", "apply"}
    BY <1>5, AdvanceRests DEF Retire, store
  <2>2. head \in Terminal
    BY <1>0, <2>1 DEF PendingInv, Statuses
  <2> QED BY <2>1, <2>2 DEF Unretired
<1>6. ASSUME NEW s \in Subs, GetTask(s) \/ Follow(s) PROVE rx'[r] = chan'
  <2>1. Unretired
    BY <1>6, FollowerFrame DEF Unretired, Update
  <2>2. CASE Subscribe(s)
    <3>1. PICK c \in 1 .. Len(log) + 1 : ensure_sender(c, <<>>) /\ rx' = [rx EXCEPT ![s] = c]
      BY <2>2 DEF Subscribe
    <3>2. chan' = c /\ (chan # None => c = chan)
      BY <3>1, JoinEffect
    <3> QED BY <1>0, <2>1, <3>1, <3>2 DEF AttachInv, TypeInv, TypeOK
  <2>3. CASE ~ Subscribe(s)
    BY <1>6, <2>1, <2>3, <1>u, FollowerChannels
  <2> QED BY <2>2, <2>3
<1> QED BY <1>0, <1>1, <1>2, <1>3, <1>4, <1>5, <1>6

\* Every step keeps the receivers within their channels.
LEMMA PosStep ==
    ASSUME TypeInv, GateInv, PosInv, [Next]_vars
    PROVE  PosInv'
<1> SUFFICES ASSUME Serial', NEW r \in Subs, rx'[r] # None PROVE pos'[r] <= Len(log'[rx'[r]])
  BY DEF PosInv
<1>0. /\ Serial
      /\ \/ Still \/ Mint("collector") \/ Commit("collector") \/ Send("collector")
         \/ Retire("collector") \/ \E s \in Subs : GetTask(s) \/ Follow(s)
  BY SerialStep
<1>t. /\ pos \in [Subs -> Nat] /\ rx \in [Subs -> 0 .. Len(log)]
      /\ \A c \in 1 .. Len(log) : Len(log[c]) \in Nat
      /\ \A s \in Subs : rx[s] # None => rx[s] \in 1 .. Len(log)
  BY ElementOfSeq, LenProperties DEF TypeInv, TypeOK, None
<1>u. ASSUME UNCHANGED <<rx, pos, log>> PROVE pos'[r] <= Len(log'[rx'[r]])
  BY <1>0, <1>u DEF PosInv
<1>1. CASE Still \/ Mint("collector") \/ Commit("collector") \/ Retire("collector")
  BY <1>1, <1>u, CommitEffect DEF Still, Mint, Retire, channels, sessions
<1>2. CASE Send("collector")
  <2>1. PICK c \in 1 .. Len(log) + 1 : ensure_sender(c, <<Pending>>)
    BY <1>2, CollectorSends
  <2>2. Pending \in Frames /\ UNCHANGED <<rx, pos>>
    BY <1>2, CollectorSends DEF sessions
  <2>3. rx[r] \in 1 .. Len(log) /\ Len(log[rx[r]]) <= Len(log'[rx[r]])
    BY <1>t, <2>1, <2>2, SendEffect
  <2>4. log'[rx[r]] \in Seq(Frames)
    <3>1. rx[r] \in 1 .. Len(log')
      BY <2>1, <2>2, <2>3, SendEffect
    <3> QED BY <3>1, TypeStep, ElementOfSeq DEF TypeInv, TypeOK
  <2> QED BY <1>0, <1>t, <2>2, <2>3, <2>4, LenProperties DEF PosInv
<1>3. ASSUME NEW s \in Subs, GetTask(s) \/ Follow(s) PROVE pos'[r] <= Len(log'[rx'[r]])
  <2>1. CASE Subscribe(s)
    <3>1. PICK c \in 1 .. Len(log) + 1 :
            /\ ensure_sender(c, <<>>)
            /\ rx' = [rx EXCEPT ![s] = c]
            /\ pos' = [pos EXCEPT ![s] = Len(log'[c])]
      BY <2>1 DEF Subscribe
    <3>2. \A d \in 1 .. Len(log) : log'[d] = log[d]
      BY <3>1, JoinEffect
    <3>3. CASE r = s
      <4>1. Len(log'[c]) \in Nat
        BY <3>1, SenderType, EmptySeq DEF TypeInv
      <4> QED BY <1>t, <3>1, <3>3, <4>1
    <3>4. CASE r # s
      BY <1>0, <1>t, <3>1, <3>2, <3>4 DEF PosInv
    <3> QED BY <3>3, <3>4
  <2>2. CASE Recv(s)
    <3>1. /\ UNCHANGED <<rx, log>> /\ pos' = [pos EXCEPT ![s] = pos[s] + 1]
          /\ Behind(s) \in 1 .. Capacity
      BY <2>2 DEF Recv, channels
    <3>2. r = s => pos[s] + 1 <= Len(log[rx[s]])
      BY <1>t, <3>1, CapacityAssumption DEF Behind
    <3> QED BY <1>0, <1>t, <3>1, <3>2 DEF PosInv
  <2>3. CASE Lagged(s)
    <3>1. /\ UNCHANGED <<rx, log>> /\ pos' = [pos EXCEPT ![s] = Len(log[rx[s]]) - Capacity]
      BY <2>3 DEF Lagged, channels
    <3>2. r = s => Len(log[rx[s]]) - Capacity <= Len(log[rx[s]])
      BY <1>t, <3>1, CapacityAssumption
    <3> QED BY <1>0, <1>t, <3>1, <3>2 DEF PosInv
  <2>4. CASE UNCHANGED <<rx, pos, log>>
    BY <2>4, <1>u
  <2> QED BY <1>3, <2>1, <2>2, <2>3, <2>4 DEF GetTask, Follow, ReplayQuery, ReplayFails,
      ReplayNext, ReplayEnds, RecvClosed, channels
<1> QED BY <1>0, <1>1, <1>2, <1>3

\* The frame that is received next is there.
LEMMA NextFrame ==
    ASSUME TypeInv, NEW s \in Subs, Recv(s)
    PROVE  /\ rx[s] \in 1 .. Len(log) /\ pos[s] + 1 \in 1 .. Len(log[rx[s]])
           /\ log[rx[s]][pos[s] + 1].cur \in Nat
<1>1. rx[s] \in 1 .. Len(log) /\ pos[s] \in Nat
  BY DEF TypeInv, TypeOK, WorkInv, Recv, None
<1>2. log[rx[s]] \in Seq(Frames)
  BY <1>1, ElementOfSeq DEF TypeInv, TypeOK
<1>3. Len(log[rx[s]]) \in Nat
  BY <1>2, LenProperties
<1>4. pos[s] + 1 \in 1 .. Len(log[rx[s]])
  BY <1>1, <1>3, CapacityAssumption DEF Recv, Behind
<1>5. log[rx[s]][pos[s] + 1] \in Frames
  BY <1>2, <1>4, ElementOfSeq
<1> QED BY <1>1, <1>4, <1>5 DEF Frames

\* What a subscriber is delivered was committed.
LEMMA Delivered ==
    ASSUME TypeInv, DeliveryInv, LogInv, PosInv, Serial, NEW s \in Subs, ReplayNext(s) \/ Recv(s)
    PROVE  \/ UNCHANGED <<last, got>>
           \/ \E f \in graph : last[s] < f.cur /\ Deliver(s, f)
<1>1. CASE ReplayNext(s)
  BY <1>1 DEF ReplayNext, DeliveryInv
<1>2. CASE Recv(s)
  <2> DEFINE f == log[rx[s]][pos[s] + 1]
  <2>1. rx[s] \in 1 .. Len(log) /\ pos[s] + 1 \in 1 .. Len(log[rx[s]])
    BY <1>2, NextFrame
  <2>4. f \in graph
    BY <2>1 DEF LogInv
  <2>5. last[s] \in Nat /\ f.cur \in Nat
    BY <2>4 DEF TypeInv, TypeOK, Frames
  <2> QED BY <1>2, <2>4, <2>5 DEF Recv
<1> QED BY <1>1, <1>2

\* Only these two steps deliver.
LEMMA FollowerDelivers ==
    ASSUME NEW s \in Subs, GetTask(s) \/ Follow(s), ~ ReplayNext(s), ~ Recv(s)
    PROVE  UNCHANGED <<last, got>>
  BY DEF GetTask, Follow, Subscribe, ReplayQuery, ReplayFails, ReplayEnds, Lagged, RecvClosed

\* Every step keeps the subscribers behind the cursors.
LEMMA LastStep ==
    ASSUME TypeInv, CursorInv, GateInv, DeliveryInv, PendingInv, LogInv, PosInv, LastInv, [Next]_vars
    PROVE  LastInv'
<1> SUFFICES ASSUME Serial', NEW r \in Subs
             PROVE  last'[r] <= cursors' /\ (pc'["collector"] = "commit" => last'[r] < cur'["collector"])
  BY DEF LastInv
<1>0. /\ Serial
      /\ \/ Still \/ Mint("collector") \/ Commit("collector") \/ Send("collector")
         \/ Retire("collector") \/ \E s \in Subs : GetTask(s) \/ Follow(s)
  BY SerialStep
<1>1. last[r] \in Nat /\ cursors \in Nat /\ last[r] <= cursors
  BY <1>0 DEF LastInv, TypeInv, TypeOK
<1>2. CASE Still
  BY <1>0, <1>1, <1>2 DEF Still, LastInv, store, sessions
<1>3. CASE Mint("collector")
  BY <1>1, <1>3 DEF Mint, sessions, TypeInv, TypeOK, Writers
<1>4. CASE Commit("collector") \/ Send("collector") \/ Retire("collector")
  <2>1. UNCHANGED <<last, cursors>> /\ pc'["collector"] # "commit"
    BY <1>4, CommitEffect, CollectorSends, AdvanceRests DEF Retire, store, sessions
  <2> QED BY <1>1, <2>1
<1>5. ASSUME NEW s \in Subs, GetTask(s) \/ Follow(s)
      PROVE  last'[r] <= cursors' /\ (pc'["collector"] = "commit" => last'[r] < cur'["collector"])
  <2>1. UNCHANGED <<cursors, pc, cur>>
    BY <1>5, FollowerFrame
  <2>2. CASE UNCHANGED <<last, got>>
    BY <1>0, <2>1, <2>2 DEF LastInv
  <2>3. ASSUME NEW f \in graph, Deliver(s, f)
        PROVE  last'[r] <= cursors' /\ (pc'["collector"] = "commit" => last'[r] < cur'["collector"])
    BY <1>0, <2>1, <2>3 DEF LastInv, Deliver, CursorInv, PendingInv, TypeInv, TypeOK
  <2> QED BY <1>0, <1>5, <2>2, <2>3, Delivered, FollowerDelivers
<1> QED BY <1>0, <1>2, <1>3, <1>4, <1>5

\* A writer's step takes nothing off what a subscriber will receive.
LEMMA AheadKept ==
    ASSUME TypeInv, PendingInv, AttachInv, PosInv, Serial, NEW r \in Subs, spc[r] \in {"replay", "live"},
           \/ Still \/ Mint("collector") \/ Commit("collector") \/ Send("collector")
           \/ Retire("collector"),
           NEW g \in graph, g.kind \in Statuses, Ahead(r, g)
    PROVE  Ahead(r, g)'
<1>0. /\ rx[r] # None /\ rx[r] \in 1 .. Len(log) /\ pos[r] \in Nat
  BY DEF TypeInv, TypeOK, WorkInv, None
<1>1. Len(log[rx[r]]) \in Nat /\ log[rx[r]] \in Seq(Frames)
  BY <1>0, ElementOfSeq, LenProperties DEF TypeInv, TypeOK
<1>l. ASSUME UNCHANGED <<log, rx, pos>>, pc["collector"] # "send" PROVE Ahead(r, g)'
  BY <1>l DEF Ahead
<1>2. CASE Still
  <2>1. UNCHANGED <<log, rx, pos>>
    BY <1>2 DEF Still, channels, sessions
  <2>2. CASE pc["collector"] # "send"
    BY <2>1, <2>2, <1>l
  <2>3. CASE pc["collector"] = "send"
    BY <1>2, <2>1, <2>3 DEF Still, Ahead, Pending, Update
  <2> QED BY <2>2, <2>3
<1>3. CASE Mint("collector") \/ Commit("collector") \/ Retire("collector")
  <2>1. UNCHANGED <<log, rx, pos>> /\ pc["collector"] # "send"
    BY <1>3 DEF Mint, Commit, Retire, channels, sessions
  <2> QED BY <2>1, <1>l
<1>4. CASE Send("collector")
  <2>1. PICK c \in 1 .. Len(log) + 1 : ensure_sender(c, <<Pending>>)
    BY <1>4, CollectorSends
  <2>2. pc["collector"] = "send" /\ Pending \in Frames /\ UNCHANGED <<rx, pos>>
    BY <1>4, CollectorSends DEF sessions
  <2>3. /\ Len(log[rx[r]]) <= Len(log'[rx[r]]) /\ rx[r] \in 1 .. Len(log')
        /\ \A i \in 1 .. Len(log[rx[r]]) : log'[rx[r]][i] = log[rx[r]][i]
        /\ chan # None => c = chan /\ Len(log'[c]) = Len(log[c]) + 1
        /\ log'[c][Len(log'[c])] = Pending
    BY <1>0, <2>1, <2>2, SendEffect
  <2>4. Len(log'[rx[r]]) \in Nat
    BY <2>3, TypeStep, ElementOfSeq, LenProperties, <1>4 DEF TypeInv, TypeOK, Next, Record, Writers
  <2>5. ASSUME NEW i \in 1 .. Len(log[rx[r]]), i > pos[r], log[rx[r]][i] = g PROVE Ahead(r, g)'
    BY <1>1, <2>2, <2>3, <2>4, <2>5 DEF Ahead
  <2>6. CASE g = Pending
    <3>1. Update("collector") \in Statuses /\ head = Update("collector")
      BY <2>2, <2>6 DEF PendingInv, Pending
    <3>2. rx[r] = chan
      BY <1>0, <2>2, <3>1 DEF AttachInv, Unretired
    <3>3. Len(log'[rx[r]]) = Len(log[rx[r]]) + 1 /\ log'[rx[r]][Len(log'[rx[r]])] = g
      BY <1>0, <2>3, <2>6, <3>2
    <3>4. pos[r] < Len(log'[rx[r]])
      BY <1>0, <1>1, <3>3 DEF PosInv
    <3>5. Len(log'[rx[r]]) \in 1 .. Len(log'[rx[r]])
      BY <1>1, <3>3
    <3> QED BY <1>0, <2>2, <2>4, <3>3, <3>4, <3>5 DEF Ahead
  <2> QED BY <2>2, <2>5, <2>6 DEF Ahead
<1> QED BY <1>2, <1>3, <1>4

\* A subscriber's step takes nothing off what another will receive.
LEMMA OthersKept ==
    ASSUME TypeInv, NEW r \in Subs, NEW s \in Subs \ {r}, GetTask(s) \/ Follow(s)
    PROVE  /\ spc'[r] = spc[r] /\ snap'[r] = snap[r] /\ rx'[r] = rx[r] /\ pos'[r] = pos[r]
           /\ found'[r] = found[r] /\ last'[r] = last[r] /\ got'[r] = got[r]
           /\ (r \in failed' <=> r \in failed)
           /\ spc[r] \in {"replay", "live"} => \A g : Ahead(r, g) => Ahead(r, g)'
<1> USE DEF TypeInv, TypeOK
<1>1. /\ spc'[r] = spc[r] /\ snap'[r] = snap[r] /\ rx'[r] = rx[r] /\ pos'[r] = pos[r]
      /\ (r \in failed' <=> r \in failed) /\ found'[r] = found[r]
  BY DEF GetTask, Follow, Subscribe, ReplayQuery, ReplayFails, ReplayNext, ReplayEnds, Recv,
     Lagged, RecvClosed
<1>2. last'[r] = last[r] /\ got'[r] = got[r]
  <2>1. ASSUME NEW f, Deliver(s, f) PROVE last'[r] = last[r] /\ got'[r] = got[r]
    BY <2>1 DEF Deliver
  <2>2. CASE UNCHANGED <<last, got>>
    BY <2>2
  <2>3. CASE ReplayNext(s)
    BY <2>1, <2>3 DEF ReplayNext
  <2>4. CASE Recv(s)
    BY <2>1, <2>2, <2>4 DEF Recv
  <2> QED BY <2>2, <2>3, <2>4, FollowerDelivers
<1>3. ASSUME spc[r] \in {"replay", "live"}, NEW g, Ahead(r, g) PROVE Ahead(r, g)'
  <2>1. UNCHANGED <<pc, ups, cur>>
    BY FollowerFrame
  <2>2. rx[r] \in 1 .. Len(log)
    BY <1>3 DEF WorkInv, None
  <2>3. log'[rx[r]] = log[rx[r]]
    <3>1. CASE Subscribe(s)
      BY <2>2, <3>1, JoinEffect DEF Subscribe
    <3>2. CASE ~ Subscribe(s)
      BY <3>2, FollowerChannels
    <3> QED BY <3>1, <3>2
  <2> QED BY <1>1, <1>3, <2>1, <2>3 DEF Ahead, Pending, Update
<1> QED BY <1>1, <1>2, <1>3

\* What CoverInv says of a subscriber and a status.
Covered(s, g) ==
    /\ g.cur <= last[s] \/ g \in found[s] \/ Ahead(s, g)
    /\ \A f \in found[s] : g.cur <= f.cur => g \in found[s] \cup got[s]

\* The subscriber's own steps keep it covered.
LEMMA OwnCover ==
    ASSUME TypeInv, CursorInv, ReplayInv, DeliveryInv, PosInv, StatusesKept, CoverInv, Serial,
           NEW r \in Subs, GetTask(r) \/ Follow(r), spc'[r] \in {"replay", "live"},
           NEW g \in graph, g.kind \in Statuses
    PROVE  Covered(r, g)'
<1>t. /\ spc \in [Subs -> {"new", "refused", "subscribe", "replay", "live", "done"} \cup Queries]
      /\ found \in [Subs -> SUBSET Frames] /\ last \in [Subs -> Nat] /\ got \in [Subs -> SUBSET Frames]
      /\ pos \in [Subs -> Nat] /\ g.cur \in Nat
      /\ \A f \in Frames : f.cur \in Nat
  BY DEF TypeInv, TypeOK, Frames
<1>w. UNCHANGED <<graph, head, cursors, pc, ups, cur>>
  BY FollowerFrame
<1>a. ASSUME UNCHANGED <<log, rx, pos>>, Ahead(r, g) PROVE Ahead(r, g)'
  BY <1>a, <1>w DEF Ahead, Pending, Update
<1>1. CASE GetTask(r) \/ Subscribe(r) \/ ReplayFails(r) \/ Lagged(r) \/ RecvClosed(r)
  <2>1. spc'[r] \in {"refused", "subscribe", "messages", "done"}
    BY <1>1, <1>t DEF GetTask, Subscribe, ReplayFails, Lagged, RecvClosed
  <2> QED BY <2>1
<1>2. CASE ReplayQuery(r)
  <2>1. spc[r] = "statuses"
    BY <1>2, <1>t DEF ReplayQuery, AfterQuery, Queries
  <2>2. /\ found'[r] = found[r] \cup {f \in graph : f.kind \in Statuses /\ f.cur > last[r]}
        /\ last' = last /\ got' = got
    BY <1>2, <1>t, <2>1 DEF ReplayQuery, QueryKinds
  <2>3. g.cur <= last[r] => g \in got[r]
    BY DEF StatusesKept
  <2>4. g.cur > last[r] => g \in found'[r]
    BY <2>2
  <2> QED BY <1>t, <2>2, <2>3, <2>4 DEF Covered
<1>3. CASE ReplayNext(r)
  <2>1. PICK f \in found[r] :
          /\ \A h \in found[r] : f.cur <= h.cur
          /\ Deliver(r, f)
          /\ found' = [found EXCEPT ![r] = @ \ {f}]
    BY <1>3 DEF ReplayNext
  <2>2. /\ spc[r] = "replay" /\ UNCHANGED <<log, rx, pos>> /\ last[r] < f.cur /\ f \in Frames
    BY <1>3, <1>t DEF ReplayNext, channels, DeliveryInv
  <2>3. last'[r] = f.cur /\ found'[r] = found[r] \ {f} /\ got[r] \subseteq got'[r]
    BY <1>t, <2>1 DEF Deliver
  <2>4. g = f => g \in got'[r]
    BY <1>t, <2>1 DEF Deliver, Statuses, Terminal
  <2>5. /\ g.cur <= last[r] \/ g \in found[r] \/ Ahead(r, g)
        /\ \A h \in found[r] : g.cur <= h.cur => g \in found[r] \cup got[r]
    BY <2>2 DEF CoverInv
  <2>6. g.cur <= last'[r] \/ g \in found'[r] \/ Ahead(r, g)'
    BY <1>t, <2>2, <2>3, <2>5, <1>a
  <2>7. ASSUME NEW h \in found'[r], g.cur <= h.cur PROVE g \in found'[r] \cup got'[r]
    BY <2>3, <2>4, <2>5, <2>7
  <2> QED BY <2>6, <2>7 DEF Covered
<1>4. CASE ReplayEnds(r)
  <2>1. spc[r] = "replay" /\ UNCHANGED <<log, rx, pos, found, last, got>>
    BY <1>4 DEF ReplayEnds, channels
  <2>2. /\ g.cur <= last[r] \/ g \in found[r] \/ Ahead(r, g)
        /\ \A h \in found[r] : g.cur <= h.cur => g \in found[r] \cup got[r]
    BY <2>1 DEF CoverInv
  <2> QED BY <2>1, <2>2, <1>a DEF Covered
<1>5. CASE Recv(r)
  <2> DEFINE f == log[rx[r]][pos[r] + 1]
  <2>1. /\ spc[r] = "live" /\ UNCHANGED <<log, rx, found>> /\ pos'[r] = pos[r] + 1
        /\ (f.cur > last[r] /\ last'[r] = f.cur) \/ (f.cur <= last[r] /\ last' = last)
    BY <1>5, <1>t DEF Recv, Deliver, channels
  <2>2. found[r] = {}
    BY <2>1 DEF ReplayInv, Queries
  <2>3. g.cur <= last[r] \/ Ahead(r, g)
    BY <2>1, <2>2 DEF CoverInv
  <2>4. CASE g.cur <= last[r]
    <3>1. last[r] <= last'[r]
      <4>4. f.cur \in Nat
        BY <1>5, NextFrame
      <4> QED BY <1>t, <2>1, <4>4
    <3>2. last'[r] \in Nat
      BY TypeStep DEF Next, TypeInv, TypeOK
    <3> QED BY <1>t, <2>1, <2>2, <2>4, <3>1, <3>2 DEF Covered
  <2>5. ASSUME NEW i \in 1 .. Len(log[rx[r]]), i > pos[r], log[rx[r]][i] = g PROVE Covered(r, g)'
    <3>1. CASE i = pos[r] + 1
      <4>0. f = g
        BY <2>5, <3>1
      <4>1. g.cur <= last'[r]
        BY <1>t, <2>1, <4>0
      <4> QED BY <2>1, <2>2, <4>1 DEF Covered
    <3>2. CASE i # pos[r] + 1
      <4>1. i > pos'[r] /\ i \in 1 .. Len(log'[rx'[r]]) /\ log'[rx'[r]][i] = g
        BY <1>t, <2>1, <2>5, <3>2
      <4> QED BY <2>1, <2>2, <4>1 DEF Covered, Ahead
    <3> QED BY <3>1, <3>2
  <2>6. CASE pc["collector"] = "send" /\ g = Pending
    <3>1. pc'["collector"] = "send" /\ Pending' = Pending
      BY <1>w, <2>6 DEF Pending, Update
    <3> QED BY <2>1, <2>2, <2>6, <3>1 DEF Covered, Ahead
  <2> QED BY <2>3, <2>4, <2>5, <2>6 DEF Ahead
<1> QED BY <1>1, <1>2, <1>3, <1>4, <1>5 DEF Follow

\* Every step keeps the statuses covered.
LEMMA CoverStep ==
    ASSUME TypeInv, CursorInv, GateInv, ReplayInv, DeliveryInv, PendingInv, AttachInv, PosInv,
           StatusesKept, CoverInv, [Next]_vars
    PROVE  CoverInv'
<1> SUFFICES ASSUME Serial', NEW r \in Subs, spc'[r] \in {"replay", "live"},
                    NEW g \in graph', g.kind \in Statuses
             PROVE  Covered(r, g)'
  BY DEF CoverInv, Covered
<1>0. /\ Serial
      /\ \/ Still \/ Mint("collector") \/ Commit("collector") \/ Send("collector")
         \/ Retire("collector") \/ \E s \in Subs : GetTask(s) \/ Follow(s)
  BY SerialStep
<1>1. CASE \/ Still \/ Mint("collector") \/ Commit("collector") \/ Send("collector")
           \/ Retire("collector")
  <2>1. UNCHANGED <<spc, found, last, got>>
    BY <1>1, CommitEffect, CollectorSends DEF Still, Mint, Retire, sessions
  <2>2. CASE g \in graph
    <3>1. Ahead(r, g) => Ahead(r, g)'
      BY <1>0, <1>1, <2>1, <2>2, AheadKept
    <3> QED BY <1>0, <2>1, <2>2, <3>1 DEF CoverInv, Covered
  <2>3. CASE g \notin graph
    <3>1. Commit("collector")
      BY <1>1, <2>3, CollectorSends DEF Still, Mint, Retire, store
    <3>2. /\ pc["collector"] = "commit" /\ g = Pending
          /\ pc'["collector"] = "send" /\ ups'["collector"] = ups["collector"]
          /\ cur'["collector"] = cur["collector"]
      BY <2>3, <3>1, CommitEffect DEF Pending
    <3>3. Ahead(r, g)'
      BY <3>2 DEF Ahead, Pending, Update
    <3>4. \A f \in found[r] : ~ (g.cur <= f.cur)
      <4>1. \A f \in graph : f.cur < g.cur /\ f.cur \in Nat /\ g.cur \in Nat
        BY <1>0, <3>2 DEF PendingInv, Pending, TypeInv, TypeOK, Writers, Frames
      <4> QED BY <4>1 DEF DeliveryInv
    <3> QED BY <2>1, <3>3, <3>4 DEF Covered
  <2> QED BY <2>2, <2>3
<1>2. ASSUME NEW s \in Subs, GetTask(s) \/ Follow(s) PROVE Covered(r, g)'
  <2>1. g \in graph
    BY <1>2, FollowerFrame
  <2>2. CASE s = r
    BY <1>0, <1>2, <2>1, <2>2, OwnCover
  <2>3. CASE s # r
    BY <1>0, <1>2, <2>1, <2>3, OthersKept DEF CoverInv, Covered
  <2> QED BY <2>2, <2>3
<1> QED BY <1>0, <1>1, <1>2

\* Every step keeps the statuses a subscriber is past among those it was sent.
LEMMA KeptStep ==
    ASSUME TypeInv, CursorInv, GateInv, ReplayInv, DeliveryInv, PendingInv, LogInv, PosInv, LastInv,
           CoverInv, StatusesKept, [Next]_vars
    PROVE  StatusesKept'
<1> SUFFICES ASSUME Serial', NEW r \in Subs, NEW g \in graph', g.kind \in Statuses, g.cur <= last'[r]
             PROVE  g \in got'[r]
  BY DEF StatusesKept
<1>0. /\ Serial
      /\ \/ Still \/ Mint("collector") \/ Commit("collector") \/ Send("collector")
         \/ Retire("collector") \/ \E s \in Subs : GetTask(s) \/ Follow(s)
  BY SerialStep
<1>t. /\ last \in [Subs -> Nat] /\ got \in [Subs -> SUBSET Frames]
      /\ \A f \in graph : f.cur \in Nat
  BY DEF TypeInv, TypeOK, Frames
<1>1. CASE \/ Still \/ Mint("collector") \/ Commit("collector") \/ Send("collector")
           \/ Retire("collector")
  <2>1. UNCHANGED <<last, got>>
    BY <1>1, CommitEffect, CollectorSends DEF Still, Mint, Retire, sessions
  <2>2. CASE g \in graph
    BY <1>0, <2>1, <2>2 DEF StatusesKept
  <2>3. CASE g \notin graph
    <3>1. Commit("collector")
      BY <1>1, <2>3, CollectorSends DEF Still, Mint, Retire, store
    <3>2. pc["collector"] = "commit" /\ g.cur = cur["collector"]
      BY <2>3, <3>1, CommitEffect DEF Pending
    <3>3. last[r] < cur["collector"] /\ cur["collector"] \in Nat
      BY <1>0, <3>2 DEF LastInv, TypeInv, TypeOK, Writers
    <3> QED BY <1>t, <2>1, <3>2, <3>3
  <2> QED BY <2>2, <2>3
<1>2. ASSUME NEW s \in Subs, GetTask(s) \/ Follow(s) PROVE g \in got'[r]
  <2>1. g \in graph
    BY <1>2, FollowerFrame
  <2>2. CASE last'[r] = last[r] /\ got'[r] = got[r]
    BY <1>0, <2>1, <2>2 DEF StatusesKept
  <2>3. CASE s = r /\ ReplayNext(s)
    <3>1. PICK f \in found[r] : (\A h \in found[r] : f.cur <= h.cur) /\ Deliver(r, f)
      BY <2>3 DEF ReplayNext
    <3>2. f \in graph /\ spc[r] = "replay"
      BY <2>3 DEF DeliveryInv, ReplayNext
    <3>3. last'[r] = f.cur /\ got[r] \subseteq got'[r] /\ (f.kind # "message" => f \in got'[r])
      BY <1>t, <3>1 DEF Deliver
    <3>4. g \in found[r] \cup got[r]
      BY <1>0, <2>1, <3>1, <3>2, <3>3 DEF CoverInv
    <3>5. CASE g \in found[r]
      <4>1. g = f
        BY <1>t, <2>1, <3>1, <3>2, <3>3, <3>5 DEF CursorInv
      <4> QED BY <3>3, <4>1 DEF Statuses, Terminal
    <3> QED BY <3>3, <3>4, <3>5
  <2>4. CASE s = r /\ Recv(s)
    <3> DEFINE f == log[rx[r]][pos[r] + 1]
    <3>1. /\ rx[r] \in 1 .. Len(log) /\ pos[r] + 1 \in 1 .. Len(log[rx[r]]) /\ f.cur \in Nat
      BY <2>4, NextFrame
    <3>2. /\ spc[r] = "live" /\ pos[r] \in Nat
          /\ (f.cur > last[r] /\ Deliver(r, f)) \/ UNCHANGED <<last, got>>
      BY <2>4 DEF Recv, TypeInv, TypeOK
    <3>3. CASE UNCHANGED <<last, got>>
      BY <2>2, <3>3
    <3>4. CASE f.cur > last[r] /\ Deliver(r, f)
      <4>1. last'[r] = f.cur /\ got[r] \subseteq got'[r] /\ (f.kind # "message" => f \in got'[r])
        BY <1>t, <3>4 DEF Deliver
      <4>2. CASE g.cur <= last[r]
        BY <1>0, <2>1, <4>1, <4>2 DEF StatusesKept
      <4>3. CASE Ahead(r, g)
        <5>1. ASSUME NEW i \in 1 .. Len(log[rx[r]]), i > pos[r], log[rx[r]][i] = g
              PROVE  g = f
          <6>1. CASE i = pos[r] + 1
            BY <5>1, <6>1
          <6>2. CASE pos[r] + 1 < i
            <7>1. f.cur < g.cur
              BY <1>0, <3>1, <5>1, <6>2 DEF LogInv
            <7>2. g.cur \in Nat /\ g.cur <= f.cur
              BY <1>t, <2>1, <4>1
            <7> QED BY <3>1, <7>1, <7>2
          <6> QED BY <3>2, <5>1, <6>1, <6>2
        <5>2. CASE pc["collector"] = "send" /\ g = Pending
          <6>1. f.cur < g.cur
            BY <1>0, <3>1, <5>2 DEF LogInv, Pending
          <6>2. g.cur \in Nat /\ g.cur <= f.cur
            BY <1>t, <2>1, <4>1
          <6> QED BY <3>1, <6>1, <6>2
        <5>3. g = f \/ g \in got'[r]
          BY <4>3, <5>1, <5>2 DEF Ahead
        <5> QED BY <4>1, <5>3 DEF Statuses, Terminal
      <4>4. found[r] = {}
        BY <3>2 DEF ReplayInv, Queries
      <4> QED BY <1>0, <2>1, <3>2, <4>2, <4>3, <4>4 DEF CoverInv
    <3> QED BY <3>2, <3>3, <3>4
  <2>5. CASE s # r
    BY <1>2, <2>2, <2>5, OthersKept
  <2> QED BY <1>2, <2>2, <2>3, <2>4, <2>5, FollowerDelivers
<1> QED BY <1>0, <1>1, <1>2

\* What EndInv says of a subscriber.
EndsWell(s) ==
    /\ snap[s] => head \in Terminal
    /\ snap[s] /\ spc[s] = "replay" =>
          \A g \in graph : g.kind \in Statuses => g \in found[s] \cup got[s]
    /\ spc[s] = "live" => ~ snap[s]
    /\ spc[s] = "done" /\ s \notin failed =>
          head \in Terminal /\ \A g \in graph : g.kind \in Statuses => g \in got[s]

\* A channel that is closed and drained has carried every status.
LEMMA ClosedComplete ==
    ASSUME TypeInv, ReplayInv, PendingInv, AttachInv, CoverInv, StatusesKept, Serial,
           NEW s \in Subs, RecvClosed(s)
    PROVE  head \in Terminal /\ \A g \in graph : g.kind \in Statuses => g \in got[s]
<1>1. /\ spc[s] = "live" /\ rx[s] # None /\ rx[s] # chan /\ Behind(s) = 0
      /\ rx[s] \in 1 .. Len(log) /\ pos[s] \in Nat
  BY DEF RecvClosed, Open, TypeInv, TypeOK, WorkInv, None
<1>2. ~ Unretired
  BY <1>1 DEF AttachInv
<1>3. ASSUME NEW g \in graph, g.kind \in Statuses PROVE g \in got[s]
  <2>1. found[s] = {}
    BY <1>1 DEF ReplayInv, Queries
  <2>2. Len(log[rx[s]]) \in Nat
    BY <1>1, ElementOfSeq, LenProperties DEF TypeInv, TypeOK
  <2>3. Len(log[rx[s]]) = pos[s]
    BY <1>1, <2>2 DEF Behind
  <2>4. ~ \E i \in 1 .. Len(log[rx[s]]) : i > pos[s] /\ log[rx[s]][i] = g
    BY <1>1, <2>3
  <2>5. ~ (pc["collector"] = "send" /\ g = Pending)
    BY <1>2, <1>3 DEF PendingInv, Pending, Unretired
  <2>6. g.cur <= last[s]
    BY <1>1, <1>3, <2>1, <2>4, <2>5 DEF CoverInv, Ahead
  <2> QED BY <1>3, <2>6 DEF StatusesKept
<1> QED BY <1>2, <1>3 DEF Unretired

\* The subscriber's own steps end it well.
LEMMA OwnEnd ==
    ASSUME TypeInv, ReplayInv, PendingInv, AttachInv, CoverInv, StatusesKept, EndInv, Serial,
           NEW r \in Subs, GetTask(r) \/ Follow(r)
    PROVE  EndsWell(r)'
<1>t. /\ spc \in [Subs -> {"new", "refused", "subscribe", "replay", "live", "done"} \cup Queries]
      /\ found \in [Subs -> SUBSET Frames] /\ last \in [Subs -> Nat] /\ got \in [Subs -> SUBSET Frames]
      /\ snap \in [Subs -> BOOLEAN] /\ \A f \in graph : f.cur \in Nat
  BY DEF TypeInv, TypeOK, Frames
<1>w. UNCHANGED <<graph, head>>
  BY FollowerFrame
<1>e. EndsWell(r)
  BY DEF EndInv, EndsWell
<1>1. CASE GetTask(r)
  BY <1>1, <1>t, <1>w DEF GetTask, EndsWell
<1>2. CASE Subscribe(r) \/ Lagged(r)
  <2>1. spc'[r] = "messages" /\ snap' = snap
    BY <1>2, <1>t DEF Subscribe, Lagged
  <2> QED BY <1>e, <1>w, <2>1 DEF EndsWell
<1>3. CASE ReplayQuery(r)
  <2>1. UNCHANGED <<snap, last, got>> /\ spc'[r] \in {"artifacts", "statuses", "replay"}
    BY <1>3, <1>t DEF ReplayQuery, AfterQuery, Queries
  <2>2. CASE spc'[r] = "replay"
    <3>1. spc[r] = "statuses"
      BY <1>3, <1>t, <2>2 DEF ReplayQuery, AfterQuery, Queries
    <3>2. found'[r] = found[r] \cup {f \in graph : f.kind \in Statuses /\ f.cur > last[r]}
      BY <1>3, <1>t, <3>1 DEF ReplayQuery, QueryKinds
    <3>3. ASSUME NEW g \in graph, g.kind \in Statuses PROVE g \in found'[r] \cup got[r]
      <4>1. g.cur <= last[r] => g \in got[r]
        BY <3>3 DEF StatusesKept
      <4>2. g.cur > last[r] => g \in found'[r]
        BY <3>2, <3>3
      <4> QED BY <1>t, <4>1, <4>2
    <3> QED BY <1>e, <1>w, <2>1, <2>2, <3>3 DEF EndsWell
  <2>3. CASE spc'[r] # "replay"
    BY <1>e, <1>w, <2>1, <2>3 DEF EndsWell
  <2> QED BY <2>2, <2>3
<1>4. CASE ReplayFails(r)
  <2>1. spc'[r] = "done" /\ snap' = snap /\ r \in failed'
    BY <1>4, <1>t DEF ReplayFails
  <2> QED BY <1>e, <1>w, <2>1 DEF EndsWell
<1>5. CASE ReplayNext(r)
  <2>1. PICK f \in found[r] : Deliver(r, f) /\ found' = [found EXCEPT ![r] = @ \ {f}]
    BY <1>5 DEF ReplayNext
  <2>2. UNCHANGED <<spc, snap>> /\ spc[r] = "replay"
    BY <1>5 DEF ReplayNext
  <2>3. /\ found'[r] = found[r] \ {f} /\ got[r] \subseteq got'[r]
        /\ f.kind \in Statuses => f \in got'[r]
    BY <1>t, <2>1 DEF Deliver, Statuses, Terminal
  <2> QED BY <1>e, <1>w, <2>2, <2>3 DEF EndsWell
<1>6. CASE ReplayEnds(r)
  <2>1. /\ spc[r] = "replay" /\ found[r] = {} /\ spc'[r] = IF snap[r] THEN "done" ELSE "live"
        /\ UNCHANGED <<snap, got>>
    BY <1>6, <1>t DEF ReplayEnds
  <2> QED BY <1>e, <1>w, <2>1 DEF EndsWell
<1>7. CASE Recv(r)
  <2>1. UNCHANGED <<spc, snap>> /\ spc[r] = "live"
    BY <1>7 DEF Recv
  <2> QED BY <1>e, <1>w, <2>1 DEF EndsWell
<1>8. CASE RecvClosed(r)
  <2>1. UNCHANGED <<snap, got>> /\ spc'[r] = "done"
    BY <1>8, <1>t DEF RecvClosed
  <2>2. head \in Terminal /\ \A g \in graph : g.kind \in Statuses => g \in got[r]
    BY <1>8, ClosedComplete
  <2> QED BY <1>w, <2>1, <2>2 DEF EndsWell
<1> QED BY <1>1, <1>2, <1>3, <1>4, <1>5, <1>6, <1>7, <1>8 DEF Follow

\* Every step keeps subscriptions that end well.
LEMMA EndStep ==
    ASSUME TypeInv, GateInv, ReplayInv, PendingInv, AttachInv, CoverInv, StatusesKept, EndInv, [Next]_vars
    PROVE  EndInv'
<1> SUFFICES ASSUME Serial', NEW r \in Subs PROVE EndsWell(r)'
  BY DEF EndInv, EndsWell
<1>0. /\ Serial /\ EndsWell(r)
      /\ \/ Still \/ Mint("collector") \/ Commit("collector") \/ Send("collector")
         \/ Retire("collector") \/ \E s \in Subs : GetTask(s) \/ Follow(s)
  BY SerialStep DEF EndInv, EndsWell
<1>1. CASE Still \/ Mint("collector") \/ Send("collector") \/ Retire("collector")
  <2>1. UNCHANGED <<graph, head, sessions>>
    BY <1>1, CollectorSends DEF Still, Mint, Retire, store
  <2> QED BY <1>0, <2>1 DEF EndsWell, sessions
<1>2. CASE Commit("collector")
  <2>1. UNCHANGED <<spc, snap, found, got, failed>> /\ graph' = graph \cup {Pending}
    BY <1>2, CommitEffect DEF sessions
  <2>2. CASE head \in Terminal
    <3>1. Update("collector") \notin Statuses /\ head' = head
      BY <1>0, <1>2, <2>2, CommitEffect DEF GateInv
    <3>2. \A g \in graph' : g.kind \in Statuses => g \in graph
      BY <2>1, <3>1 DEF Pending
    <3> QED BY <1>0, <2>1, <3>1, <3>2 DEF EndsWell
  <2>3. CASE head \notin Terminal
    BY <1>0, <2>1, <2>3 DEF EndsWell
  <2> QED BY <2>2, <2>3
<1>3. ASSUME NEW s \in Subs, GetTask(s) \/ Follow(s) PROVE EndsWell(r)'
  <2>1. CASE s = r
    BY <1>0, <1>3, <2>1, OwnEnd
  <2>2. CASE s # r
    BY <1>0, <1>3, <2>2, OthersKept, FollowerFrame DEF EndsWell
  <2> QED BY <2>1, <2>2
<1> QED BY <1>0, <1>1, <1>2, <1>3

\* The inductive invariant of a task with one writer.
OneWriterInv ==
    /\ TypeInv /\ CursorInv /\ ReplayInv /\ DeliveryInv /\ GateInv
    /\ PendingInv /\ LogInv /\ AttachInv /\ LastInv /\ PosInv
    /\ CoverInv /\ StatusesKept /\ EndInv

\* Nothing is recorded and nobody subscribes at the start.
LEMMA InitOneWriter == Init => OneWriterInv
<1> SUFFICES ASSUME Init PROVE OneWriterInv
  OBVIOUS
<1>1. CursorInv /\ ReplayInv /\ DeliveryInv
  BY DEF Init, CursorInv, ReplayInv, DeliveryInv
<1>2. GateInv /\ PendingInv
  BY DEF Init, GateInv, PendingInv, Writers
<1>3. LogInv /\ AttachInv /\ PosInv
  BY DEF Init, LogInv, AttachInv, PosInv
<1>4. LastInv
  BY DEF Init, LastInv, Writers
<1>5. CoverInv /\ StatusesKept /\ EndInv
  BY DEF Init, CoverInv, StatusesKept, EndInv
<1> QED BY <1>1, <1>2, <1>3, <1>4, <1>5, InitType DEF OneWriterInv

\* Every step keeps it.
LEMMA OneWriterStep == OneWriterInv /\ [Next]_vars => OneWriterInv'
<1> SUFFICES ASSUME OneWriterInv, [Next]_vars PROVE OneWriterInv'
  OBVIOUS
<1> USE DEF OneWriterInv
<1>1. TypeInv' /\ CursorInv' /\ ReplayInv' /\ DeliveryInv' /\ GateInv'
  BY TypeStep, CursorStep, ReplayStep, DeliveryStep, GateStep
<1>2. PendingInv' /\ LogInv' /\ AttachInv' /\ LastInv' /\ PosInv'
  BY PendingStep, LogStep, AttachStep, LastStep, PosStep
<1>3. CoverInv' /\ StatusesKept' /\ EndInv'
  BY CoverStep, KeptStep, EndStep
<1> QED BY <1>1, <1>2, <1>3

\* StatusesKept for every value of the constants: however replay, live delivery and lag
\* recovery interleave with one writer, for any capacity of the channel and any number of
\* subscribers, no status is skipped.
THEOREM NoStatusIsSkipped == Spec => []StatusesKept
<1>1. OneWriterInv => StatusesKept
  BY DEF OneWriterInv
<1> QED BY InitOneWriter, OneWriterStep, <1>1, PTL DEF Spec

\* EndsComplete for every value of the constants: a subscription ends after every status
\* was delivered, whether the task was over when it was read or the channel was retired.
THEOREM SubscriptionsEndComplete == Spec => []EndsComplete
<1>1. OneWriterInv => EndsComplete
  BY DEF OneWriterInv, EndInv, EndsComplete
<1> QED BY InitOneWriter, OneWriterStep, <1>1, PTL DEF Spec

-----------------------------------------------------------------------------
(* The end of a stream that is applied twice *)

\* No tool has started, nothing has failed, and the drain has not lost its client.
Calm == tools = 0 /\ faults = 0 /\ ~ gone

\* A chunk that ends the agent's stream, or what is left of it.
Final(k) == \E i \in DOMAIN k : k[i] \in {"COMPLETED", "FAILED"}

\* The chunks the collector has to store: the injected one comes first, and only until it
\* was stored; the agent's one ends the stream if it is final, and no other did before.
TodoInv ==
    Calm =>
        /\ Len(todo) \in 0 .. 2
        /\ Len(todo) = 1 => submitted
        /\ Len(todo) = 2 =>
              todo[1] = <<"SUBMITTED">> /\ (pc["collector"] # "idle" => ups["collector"] = <<"SUBMITTED">>)
        /\ todo # <<>> => (ended <=> Final(todo[Len(todo)]))
        /\ (~ ended \/ todo # <<>>) => \A k \in seen : ~ Final(k)

\* Nothing else is stored before the task is submitted.
SubmitInv ==
    Calm /\ head = "NONE" =>
        ~ submitted /\ seen = {} /\ forwarded = <<>> /\ pc["collector"] \in {"idle", "apply", "commit"}

\* w stores the chunk that ends the stream, and nobody writes beside it: on the live route
\* that is the drain, elsewhere the collector.
Sole(w) ==
    \/ w = "collector" /\ ~ live /\ Len(todo) = 1
    \/ w = "drain" /\ live /\ todo = <<>> /\ Len(forwarded) = 1

\* The updates that are still to be committed.
Uncommitted(w) == IF pc[w] \in {"send", "retire"} THEN Tail(ups[w]) ELSE ups[w]

\* It has left the task terminal, or will; and the gate's answer holds until the commit.
Settling(w) ==
    /\ head \in Terminal \/ Final(Uncommitted(w))
    /\ pc[w] = "commit" /\ Update(w) \in Statuses => head \notin Terminal

\* Whoever stores the chunk that ends the stream settles the task; before it does, that chunk
\* is the last one of its queue; after it did, the task is terminal.
SettleInv ==
    Calm =>
        /\ pc["auto"] = "idle"
        /\ ~ live => forwarded = <<>>
        /\ ended => \A w \in {"collector", "drain"} : Sole(w) /\ pc[w] # "idle" => Settling(w)
        /\ ended /\ todo = <<>> /\ forwarded # <<>> => Final(forwarded[Len(forwarded)])
        /\ ended /\ todo = <<>> /\ forwarded = <<>> => head \in Terminal

\* A writer goes on with the update in hand.
Moves(w) ==
    /\ pc[w] # "idle" /\ UNCHANGED <<stream, ups>>
    /\ \/ /\ pc[w] = "apply" /\ Allowed(Update(w)) /\ head' = head
          /\ pc' = [pc EXCEPT ![w] = "commit"]
       \/ /\ pc[w] = "commit" /\ head' = (IF Update(w) \in Statuses THEN Update(w) ELSE head)
          /\ pc' = [pc EXCEPT ![w] = "send"]
       \/ pc[w] = "send" /\ head' = head /\ pc' = [pc EXCEPT ![w] = "retire"]

\* A writer is done with it.
Advances(w) ==
    /\ Advance(w) /\ UNCHANGED <<head, live, gone, ended>>
    /\ \/ pc[w] = "apply" /\ ~ Allowed(Update(w))
       \/ pc[w] = "commit" /\ Update(w) \notin Statuses
       \/ pc[w] \in {"send", "retire"}

\* A writer that does not lose the client leaves the collector as open as it was.
LEMMA AdvanceKeepsClient ==
    ASSUME TypeInv, NEW w \in Writers, Advance(w), ~ gone'
    PROVE  ~ gone /\ UNCHANGED <<gone, ended>>
<1>0. gone \in BOOLEAN /\ ended \in BOOLEAN
  BY DEF TypeInv, TypeOK
<1>1. CASE UNCHANGED relay
  BY <1>1 DEF relay
<1>2. CASE Finish(w, TRUE)
  <2>1. CASE Forward(TRUE)
    BY <1>0, <2>1 DEF Forward
  <2>2. CASE UNCHANGED gone /\ UNCHANGED ended
    BY <2>2
  <2>3. CASE UNCHANGED relay
    BY <2>3 DEF relay
  <2> QED BY <1>2, <2>1, <2>2, <2>3 DEF Finish
<1> QED BY <1>1, <1>2 DEF Advance

\* The steps there are when no tool starts, nothing fails and the client stays.
LEMMA CalmStep ==
    ASSUME TypeInv, SettleInv, [Next]_vars, Calm'
    PROVE  /\ Calm
           /\ \/ UNCHANGED <<head, stream, pc, ups>>
              \/ \E k \in ChunkKinds : Receive(k)
              \/ StoreResult \/ SkipDuplicate \/ DrainStore
              \/ \E w \in {"collector", "drain"} : Moves(w) \/ Advances(w)
<1> USE DEF store, stream, relay, writers, channels, sessions, env
<1>0. tools \in Nat /\ faults \in Nat
  BY DEF TypeInv, TypeOK
<1>1. ~ ToolStarted /\ (\A w \in Writers : ~ CommitFails(w)) /\ (\A s \in Subs : ~ ReplayFails(s))
  <2>1. tools' = 0 /\ faults' = 0 /\ tools + 1 # 0 /\ faults + 1 # 0
    BY <1>0 DEF Calm
  <2>2. ~ ToolStarted
    BY <2>1 DEF ToolStarted
  <2>3. ~ Faulty
    BY <2>1 DEF Faulty
  <2> QED BY <2>2, <2>3 DEF CommitFails, ReplayFails
<1>2. UNCHANGED <<tools, faults>>
  BY <1>1 DEF vars, Next, Record, Follow, Receive, StoreResult, SkipDuplicate, DrainStore, Mint,
     Refuse, Commit, Send, Retire, GetTask, Subscribe, ReplayQuery, ReplayNext, ReplayEnds, Recv,
     Lagged, RecvClosed
<1>3. Calm
  <2>1. ~ gone'
    BY DEF Calm
  <2>2. ASSUME NEW w \in Writers, Record(w) PROVE ~ gone
    <3>1. UNCHANGED relay \/ Advance(w)
      BY <1>1, <2>2 DEF Record, Mint, Refuse, Commit, Send, Retire
    <3> QED BY <2>1, <3>1, AdvanceKeepsClient DEF relay
  <2>3. ASSUME NEW s \in Subs, GetTask(s) \/ Follow(s) PROVE UNCHANGED gone
    BY <2>3 DEF Follow, GetTask, Subscribe, ReplayQuery, ReplayFails, ReplayNext, ReplayEnds, Recv,
       Lagged, RecvClosed
  <2>4. ASSUME NEW k \in ChunkKinds, Receive(k) PROVE UNCHANGED gone
    BY <2>4 DEF Receive
  <2>5. StoreResult \/ SkipDuplicate \/ DrainStore \/ UNCHANGED vars => UNCHANGED gone
    BY DEF StoreResult, SkipDuplicate, Forward, DrainStore, vars
  <2>6. ~ gone
    BY <1>1, <2>1, <2>2, <2>3, <2>4, <2>5 DEF Next
  <2> QED BY <1>2, <2>6 DEF Calm
<1>4. ASSUME NEW w \in Writers, Record(w)
      PROVE  \E v \in {"collector", "drain"} : Moves(v) \/ Advances(v)
  <2>1. w \in {"collector", "drain"} /\ pc[w] # "idle"
    BY <1>3, <1>4 DEF SettleInv, Record, Mint, Refuse, Commit, CommitFails, Send, Retire, Writers
  <2>a. Advance(w) => UNCHANGED <<gone, ended>>
    BY AdvanceKeepsClient DEF Calm
  <2>2. CASE Mint(w)
    BY <2>1, <2>2 DEF Mint, Moves
  <2>3. CASE Refuse(w)
    BY <2>1, <2>a, <2>3 DEF Refuse, Advances
  <2>4. CASE Commit(w)
    <3>1. CASE Update(w) = "message" /\ Advance(w)
      BY <2>1, <2>a, <2>4, <3>1 DEF Commit, Advances, Statuses, Terminal
    <3>2. CASE pc' = [pc EXCEPT ![w] = "send"] /\ UNCHANGED <<ups, cur, relay>>
      BY <2>1, <2>4, <3>2 DEF Commit, Moves
    <3> QED BY <2>4, <3>1, <3>2 DEF Commit
  <2>5. CASE Send(w)
    BY <2>1, <2>a, <2>5 DEF Send, Moves, Advances
  <2>6. CASE Retire(w)
    BY <2>1, <2>a, <2>6 DEF Retire, Advances
  <2> QED BY <1>1, <1>4, <2>2, <2>3, <2>4, <2>5, <2>6 DEF Record
<1>5. ASSUME NEW s \in Subs, GetTask(s) \/ Follow(s) PROVE UNCHANGED <<head, stream, pc, ups>>
  BY <1>5 DEF GetTask, Follow, Subscribe, ReplayQuery, ReplayFails, ReplayNext, ReplayEnds, Recv,
     Lagged, RecvClosed
<1> QED BY <1>1, <1>3, <1>4, <1>5 DEF Next, vars

\* The collector is done with a chunk, and nothing has failed.
LEMMA ForwardEffect ==
    ASSUME TypeInv, TodoInv, Calm, todo # <<>>, Forward(TRUE)
    PROVE  /\ Head(todo) = todo[1] /\ submitted' /\ ended' = ended
           /\ (Len(todo) = 1 /\ todo' = <<>>) \/ (Len(todo) = 2 /\ Len(todo') = 1 /\ todo'[1] = todo[2])
           /\ IF live THEN /\ forwarded' # <<>> /\ forwarded'[Len(forwarded')] = todo[1]
                           /\ Len(forwarded') = 1 => forwarded = <<>>
              ELSE forwarded' = forwarded
<1>1. todo \in Seq(Chunks) /\ forwarded \in Seq(Chunks) /\ live \in BOOLEAN
  BY DEF TypeInv, TypeOK, WorkInv
<1>2. Len(todo) \in {1, 2}
  BY <1>1 DEF TodoInv
<1>3. Head(todo) = todo[1] /\ Head(todo) \in Chunks
  BY <1>1
<1>4. (Len(todo) = 1 /\ todo' = <<>>) \/ (Len(todo) = 2 /\ Len(todo') = 1 /\ todo'[1] = todo[2])
  BY <1>1, <1>2 DEF Forward
<1>5. submitted' /\ ended' = ended
  <2>1. ~ gone /\ ended \in BOOLEAN
    BY DEF Calm, TypeInv, TypeOK
  <2> QED BY <1>2, <2>1 DEF Forward, TodoInv
<1>6. ASSUME live
      PROVE  /\ forwarded' # <<>> /\ forwarded'[Len(forwarded')] = todo[1]
             /\ Len(forwarded') = 1 => forwarded = <<>>
  <2>1. forwarded' = Append(forwarded, todo[1])
    BY <1>3, <1>6 DEF Forward, Calm
  <2>2. Len(forwarded) \in Nat /\ Len(forwarded') = Len(forwarded) + 1 /\ forwarded'[Len(forwarded) + 1] = todo[1]
    BY <1>1, <1>3, <2>1
  <2>3. forwarded' # <<>>
    BY <1>1, <1>3, <2>1
  <2>4. Len(forwarded) = 0 => forwarded = <<>>
    BY <1>1
  <2> QED BY <2>2, <2>3, <2>4
<1>7. ~ live => forwarded' = forwarded
  BY DEF Forward
<1> QED BY <1>1, <1>3, <1>4, <1>5, <1>6, <1>7

\* The chunk that tells the task was submitted ends nothing.
LEMMA SubmittedChunk == ~ Final(<<"SUBMITTED">>)
  BY DEF Final

\* What Advance does to the other writer: nothing.
LEMMA AdvanceOthers ==
    ASSUME TypeInv, NEW w \in Writers, Advance(w)
    PROVE  /\ \A v \in Writers \ {w} : pc'[v] = pc[v] /\ ups'[v] = ups[v]
           /\ ups'[w] = Tail(ups[w])
           /\ \/ Len(ups[w]) > 1 /\ pc'[w] = "apply" /\ UNCHANGED relay
              \/ Len(ups[w]) = 1 /\ pc'[w] = "idle" /\ Finish(w, TRUE)
  BY DEF Advance, TypeInv, TypeOK

\* Every step keeps the chunks of the collector in their order.
LEMMA TodoStep ==
    ASSUME TypeInv, SettleInv, TodoInv, [Next]_vars
    PROVE  TodoInv'
<1> SUFFICES ASSUME Calm' PROVE TodoInv'
  BY DEF TodoInv
<1>0. /\ Calm
      /\ \/ UNCHANGED <<head, stream, pc, ups>>
         \/ \E k \in ChunkKinds : Receive(k)
         \/ StoreResult \/ SkipDuplicate \/ DrainStore
         \/ \E w \in {"collector", "drain"} : Moves(w) \/ Advances(w)
  BY CalmStep
<1>t. /\ todo \in Seq(Chunks) /\ "collector" \in Writers /\ "drain" \in Writers
      /\ pc \in [Writers -> {"idle", "apply", "commit", "send", "retire"}]
      /\ ups \in [Writers -> Seq(Updates)]
      /\ pc["collector"] # "idle" => todo # <<>>
  BY DEF TypeInv, TypeOK, WorkInv, Writers
<1>u. ASSUME UNCHANGED <<todo, submitted, seen, ended>>,
             pc'["collector"] # "idle" => pc["collector"] # "idle" /\ ups'["collector"] = ups["collector"]
      PROVE  TodoInv'
  BY <1>0, <1>u DEF TodoInv
<1>f. ASSUME todo # <<>>, Forward(TRUE), ended' = ended, pc'["collector"] = "idle",
             seen' \subseteq seen \cup {Head(todo)}
      PROVE  TodoInv'
  <2>1. /\ Head(todo) = todo[1] /\ submitted'
        /\ (Len(todo) = 1 /\ todo' = <<>>) \/ (Len(todo) = 2 /\ Len(todo') = 1 /\ todo'[1] = todo[2])
    BY <1>0, <1>f, ForwardEffect
  <2>2. CASE Len(todo) = 1 /\ todo' = <<>>
    <3>1. ~ ended => \A k \in seen' : ~ Final(k)
      BY <1>0, <1>f, <2>1, <2>2 DEF TodoInv
    <3>2. Len(todo') = 0
      BY <2>2, EmptySeq
    <3> QED BY <1>f, <2>2, <3>1, <3>2 DEF TodoInv
  <2>3. CASE Len(todo) = 2 /\ Len(todo') = 1 /\ todo'[1] = todo[2]
    <3>1. \A k \in seen' : ~ Final(k)
      BY <1>0, <1>f, <2>1, <2>3, SubmittedChunk DEF TodoInv
    <3>2. ended <=> Final(todo[2])
      BY <1>0, <1>f, <2>3 DEF TodoInv
    <3> QED BY <1>f, <2>1, <2>3, <3>1, <3>2 DEF TodoInv
  <2> QED BY <2>1, <2>2, <2>3
<1>1. CASE UNCHANGED <<head, stream, pc, ups>>
  BY <1>1, <1>u DEF stream, relay
<1>2. ASSUME NEW k \in ChunkKinds, Receive(k) PROVE TodoInv'
  <2>1. /\ ~ ended /\ todo = <<>> /\ pc' = pc /\ seen' = seen /\ submitted' = submitted
        /\ todo' = IF submitted THEN <<k>> ELSE <<<<"SUBMITTED">>, k>>
        /\ ended' = Final(k)
    BY <1>2 DEF Receive, writers, Final
  <2>2. pc'["collector"] = "idle" /\ \A c \in seen' : ~ Final(c)
    BY <1>0, <1>t, <2>1 DEF TodoInv
  <2>3. CASE submitted
    <3>1. Len(todo') = 1 /\ todo'[Len(todo')] = k
      BY <2>1, <2>3
    <3> QED BY <2>1, <2>2, <2>3, <3>1 DEF TodoInv
  <2>4. CASE ~ submitted
    <3>1. Len(todo') = 2 /\ todo'[Len(todo')] = k /\ todo'[1] = <<"SUBMITTED">>
      BY <2>1, <2>4
    <3> QED BY <2>1, <2>2, <2>4, <3>1 DEF TodoInv
  <2> QED BY <2>3, <2>4
<1>3. CASE StoreResult
  <2>1. /\ UNCHANGED <<todo, submitted, seen, ended>> /\ ups'["collector"] = Head(todo) /\ todo # <<>>
    BY <1>3, <1>t DEF StoreResult, stream, relay
  <2>2. Head(todo) = todo[1]
    BY <1>t, <2>1
  <2> QED BY <1>0, <2>1, <2>2 DEF TodoInv
<1>4. CASE SkipDuplicate
  <2>1. UNCHANGED <<pc, seen>> /\ pc["collector"] = "idle" /\ todo # <<>> /\ Forward(TRUE)
    BY <1>4 DEF SkipDuplicate, writers
  <2>2. ended' = ended
    BY <1>0, <2>1, ForwardEffect
  <2> QED BY <2>1, <2>2, <1>f
<1>5. CASE DrainStore
  BY <1>5, <1>t, <1>u DEF DrainStore, stream, relay
<1>6. ASSUME NEW w \in {"collector", "drain"}, Moves(w) PROVE TodoInv'
  BY <1>6, <1>t, <1>u DEF Moves, stream, relay
<1>7. CASE Advances("drain")
  <2>1. /\ pc'["collector"] = pc["collector"] /\ ups'["collector"] = ups["collector"]
        /\ UNCHANGED <<todo, submitted, seen, ended>>
    BY <1>7, <1>t, AdvanceOthers DEF Advances, Finish, relay
  <2> QED BY <2>1, <1>u
<1>8. CASE Advances("collector")
  <2>1. pc["collector"] # "idle" /\ ended' = ended /\ todo # <<>>
    BY <1>8, <1>t DEF Advances
  <2>2. CASE Len(ups["collector"]) > 1 /\ UNCHANGED relay
    <3>0. Len(ups["collector"]) > 1 /\ Calm
      BY <1>0, <2>2
    <3>1. Len(todo) # 2
      <4>1. CASE Len(todo) = 2
        <5>1. ups["collector"] = <<"SUBMITTED">>
          BY <2>1, <3>0, <4>1 DEF TodoInv
        <5>2. Len(ups["collector"]) = 1
          BY <5>1
        <5> QED BY <3>0, <5>2
      <4> QED BY <4>1
    <3>2. UNCHANGED <<todo, submitted, seen, ended>>
      BY <2>2 DEF relay
    <3> QED BY <1>0, <2>1, <3>1, <3>2 DEF TodoInv
  <2>3. CASE pc'["collector"] = "idle" /\ Finish("collector", TRUE)
    BY <2>1, <2>3, <1>f DEF Finish
  <2> QED BY <1>8, <1>t, <2>2, <2>3, AdvanceOthers DEF Advances
<1> QED BY <1>0, <1>1, <1>2, <1>3, <1>4, <1>5, <1>6, <1>7, <1>8

\* What is stored is stored for a task that was submitted.
LEMMA HeadSet ==
    ASSUME TypeInv, TodoInv, SubmitInv, Calm, Len(todo) = 1 \/ forwarded # <<>>
    PROVE  head \in Statuses
  BY DEF TodoInv, SubmitInv, TypeInv, TypeOK

\* Every step keeps back what comes after the submission.
LEMMA SubmitStep ==
    ASSUME TypeInv, SettleInv, TodoInv, SubmitInv, [Next]_vars
    PROVE  SubmitInv'
<1> SUFFICES ASSUME Calm', head' = "NONE" PROVE SubmitInv'
  BY DEF SubmitInv
<1>0. /\ Calm
      /\ \/ UNCHANGED <<head, stream, pc, ups>>
         \/ \E k \in ChunkKinds : Receive(k)
         \/ StoreResult \/ SkipDuplicate \/ DrainStore
         \/ \E w \in {"collector", "drain"} : Moves(w) \/ Advances(w)
  BY CalmStep
<1>t. /\ todo \in Seq(Chunks) /\ "collector" \in Writers /\ "drain" \in Writers
      /\ pc \in [Writers -> {"idle", "apply", "commit", "send", "retire"}]
      /\ pc["collector"] # "idle" => todo # <<>>
      /\ pc["drain"] # "idle" => forwarded # <<>>
  BY DEF TypeInv, TypeOK, WorkInv, Writers
<1>n. "NONE" \notin Statuses
  BY DEF Statuses, Terminal
<1>s. ASSUME head = "NONE", pc["collector"] # "idle"
      PROVE  Update("collector") = "SUBMITTED" /\ pc["collector"] \in {"apply", "commit"}
  <2>1. Len(todo) = 2
    BY <1>0, <1>t, <1>s, EmptySeq DEF TodoInv, SubmitInv
  <2>2. ups["collector"] = <<"SUBMITTED">>
    BY <1>0, <1>s, <2>1 DEF TodoInv
  <2> QED BY <1>0, <1>s, <2>2 DEF Update, SubmitInv
<1>1. CASE UNCHANGED <<head, stream, pc, ups>>
  BY <1>0, <1>1 DEF SubmitInv, stream, relay
<1>2. ASSUME NEW k \in ChunkKinds, Receive(k) PROVE SubmitInv'
  BY <1>0, <1>2 DEF SubmitInv, Receive, store, writers
<1>3. CASE StoreResult
  BY <1>0, <1>3, <1>t DEF SubmitInv, StoreResult, store, stream, relay
<1>4. CASE SkipDuplicate
  BY <1>0, <1>4 DEF SubmitInv, SkipDuplicate, store
<1>5. CASE DrainStore
  BY <1>0, <1>5 DEF SubmitInv, DrainStore, store
<1>6. ASSUME NEW w \in {"collector", "drain"}, Moves(w) PROVE SubmitInv'
  <2>1. head = "NONE" /\ pc[w] # "idle" /\ UNCHANGED stream
    BY <1>6, <1>n DEF Moves
  <2>2. w = "collector"
    BY <1>0, <1>t, <2>1 DEF SubmitInv
  <2>3. Update(w) = "SUBMITTED" /\ pc[w] \in {"apply", "commit"}
    BY <2>1, <2>2, <1>s
  <2>4. pc[w] # "commit"
    BY <1>6, <2>3 DEF Moves, Statuses
  <2>5. pc'["collector"] = "commit"
    BY <1>6, <1>t, <2>2, <2>3, <2>4 DEF Moves
  <2> QED BY <1>0, <2>1, <2>5 DEF SubmitInv, stream, relay
<1>7. ASSUME NEW w \in {"collector", "drain"}, Advances(w) PROVE FALSE
  <2>1. head = "NONE" /\ pc[w] # "idle"
    BY <1>7 DEF Advances
  <2>2. w = "collector"
    BY <1>0, <1>t, <2>1 DEF SubmitInv
  <2>3. Update(w) = "SUBMITTED" /\ pc[w] \in {"apply", "commit"}
    BY <2>1, <2>2, <1>s
  <2>4. Update(w) \in Statuses /\ Allowed(Update(w))
    BY <2>1, <2>3 DEF Statuses, Allowed
  <2> QED BY <1>7, <2>3, <2>4 DEF Advances
<1> QED BY <1>0, <1>1, <1>2, <1>3, <1>4, <1>5, <1>6, <1>7

\* The update that ends a stream is the first one or among the others.
LEMMA FinalTail ==
    ASSUME NEW q \in Seq(Updates), q # <<>>, Final(q), Head(q) \notin {"COMPLETED", "FAILED"}
    PROVE  Len(q) > 1 /\ Final(Tail(q))
<1>1. PICK i \in DOMAIN q : q[i] \in {"COMPLETED", "FAILED"}
  BY DEF Final
<1>2. i \in 1 .. Len(q) /\ Len(q) \in Nat /\ Head(q) = q[1]
  OBVIOUS
<1>3. i # 1
  BY <1>1, <1>2
<1>4. Len(q) > 1 /\ i - 1 \in 1 .. Len(q) - 1
  BY <1>2, <1>3
<1>5. DOMAIN Tail(q) = 1 .. Len(q) - 1 /\ Tail(q)[i - 1] = q[i]
  BY <1>2, <1>4
<1> QED BY <1>1, <1>4, <1>5 DEF Final

\* A last update ends the stream, or nothing does.
LEMMA NothingLeft ==
    ASSUME NEW q \in Seq(Updates), Len(q) = 1
    PROVE  ~ Final(Tail(q))
<1>1. DOMAIN Tail(q) = {}
  OBVIOUS
<1> QED BY <1>1 DEF Final

\* A task that is not terminal can be completed and can fail.
LEMMA EndAllowed ==
    ASSUME head \in Statuses \ Terminal, NEW u \in {"COMPLETED", "FAILED"}
    PROVE  Allowed(u)
  BY DEF Allowed, is_allowed_transition, Statuses, Terminal

\* The writer that settles the task goes on with the update in hand.
LEMMA SettlingMoves ==
    ASSUME TypeInv, NEW w \in Writers, Moves(w), Settling(w)
    PROVE  Settling(w)'
<1>t. /\ ups[w] \in Seq(Updates) /\ ups[w] # <<>> /\ ups' = ups
      /\ pc \in [Writers -> {"idle", "apply", "commit", "send", "retire"}]
  BY DEF TypeInv, TypeOK, WorkInv, Moves
<1>u. Update(w)' = Update(w)
  BY <1>t DEF Update
<1>1. CASE pc[w] = "apply" /\ Allowed(Update(w)) /\ head' = head /\ pc'[w] = "commit"
  <2>1. Uncommitted(w)' = Uncommitted(w)
    BY <1>t, <1>1 DEF Uncommitted
  <2>2. Update(w) \in Statuses => head \notin Terminal
    BY <1>1 DEF Allowed, Terminal
  <2> QED BY <1>1, <1>u, <2>1, <2>2 DEF Settling
<1>2. CASE /\ pc[w] = "commit" /\ head' = (IF Update(w) \in Statuses THEN Update(w) ELSE head)
           /\ pc'[w] = "send"
  <2>1. Uncommitted(w) = ups[w] /\ Uncommitted(w)' = Tail(ups[w])
    BY <1>t, <1>2 DEF Uncommitted
  <2>2. CASE head \in Terminal
    BY <1>2, <2>2 DEF Settling
  <2>3. CASE head \notin Terminal /\ Update(w) \in {"COMPLETED", "FAILED"}
    BY <1>2, <2>3 DEF Settling, Statuses, Terminal
  <2>4. CASE head \notin Terminal /\ Update(w) \notin {"COMPLETED", "FAILED"}
    <3>1. Final(Tail(ups[w]))
      BY <1>t, <2>1, <2>4, FinalTail DEF Settling, Update
    <3> QED BY <1>2, <2>1, <3>1 DEF Settling
  <2> QED BY <2>2, <2>3, <2>4
<1>3. CASE pc[w] = "send" /\ head' = head /\ pc'[w] = "retire"
  <2>1. Uncommitted(w)' = Uncommitted(w)
    BY <1>t, <1>3 DEF Uncommitted
  <2> QED BY <1>3, <2>1 DEF Settling
<1> QED BY <1>t, <1>1, <1>2, <1>3 DEF Moves

\* It is done with an update.
LEMMA SettlingAdvances ==
    ASSUME TypeInv, NEW w \in Writers, Advances(w), Settling(w), head \in Statuses
    PROVE  /\ Len(ups[w]) > 1 => Settling(w)'
           /\ Len(ups[w]) = 1 => head' \in Terminal
<1>t. ups[w] \in Seq(Updates) /\ ups[w] # <<>> /\ head' = head
  BY DEF TypeInv, TypeOK, WorkInv, Advances
<1>l. Len(ups[w]) \in Nat
  BY <1>t, LenProperties
<1>m. Len(ups[w]) > 1 => Len(ups[w]) # 1
  <2>1. \A n \in Nat : n > 1 => n # 1
    OBVIOUS
  <2> QED BY <1>l, <2>1, Zenon
<1>a. /\ ups'[w] = Tail(ups[w])
      /\ Len(ups[w]) > 1 => pc'[w] = "apply"
  BY <1>m, AdvanceOthers, Zenon DEF Advances
<1>1. CASE head \in Terminal
  BY <1>1, <1>t, <1>a DEF Settling
<1>2. CASE head \notin Terminal
  <2>1. Final(Uncommitted(w))
    BY <1>2 DEF Settling
  <2>2. Len(ups[w]) # 1 /\ Final(Tail(ups[w]))
    <3>1. CASE pc[w] \in {"send", "retire"}
      <4>1. Final(Tail(ups[w]))
        BY <2>1, <3>1 DEF Uncommitted
      <4> QED BY <1>t, <4>1, NothingLeft
    <3>2. CASE pc[w] \notin {"send", "retire"}
      <4>1. Final(ups[w])
        BY <2>1, <3>2 DEF Uncommitted
      <4>2. Update(w) \notin {"COMPLETED", "FAILED"}
        BY <1>2, <3>2, EndAllowed DEF Advances, Statuses, Terminal
      <4>3. Len(ups[w]) > 1 /\ Final(Tail(ups[w]))
        BY <1>t, <4>1, <4>2, FinalTail DEF Update
      <4> QED BY <1>m, <4>3, Zenon
    <3> QED BY <3>1, <3>2
  <2>3. Len(ups[w]) > 1 => Uncommitted(w)' = Tail(ups[w])
    BY <1>a DEF Uncommitted
  <2> QED BY <1>a, <2>2, <2>3 DEF Settling
<1> QED BY <1>1, <1>2

\* A queue loses its first chunk.
LEMMA LastKept ==
    ASSUME NEW q \in Seq(Chunks), q # <<>>
    PROVE  /\ Tail(q) # <<>> => Tail(q)[Len(Tail(q))] = q[Len(q)]
           /\ Tail(q) = <<>> => Len(q) = 1
<1>1. Len(q) \in Nat \ {0} /\ Len(Tail(q)) = Len(q) - 1 /\ Tail(q) \in Seq(Chunks)
  OBVIOUS
<1>2. \A i \in 1 .. Len(q) - 1 : Tail(q)[i] = q[i + 1]
  OBVIOUS
<1>3. Tail(q) # <<>> => Len(q) - 1 \in 1 .. Len(q) - 1
  BY <1>1, EmptySeq
<1>4. Tail(q) # <<>> => Tail(q)[Len(Tail(q))] = q[Len(q)]
  BY <1>1, <1>2, <1>3
<1>5. Tail(q) = <<>> => Len(q) = 1
  BY <1>1, EmptySeq
<1> QED BY <1>4, <1>5

\* A writer at work that leaves the stream as it is: the other one does not end it.
LEMMA WriterSettles ==
    ASSUME TypeInv, SettleInv, Calm, NEW w \in {"collector", "drain"}, pc[w] # "idle",
           UNCHANGED <<live, todo, forwarded, ended>>, pc'["auto"] = pc["auto"],
           ended /\ Sole(w) => Settling(w)'
    PROVE  SettleInv'
<1>1. /\ pc["collector"] # "idle" => todo # <<>>
      /\ pc["drain"] # "idle" => forwarded # <<>>
      /\ Len(<<>>) = 0
  BY EmptySeq DEF TypeInv, WorkInv
<1>2. \A v \in {"collector", "drain"} : Sole(v)' => Sole(v)
  BY DEF Sole
<1>3. \A v \in {"collector", "drain"} : Sole(v) => v = w
  <2>1. CASE w = "collector"
    BY <1>1, <2>1 DEF Sole
  <2>2. CASE w = "drain"
    BY <1>1, <2>2 DEF Sole, SettleInv
  <2> QED BY <2>1, <2>2
<1>4. ended' => \A v \in {"collector", "drain"} : Sole(v)' /\ pc'[v] # "idle" => Settling(v)'
  BY <1>2, <1>3
<1>5. ~ (todo = <<>> /\ forwarded = <<>>)
  BY <1>1
<1> QED BY <1>4, <1>5 DEF SettleInv

\* Every step keeps the writer that settles the task on its way.
LEMMA SettleStep ==
    ASSUME TypeInv, SettleInv, TodoInv, SubmitInv, [Next]_vars
    PROVE  SettleInv'
<1> SUFFICES ASSUME Calm' PROVE SettleInv'
  BY DEF SettleInv
<1>0. /\ Calm
      /\ \/ UNCHANGED <<head, stream, pc, ups>>
         \/ \E k \in ChunkKinds : Receive(k)
         \/ StoreResult \/ SkipDuplicate \/ DrainStore
         \/ \E w \in {"collector", "drain"} : Moves(w) \/ Advances(w)
  BY CalmStep
<1>t. /\ todo \in Seq(Chunks) /\ forwarded \in Seq(Chunks)
      /\ "collector" \in Writers /\ "drain" \in Writers /\ "auto" \in Writers
      /\ pc \in [Writers -> {"idle", "apply", "commit", "send", "retire"}]
      /\ ups \in [Writers -> Seq(Updates)]
      /\ pc["collector"] # "idle" => todo # <<>>
      /\ pc["drain"] # "idle" => forwarded # <<>>
  BY DEF TypeInv, TypeOK, WorkInv, Writers
<1>e. Len(<<>>) = 0
  BY EmptySeq
<1>h. ASSUME NEW w \in {"collector", "drain"}, Sole(w) PROVE head \in Statuses
  BY <1>0, <1>h, <1>e, HeadSet DEF Sole
<1>1. CASE UNCHANGED <<head, stream, pc, ups>>
  <2>1. \A w \in {"collector", "drain"} : Sole(w)' = Sole(w) /\ Settling(w)' = Settling(w)
    BY <1>1 DEF Sole, Settling, Uncommitted, Update, stream, relay
  <2> QED BY <1>0, <1>1, <2>1 DEF SettleInv, stream, relay
<1>2. ASSUME NEW k \in ChunkKinds, Receive(k) PROVE SettleInv'
  <2>1. /\ todo = <<>> /\ todo' # <<>> /\ UNCHANGED <<live, forwarded, pc>>
    BY <1>2 DEF Receive, writers
  <2>2. pc'["collector"] = "idle" /\ ~ Sole("drain")'
    BY <1>t, <2>1 DEF Sole
  <2> QED BY <1>0, <2>1, <2>2 DEF SettleInv
<1>3. CASE StoreResult
  <2>1. /\ UNCHANGED <<head, live, todo, forwarded, ended>> /\ todo # <<>>
        /\ pc'["collector"] = "apply" /\ ups'["collector"] = Head(todo)
        /\ \A v \in Writers \ {"collector"} : pc'[v] = pc[v] /\ ups'[v] = ups[v]
    BY <1>3, <1>t DEF StoreResult, store, stream, relay
  <2>2. ASSUME ended, Sole("collector") PROVE Settling("collector")'
    <3>1. Len(todo) = 1 /\ Final(todo[Len(todo)])
      BY <1>0, <2>1, <2>2 DEF TodoInv, Sole
    <3>2. Head(todo) = todo[1]
      BY <1>t, <2>1
    <3>3. Final(Head(todo))
      BY <3>1, <3>2
    <3> QED BY <2>1, <3>3 DEF Settling, Uncommitted
  <2>3. Settling("drain")' = Settling("drain") /\ \A w \in {"collector", "drain"} : Sole(w)' = Sole(w)
    BY <1>t, <2>1 DEF Settling, Uncommitted, Update, Sole
  <2>4. ended' => \A w \in {"collector", "drain"} : Sole(w)' /\ pc'[w] # "idle" => Settling(w)'
    BY <1>0, <1>t, <2>1, <2>2, <2>3 DEF SettleInv
  <2> QED BY <1>0, <1>t, <2>1, <2>4 DEF SettleInv
<1>4. CASE SkipDuplicate
  <2>1. /\ UNCHANGED <<live, pc>> /\ pc["collector"] = "idle"
        /\ todo # <<>> /\ Head(todo) \in seen /\ Forward(TRUE)
    BY <1>4 DEF SkipDuplicate, writers
  <2>2. /\ Head(todo) = todo[1] /\ ended' = ended
        /\ (Len(todo) = 1 /\ todo' = <<>>) \/ (Len(todo) = 2 /\ Len(todo') = 1 /\ todo'[1] = todo[2])
        /\ ~ live => forwarded' = forwarded
    BY <1>0, <2>1, ForwardEffect
  <2>3. ~ Final(todo[1])
    BY <1>0, <2>1, <2>2 DEF TodoInv
  <2>4. ~ ended' \/ todo' # <<>>
    BY <1>0, <1>e, <2>1, <2>2, <2>3 DEF TodoInv
  <2>5. ~ ended' \/ ~ Sole("drain")'
    BY <2>4 DEF Sole
  <2> QED BY <1>0, <2>1, <2>2, <2>4, <2>5 DEF SettleInv
<1>5. CASE DrainStore
  <2>1. /\ UNCHANGED <<head, live, todo, forwarded, ended>> /\ forwarded # <<>>
        /\ pc'["drain"] = "apply" /\ ups'["drain"] = Head(forwarded)
        /\ \A v \in Writers \ {"drain"} : pc'[v] = pc[v] /\ ups'[v] = ups[v]
    BY <1>5, <1>t DEF DrainStore, store, stream, relay
  <2>2. ASSUME ended, Sole("drain") PROVE Settling("drain")'
    <3>1. Len(forwarded) = 1 /\ Final(forwarded[Len(forwarded)])
      BY <1>0, <2>1, <2>2 DEF SettleInv, Sole
    <3>2. Head(forwarded) = forwarded[1]
      BY <1>t, <2>1
    <3>3. Final(Head(forwarded))
      BY <3>1, <3>2
    <3> QED BY <2>1, <3>3 DEF Settling, Uncommitted
  <2>3. Settling("collector")' = Settling("collector") /\ \A w \in {"collector", "drain"} : Sole(w)' = Sole(w)
    BY <1>t, <2>1 DEF Settling, Uncommitted, Update, Sole
  <2>4. ended' => \A w \in {"collector", "drain"} : Sole(w)' /\ pc'[w] # "idle" => Settling(w)'
    BY <1>0, <1>t, <2>1, <2>2, <2>3 DEF SettleInv
  <2> QED BY <1>0, <1>t, <2>1, <2>4 DEF SettleInv
<1>6. ASSUME NEW w \in {"collector", "drain"}, Moves(w) PROVE SettleInv'
  <2>1. pc[w] # "idle" /\ UNCHANGED <<live, todo, forwarded, ended>>
    BY <1>6 DEF Moves, stream, relay
  <2>2. pc'["auto"] = pc["auto"]
    BY <1>6, <1>t DEF Moves
  <2>3. ended /\ Sole(w) => Settling(w)'
    BY <1>0, <1>6, <1>t, <2>1, SettlingMoves DEF SettleInv
  <2> QED BY <1>0, <2>1, <2>2, <2>3, WriterSettles
<1>7. ASSUME NEW w \in {"collector", "drain"}, Advances(w) PROVE SettleInv'
  <2>0. /\ w \in Writers /\ w # "auto" /\ Advance(w) /\ pc[w] # "idle" /\ UNCHANGED <<head, live, ended>>
        /\ Len(ups[w]) \in Nat
    BY <1>7, <1>t, LenProperties DEF Advances
  <2>1. /\ \A v \in Writers \ {w} : pc'[v] = pc[v] /\ ups'[v] = ups[v]
        /\ \/ Len(ups[w]) > 1 /\ pc'[w] = "apply" /\ UNCHANGED relay
           \/ Len(ups[w]) = 1 /\ pc'[w] = "idle" /\ Finish(w, TRUE)
    BY <2>0, AdvanceOthers
  <2>2. ASSUME ended, Sole(w)
        PROVE  (Len(ups[w]) > 1 => Settling(w)') /\ (Len(ups[w]) = 1 => head' \in Terminal)
    <3>1. Settling(w) /\ head \in Statuses
      BY <1>0, <1>h, <2>0, <2>2 DEF SettleInv
    <3> QED BY <1>7, <2>0, <3>1, SettlingAdvances
  <2>3. CASE Len(ups[w]) > 1 /\ UNCHANGED relay
    BY <1>0, <1>t, <2>0, <2>1, <2>2, <2>3, WriterSettles DEF relay
  <2>4. CASE w = "drain" /\ Len(ups[w]) = 1 /\ pc'[w] = "idle" /\ Finish(w, TRUE)
    <3>1. forwarded' = Tail(forwarded) /\ todo' = todo
      <4>1. ~ gone'
        BY DEF Calm
      <4> QED BY <2>4, <4>1 DEF Finish
    <3>2. live /\ forwarded # <<>>
      BY <1>0, <1>t, <2>0, <2>4 DEF SettleInv
    <3>3. /\ Tail(forwarded) # <<>> => Tail(forwarded)[Len(Tail(forwarded))] = forwarded[Len(forwarded)]
          /\ Tail(forwarded) = <<>> => Len(forwarded) = 1
      BY <1>t, <3>2, LastKept
    <3>4. ended' /\ todo' = <<>> /\ forwarded' = <<>> => head' \in Terminal
      BY <2>0, <2>2, <2>4, <3>1, <3>2, <3>3 DEF Sole
    <3>5. ended' /\ todo' = <<>> /\ forwarded' # <<>> => Final(forwarded'[Len(forwarded')])
      BY <1>0, <2>0, <3>1, <3>2, <3>3 DEF SettleInv
    <3>6. ~ Sole("collector")'
      BY <2>0, <3>2 DEF Sole
    <3> QED BY <1>0, <1>t, <2>0, <2>1, <2>4, <3>2, <3>4, <3>5, <3>6 DEF SettleInv
  <2>5. CASE w = "collector" /\ Len(ups[w]) = 1 /\ pc'[w] = "idle" /\ Finish(w, TRUE)
    <3>1. Forward(TRUE) /\ todo # <<>>
      BY <1>t, <2>0, <2>5 DEF Finish
    <3>2. /\ (Len(todo) = 1 /\ todo' = <<>>) \/ (Len(todo) = 2 /\ Len(todo') = 1 /\ todo'[1] = todo[2])
          /\ IF live THEN /\ forwarded' # <<>> /\ forwarded'[Len(forwarded')] = todo[1]
                          /\ Len(forwarded') = 1 => forwarded = <<>>
             ELSE forwarded' = forwarded
      BY <1>0, <3>1, ForwardEffect
    <3>3. CASE todo' # <<>>
      <4>1. ~ Sole("drain")'
        BY <3>3 DEF Sole
      <4> QED BY <1>0, <1>t, <2>0, <2>1, <2>5, <3>2, <3>3, <4>1 DEF SettleInv
    <3>4. CASE todo' = <<>>
      <4>1. Len(todo) = 1
        BY <1>e, <3>2, <3>4
      <4>2. ended => Final(todo[1])
        BY <1>0, <3>1, <4>1 DEF TodoInv
      <4>3. CASE live
        <5>1. Sole("drain")' => pc'["drain"] = "idle"
          BY <1>t, <2>1, <2>5, <3>2, <4>3 DEF Sole
        <5> QED BY <1>0, <1>t, <2>0, <2>1, <2>5, <3>2, <3>4, <4>2, <4>3, <5>1 DEF SettleInv
      <4>4. CASE ~ live
        <5>1. forwarded' = <<>> /\ ~ Sole("drain")'
          BY <1>0, <2>0, <3>2, <4>4 DEF SettleInv, Sole
        <5>2. ended => head' \in Terminal
          BY <2>2, <2>5, <4>1, <4>4 DEF Sole
        <5> QED BY <1>0, <1>t, <2>0, <2>1, <2>5, <5>1, <5>2 DEF SettleInv
      <4> QED BY <4>3, <4>4
    <3> QED BY <3>3, <3>4
  <2> QED BY <2>1, <2>3, <2>4, <2>5
<1> QED BY <1>0, <1>1, <1>2, <1>3, <1>4, <1>5, <1>6, <1>7

\* Nothing is stored at the start.
LEMMA InitSettle == Init => TodoInv /\ SubmitInv /\ SettleInv
<1> SUFFICES ASSUME Init PROVE TodoInv /\ SubmitInv /\ SettleInv
  OBVIOUS
<1>1. Len(todo) = 0 /\ \A w \in Writers : pc[w] = "idle"
  BY EmptySeq DEF Init
<1> QED BY <1>1 DEF Init, TodoInv, SubmitInv, SettleInv, Writers

\* A stream that ended with COMPLETED or FAILED leaves the task terminal once every chunk was
\* stored, however the collector and the drain of the live session are interleaved, unless the
\* drain stopped before it because its client was lost (a2a_store.rs: the gate of
\* record_status_update; stream_collector.rs; a2a_transport.rs: the drain).
THEOREM DrainLeavesTerminal == Spec => []DrainSettles
<1>1. Init => TypeInv /\ TodoInv /\ SubmitInv /\ SettleInv
  BY InitType, InitSettle
<1>2. TypeInv /\ TodoInv /\ SubmitInv /\ SettleInv /\ [Next]_vars
          => (TypeInv /\ TodoInv /\ SubmitInv /\ SettleInv)'
  BY TypeStep, TodoStep, SubmitStep, SettleStep
<1>3. TypeInv /\ TodoInv /\ SubmitInv /\ SettleInv => DrainSettles
  BY DEF SettleInv, Calm, DrainSettles
<1> QED BY <1>1, <1>2, <1>3, PTL DEF Spec
=============================================================================
