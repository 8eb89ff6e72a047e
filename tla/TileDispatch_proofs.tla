------------------------- MODULE TileDispatch_proofs -------------------------
(* Theorems about TileDispatch for every set of workers, number of tiles,     *)
(* retry limit and set of events.                                             *)
EXTENDS TileDispatch, TLAPS

-----------------------------------------------------------------------------
(* The operators on the dispatch tables return dispatch tables. *)

LEMMA DecType == \A n \in Nat : Dec(n) \in Nat
BY DEF Dec

LEMMA TransmitType ==
    ASSUME NEW d \in DispatchState, NEW x \in Targets, NEW job \in Jobs
    PROVE  Transmit(d, x, job) \in DispatchState
<1>1. CASE x = MASTER
    <2>1. Append(d.tasks, job) \in Seq(Jobs)
        BY DEF DispatchState
    <2> QED BY <1>1, <2>1 DEF Transmit, DispatchState
<1>2. CASE x # MASTER
    <2>1. x \in Workers
        BY <1>2 DEF Targets
    <2>2. Append(d.sends[x], job) \in Seq(Jobs)
        BY <2>1 DEF DispatchState
    <2> QED BY <1>2, <2>1, <2>2 DEF Transmit, DispatchState
<1> QED BY <1>1, <1>2

LEMMA HandOutType ==
    ASSUME NEW d \in DispatchState, NEW x \in Targets, NEW job \in Jobs,
           d.queue # << >>
    PROVE  HandOut(d, x, job) \in DispatchState
<1> DEFINE e == [d EXCEPT !.queue = Tail(@),
                          !.pending[job.tile] = job.render,
                          !.owner[job.tile] = x,
                          !.inflight[x] = @ + 1]
<1>1. Tail(d.queue) \in Seq(Jobs)
    BY DEF DispatchState
<1>2. job.tile \in Tiles /\ job.render \in 0..MaxRenders
    BY DispatchAssumption DEF Jobs, Renders
<1>3. /\ [d.pending EXCEPT ![job.tile] = job.render] \in [Tiles -> 0..MaxRenders]
      /\ [d.owner EXCEPT ![job.tile] = x] \in [Tiles -> Owners]
      /\ [d.inflight EXCEPT ![x] = @ + 1] \in [Targets -> Nat]
    BY <1>2 DEF DispatchState, Owners
<1>4. e \in DispatchState
    BY <1>1, <1>3 DEF DispatchState
<1> QED BY <1>4, TransmitType DEF HandOut

LEMMA DispatchType ==
    ASSUME NEW d \in DispatchState, NEW x \in Targets
    PROVE  Dispatch(d, x) \in DispatchState
<1> DEFINE u == [d EXCEPT !.defer = @ /\ x # MASTER]
<1>1. u \in DispatchState /\ u.queue = d.queue
    BY DEF DispatchState
<1>2. d.queue # << >> => Head(d.queue) \in Jobs
    BY DEF DispatchState
<1> QED BY <1>1, <1>2, HandOutType DEF Dispatch

LEMMA ReleasedType ==
    ASSUME NEW d \in DispatchState, NEW t \in Tiles
    PROVE  Released(d, t) \in DispatchState
<1>1. CASE d.owner[t] = NoOwner
    BY <1>1 DEF Released
<1>2. CASE d.owner[t] # NoOwner
    <2> DEFINE x == d.owner[t]
    <2>1. x \in Targets
        BY <1>2 DEF DispatchState, Owners
    <2>2. Dec(d.inflight[x]) \in Nat
        BY <2>1, DecType DEF DispatchState
    <2>3. [d.inflight EXCEPT ![x] = Dec(@)] \in [Targets -> Nat]
        BY <2>1, <2>2 DEF DispatchState
    <2> QED BY <1>2, <2>3 DEF Released, DispatchState
<1> QED BY <1>1, <1>2

LEMMA ReassignTileType ==
    ASSUME NEW d \in DispatchState, NEW t \in Tiles, NEW e \in ReassignTile(d, t)
    PROVE  e \in DispatchState
<1> DEFINE r == Released(d, t)
           u == [r EXCEPT !.attempts[t] = @ + 1]
           best == LeastLoaded(u, Candidates(d, d.owner[t]))
           Given(x) == [u EXCEPT !.owner[t] = x, !.inflight[x] = @ + 1]
<1>1. r \in DispatchState
    BY ReleasedType
<1>2. [r.attempts EXCEPT ![t] = @ + 1] \in [Tiles -> Nat]
    BY <1>1 DEF DispatchState
<1>3. u \in DispatchState
    BY <1>1, <1>2 DEF DispatchState
<1>4. best \subseteq Targets
    BY DEF LeastLoaded, Foremost, Candidates, DispatchState, Targets
<1>5. ASSUME NEW x \in best PROVE Given(x) \in DispatchState
    <2>1. x \in Targets
        BY <1>4
    <2> HIDE DEF u
    <2>2. /\ [u.owner EXCEPT ![t] = x] \in [Tiles -> Owners]
          /\ [u.inflight EXCEPT ![x] = @ + 1] \in [Targets -> Nat]
        BY <1>3, <2>1 DEF DispatchState, Owners
    <2> QED BY <1>3, <2>2 DEF DispatchState
<1>6. d.pending[t] # 0 => JobOf(d.pending[t], t) \in Jobs
    BY DispatchAssumption DEF DispatchState, Jobs, JobOf, Renders
<1>7. CASE e \in {d, u}
    BY <1>3, <1>7
<1>8. CASE d.pending[t] # 0
           /\ \E x \in best : e = Transmit(Given(x), x, JobOf(d.pending[t], t))
    BY <1>4, <1>5, <1>6, <1>8, TransmitType
<1> QED BY <1>7, <1>8 DEF ReassignTile

LEMMA RetryOrRequeueType ==
    ASSUME NEW d \in DispatchState, NEW job \in Jobs, NEW e \in RetryOrRequeue(d, job)
    PROVE  e \in DispatchState
<1> DEFINE r == Released(d, job.tile)
           u == [r EXCEPT !.owner[job.tile] = NoOwner, !.send_attempts[job] = @ + 1]
           v == [u EXCEPT !.queue = <<job>> \o @]
           w == [u EXCEPT !.pending[job.tile] = 0]
           idle == {x \in v.targets : Idle(v, x)}
<1>1. job.tile \in Tiles
    BY DEF Jobs
<1>2. r \in DispatchState
    BY <1>1, ReleasedType
<1>3. /\ [r.owner EXCEPT ![job.tile] = NoOwner] \in [Tiles -> Owners]
      /\ [r.send_attempts EXCEPT ![job] = @ + 1] \in [Jobs -> Nat]
    BY <1>1, <1>2 DEF DispatchState, Owners
<1>4. u \in DispatchState
    BY <1>2, <1>3 DEF DispatchState
<1>5. v \in DispatchState
    <2> HIDE DEF u
    <2>1. u.queue \in Seq(Jobs) /\ <<job>> \in Seq(Jobs)
        BY <1>4 DEF DispatchState
    <2>2. <<job>> \o u.queue \in Seq(Jobs)
        BY <2>1
    <2> QED BY <1>4, <2>2 DEF DispatchState
<1>6. w \in DispatchState
    <2> HIDE DEF u
    <2>1. [u.pending EXCEPT ![job.tile] = 0] \in [Tiles -> 0..MaxRenders]
        BY <1>1, <1>4, DispatchAssumption DEF DispatchState
    <2> QED BY <1>4, <2>1 DEF DispatchState
<1>7. Foremost(idle) \subseteq Targets
    BY <1>5 DEF Foremost, DispatchState
<1>8. e \in {v, w} \/ \E x \in Foremost(idle) : e = Dispatch(v, x)
    BY DEF RetryOrRequeue
<1> QED BY <1>5, <1>6, <1>7, <1>8, DispatchType

LEMMA ClearedTablesType ==
    ASSUME s \in DispatchState, NEW T \in SUBSET Targets, NEW q \in Seq(Jobs)
    PROVE  ClearedTables(T, q) \in DispatchState
<1>1. /\ [t \in Tiles |-> 0] \in [Tiles -> 0..MaxRenders]
      /\ [t \in Tiles |-> NoOwner] \in [Tiles -> Owners]
      /\ [t \in Tiles |-> 0] \in [Tiles -> Nat]
      /\ [x \in Targets |-> 0] \in [Targets -> Nat]
    BY DispatchAssumption DEF Owners
<1> QED BY <1>1 DEF ClearedTables, DispatchState

LEMMA GoMainType ==
    ASSUME NEW pc \in MainPcs, NEW todo \in SUBSET Targets, GoMain(pc, todo)
    PROVE  main' \in [pc : MainPcs, todo : SUBSET Targets]
BY DEF GoMain, MainPcs

LEMMA ForemostSubset == \A S : Foremost(S) \subseteq S
BY DEF Foremost

-----------------------------------------------------------------------------
(* Type correctness *)

\* TypeOK is not inductive alone: StartChecked counts a render that StartRender
\* has allowed.
StartBound == main.pc = "checking" => render < MaxRenders

TypeInv == TypeOK /\ StartBound

LEMMA InitType == Init => TypeInv
<1> SUFFICES ASSUME Init PROVE TypeInv
    OBVIOUS
<1>1. s \in DispatchState
    <2>1. /\ [t \in Tiles |-> 0] \in [Tiles -> 0..MaxRenders]
          /\ [t \in Tiles |-> NoOwner] \in [Tiles -> Owners]
          /\ [t \in Tiles |-> 0] \in [Tiles -> Nat]
          /\ [j \in Jobs |-> 0] \in [Jobs -> Nat]
          /\ [x \in Targets |-> 0] \in [Targets -> Nat]
          /\ [w \in Workers |-> << >>] \in [Workers -> Seq(Jobs)]
        BY DispatchAssumption DEF Owners
    <2> QED BY <2>1 DEF Init, DispatchState
<1>2. /\ completed \in [Tiles -> 0..MaxRenders]
      /\ render \in 0..MaxRenders
      /\ stitched \in [Renders -> Nat]
    BY DispatchAssumption DEF Init
<1>3. /\ transit \in [Workers -> [Results -> Nat]]
      /\ early \in [Workers -> Nat]
      /\ jobs \in [Workers -> Seq(Jobs)]
      /\ result_queue \in Seq(Results)
    BY DEF Init, NoResults
<1>4. /\ main \in [pc : MainPcs, todo : SUBSET Targets]
      /\ loop \in [pc : LoopPcs, worker : Workers \cup {NoOwner},
                   tiles : SUBSET Tiles, todo : SUBSET Targets]
    BY DEF Init, MainPcs, LoopPcs
<1>5. StartBound
    BY DEF Init, StartBound
<1> QED BY <1>1, <1>2, <1>3, <1>4, <1>5 DEF Init, TypeOK, TypeInv

\* What the steps of the users and of the main thread change
LEMMA MainThreadType ==
    ASSUME TypeInv, UserStep \/ MainStep
    PROVE  TypeOK'
<1>1. /\ s \in DispatchState
      /\ main.todo \in SUBSET Targets
      /\ render \in 0..MaxRenders
      /\ result_queue \in Seq(Results)
      /\ stitched \in [Renders -> Nat]
      /\ completed \in [Tiles -> 0..MaxRenders]
      /\ \A x \in Targets : Dispatch(s, x) \in DispatchState
      /\ << >> \in Seq(Jobs)
      /\ TypeOK
    BY DispatchType DEF TypeOK, TypeInv
<1>2. CASE StartRender
    <2> PICK master \in ServerRenders :
            /\ s' = [s EXCEPT !.server_renders = master]
            /\ GoMain("checking", Snapshot(master))
        BY <1>2 DEF StartRender
    <2>1. s' \in DispatchState
        BY <1>1, DispatchAssumption DEF DispatchState
    <2>2. Snapshot(master) \in SUBSET Targets
        BY <1>1 DEF Snapshot, DispatchState, Targets
    <2>3. main' \in [pc : MainPcs, todo : SUBSET Targets]
        BY <2>2, GoMainType DEF MainPcs
    <2> QED BY <1>1, <1>2, <2>1, <2>3 DEF StartRender, TypeOK, workerVars, ghostVars
<1>3. CASE StartRefused
    <2>1. main' \in [pc : MainPcs, todo : SUBSET Targets]
        BY <1>3, GoMainType DEF StartRefused, MainPcs
    <2> QED BY <1>1, <1>3, <2>1 DEF StartRefused, TypeOK, workerVars, ghostVars
<1>4. CASE StartChecked
    <2> DEFINE q == IF main.todo = {} THEN << >> ELSE [t \in Tiles |-> JobOf(render', t)]
               c == ClearedTables(main.todo, q)
    <2>1. render' \in Renders /\ render' \in 0..MaxRenders
        <3>1. render' = render + 1 /\ render < MaxRenders
            BY <1>4 DEF StartChecked, TypeInv, StartBound
        <3> QED BY <1>1, <3>1, DispatchAssumption DEF Renders
    <2>2. q \in Seq(Jobs)
        <3>1. [t \in Tiles |-> JobOf(render', t)] \in [1..NumTiles -> Jobs]
            BY <2>1 DEF JobOf, Jobs, Tiles
        <3> QED BY <3>1, <1>1, DispatchAssumption
    <2>3. c \in DispatchState
        BY <1>1, <2>2, ClearedTablesType
    <2>4. s' \in DispatchState
        <3>1. s' = [c EXCEPT !.defer = IF main.todo = {} THEN @
                              ELSE s.server_renders /\ main.todo # {MASTER}]
            BY <1>4 DEF StartChecked
        <3> HIDE DEF c
        <3> QED BY <1>1, <2>3, <3>1 DEF DispatchState
    <2>5. main' \in [pc : MainPcs, todo : SUBSET Targets]
        BY <1>1, <1>4, GoMainType DEF StartChecked, MainPcs
    <2>6. completed' \in [Tiles -> 0..MaxRenders]
        BY <1>4, DispatchAssumption DEF StartChecked
    <2> QED BY <1>1, <1>4, <2>1, <2>4, <2>5, <2>6 DEF StartChecked, TypeOK, workerVars
<1>5. CASE Prime \/ DispatchQueued
    <2> PICK x \in Foremost(main.todo), pc \in {"prime", "dispatch"} :
            s' = Dispatch(s, x) /\ GoMain(pc, main.todo \ {x})
        BY <1>5 DEF Prime, DispatchQueued
    <2>1. x \in Targets
        BY <1>1, ForemostSubset
    <2>2. main' \in [pc : MainPcs, todo : SUBSET Targets]
        BY <1>1, GoMainType DEF MainPcs
    <2> QED BY <1>1, <1>5, <2>1, <2>2
            DEF Prime, DispatchQueued, TypeOK, workerVars, ghostVars
<1>6. CASE CancelRender
    <2>1. ClearedTables(s.targets, << >>) \in DispatchState
        BY <1>1, ClearedTablesType DEF DispatchState
    <2>2. s' \in DispatchState
        BY <1>6, <2>1 DEF CancelRender, DispatchState
    <2> QED BY <1>1, <1>6, <2>2 DEF CancelRender, TypeOK, DispatchState
<1>7. CASE ResetRuntime
    <2>1. ClearedTables({}, << >>) \in DispatchState
        BY <1>1, ClearedTablesType
    <2>2. s' \in DispatchState
        BY <1>7, <2>1 DEF ResetRuntime, DispatchState
    <2>3. completed' \in [Tiles -> 0..MaxRenders]
        BY <1>7, DispatchAssumption DEF ResetRuntime
    <2> QED BY <1>1, <1>7, <2>2, <2>3 DEF ResetRuntime, TypeOK, workerVars
<1>8. CASE KickAllWorkers \/ PruneClosedSockets
    <2>1. s' \in DispatchState
        BY <1>1, <1>8 DEF KickAllWorkers, PruneClosedSockets, DispatchState
    <2> QED BY <1>1, <1>8, <2>1
            DEF KickAllWorkers, PruneClosedSockets, TypeOK, workerVars, ghostVars
<1>9. CASE Tick \/ TasksDrained
    <2>1. main' \in [pc : MainPcs, todo : SUBSET Targets]
        BY <1>9, GoMainType DEF Tick, TasksDrained, MainPcs
    <2>2. dead' \in SUBSET Targets
        BY <1>1, <1>9 DEF Tick, TasksDrained, TypeOK, Targets, workerVars
    <2> QED BY <1>1, <1>9, <2>1, <2>2
            DEF Tick, TasksDrained, TypeOK, workerVars, ghostVars
<1>10. CASE RenderLocally
    <2>1. Head(s.tasks) \in Jobs /\ Tail(s.tasks) \in Seq(Jobs)
        BY <1>1, <1>10 DEF RenderLocally, DispatchState
    <2>2. s' \in DispatchState
        BY <1>1, <1>10, <2>1 DEF RenderLocally, DispatchState
    <2>3. \A ok \in Outcomes : [job |-> Head(s.tasks), ok |-> ok] \in Results
        BY <2>1 DEF Results, Outcomes
    <2>4. result_queue' \in Seq(Results)
        <3>1. \/ result_queue' = result_queue
              \/ \E r \in Results : result_queue' = Append(result_queue, r)
            BY <1>10, <2>3 DEF RenderLocally
        <3>2. \A r \in Results : Append(result_queue, r) \in Seq(Results)
            BY <1>1
        <3> QED BY <1>1, <3>1, <3>2
    <2> QED BY <1>1, <1>10, <2>2, <2>4 DEF RenderLocally, TypeOK, workerVars, ghostVars
<1>11. CASE ConsumeResult
    <2> DEFINE r == Head(result_queue)
               t == r.job.tile
    <2>1. r \in Results /\ t \in Tiles /\ r.job.render \in 0..MaxRenders
        <3>1. r \in Results
            BY <1>1, <1>11 DEF ConsumeResult
        <3> QED BY <3>1, DispatchAssumption DEF Results, Jobs, Renders
    <2>2. Tail(result_queue) \in Seq(Results)
        BY <1>1, <1>11 DEF ConsumeResult
    <2>3. Accepted(t) \in DispatchState
        <3>1. Released(s, t) \in DispatchState
            BY <1>1, <2>1, ReleasedType
        <3>2. /\ Released(s, t).pending \in [Tiles -> 0..MaxRenders]
              /\ Released(s, t).owner \in [Tiles -> Owners]
            BY <3>1 DEF DispatchState
        <3>3. 0 \in 0..MaxRenders /\ NoOwner \in Owners
            BY DispatchAssumption DEF Owners
        <3>4. /\ [Released(s, t).pending EXCEPT ![t] = 0] \in [Tiles -> 0..MaxRenders]
              /\ [Released(s, t).owner EXCEPT ![t] = NoOwner] \in [Tiles -> Owners]
            BY <3>2, <3>3
        <3> QED BY <3>1, <3>4 DEF Accepted, DispatchState
    <2>4. s.owner[t] # NoOwner => s.owner[t] \in Targets
        BY <1>1, <2>1 DEF DispatchState, Owners
    <2>5. s' \in DispatchState
        BY <1>1, <1>11, <2>1, <2>3, <2>4, DispatchType, ReassignTileType
        DEF ConsumeResult
    <2>6. completed' \in [Tiles -> 0..MaxRenders]
        <3>1. completed' \in {completed, [completed EXCEPT ![t] = r.job.render]}
            BY <1>11 DEF ConsumeResult
        <3> QED BY <1>1, <2>1, <3>1
    <2>7. stitched' \in [Renders -> Nat]
        <3>1. stitched' \in {stitched, [stitched EXCEPT ![render] = @ + 1]}
            BY <1>11 DEF ConsumeResult, Finalize
        <3> QED BY <1>1, <3>1
    <2> QED BY <1>1, <1>11, <2>2, <2>5, <2>6, <2>7 DEF ConsumeResult, TypeOK, workerVars
<1>12. CASE ResultsDrained
    <2>1. s.targets \in SUBSET Targets
        BY <1>1 DEF DispatchState
    <2>2. main' \in [pc : MainPcs, todo : SUBSET Targets]
        BY <1>12, <2>1, GoMainType DEF ResultsDrained, MainPcs
    <2> QED BY <1>1, <1>12, <2>2 DEF ResultsDrained, TypeOK, workerVars, ghostVars
<1>13. CASE Stop \/ Start
    <2>1. drops' \in Nat
        BY <1>1, <1>13 DEF Stop, Start, TypeOK, ghostVars
    <2> QED BY <1>1, <1>13, <2>1 DEF Stop, Start, TypeOK, serverVars, ghostVars
<1>14. CASE LocalRenderRaises \/ ConsumeRaises
    <2>1. /\ main' \in [pc : MainPcs, todo : SUBSET Targets]
          /\ dead' \in SUBSET Targets
        BY <1>1, <1>14, GoMainType
        DEF LocalRenderRaises, ConsumeRaises, TickRaises, MainPcs, TypeOK, Targets
    <2>2. s' \in DispatchState
        <3>1. s.tasks # << >> => Tail(s.tasks) \in Seq(Jobs)
            BY <1>1 DEF DispatchState
        <3> QED BY <1>1, <1>14, <3>1 DEF LocalRenderRaises, ConsumeRaises, DispatchState
    <2>3. result_queue' \in Seq(Results)
        <3>1. result_queue # << >> => Tail(result_queue) \in Seq(Results)
            BY <1>1
        <3> QED BY <1>1, <1>14, <3>1 DEF LocalRenderRaises, ConsumeRaises
    <2> QED BY <1>1, <1>14, <2>1, <2>2, <2>3
            DEF LocalRenderRaises, ConsumeRaises, TickRaises, TypeOK, ghostVars
<1> QED BY <1>2, <1>3, <1>4, <1>5, <1>6, <1>7, <1>8, <1>9, <1>10, <1>11, <1>12,
           <1>13, <1>14
        DEF UserStep, MainStep

\* What the steps of the asyncio thread change
LEMMA LoopThreadType ==
    ASSUME TypeInv,
           LoopStep \/ \E w \in Workers : ServerTakeover(w) \/ Register(w)
    PROVE  TypeOK'
<1> DEFINE LoopType == [pc : LoopPcs, worker : Workers \cup {NoOwner},
                        tiles : SUBSET Tiles, todo : SUBSET Targets]
<1>1. /\ s \in DispatchState
      /\ loop \in LoopType
      /\ loop.todo \in SUBSET Targets /\ loop.tiles \in SUBSET Tiles
      /\ early \in [Workers -> Nat]
      /\ jobs \in [Workers -> Seq(Jobs)]
      /\ transit \in [Workers -> [Results -> Nat]]
      /\ result_queue \in Seq(Results)
      /\ drops \in Nat
      /\ \A x \in Targets : Dispatch(s, x) \in DispatchState
      /\ TypeOK
    BY DispatchType DEF TypeOK, TypeInv
<1>2. CASE ReassignNext
    <2> PICK t \in loop.tiles : s' \in ReassignTile(s, t)
                                /\ loop' = [loop EXCEPT !.tiles = @ \ {t}]
        BY <1>2 DEF ReassignNext
    <2>1. s' \in DispatchState
        BY <1>1, ReassignTileType
    <2>2. loop' \in LoopType
        BY <1>1
    <2> QED BY <1>1, <1>2, <2>1, <2>2 DEF ReassignNext, TypeOK, workerVars, ghostVars
<1>3. CASE ReassignDone
    <2>1. loop' \in LoopType
        BY <1>1, <1>3 DEF ReassignDone, LoopPcs, DispatchState
    <2> QED BY <1>1, <1>3, <2>1 DEF ReassignDone, TypeOK, workerVars, ghostVars
<1>4. CASE Redispatch
    <2> PICK x \in Foremost(loop.todo) : s' = Dispatch(s, x)
                                         /\ loop' = [loop EXCEPT !.todo = @ \ {x}]
        BY <1>4 DEF Redispatch
    <2>1. x \in Targets
        BY <1>1, ForemostSubset
    <2>2. loop' \in LoopType
        BY <1>1
    <2> QED BY <1>1, <1>4, <2>1, <2>2 DEF Redispatch, TypeOK, workerVars, ghostVars
<1>5. CASE Forget
    <2>1. s' \in DispatchState
        BY <1>1, <1>5 DEF Forget, DispatchState
    <2>2. loop' \in LoopType
        BY <1>1, <1>5 DEF Forget, LoopPcs
    <2> QED BY <1>1, <1>5, <2>1, <2>2 DEF Forget, TypeOK, workerVars, ghostVars
<1>6. ASSUME NEW w \in Workers, SendJob(w) PROVE TypeOK'
    <2>1. Head(s.sends[w]) \in Jobs /\ Tail(s.sends[w]) \in Seq(Jobs)
        BY <1>1, <1>6 DEF SendJob, DispatchState
    <2>2. s' \in DispatchState
        BY <1>1, <1>6, <2>1 DEF SendJob, DispatchState
    <2>3. Append(jobs[w], Head(s.sends[w])) \in Seq(Jobs)
        BY <1>1, <2>1
    <2>4. jobs' \in [Workers -> Seq(Jobs)]
        BY <1>1, <1>6, <2>3 DEF SendJob
    <2> QED BY <1>1, <1>6, <2>2, <2>4 DEF SendJob, TypeOK, ghostVars
<1>7. ASSUME NEW w \in Workers, SendFails(w) PROVE TypeOK'
    <2> DEFINE d == [s EXCEPT !.sends[w] = Tail(@)]
    <2>1. Head(s.sends[w]) \in Jobs /\ Tail(s.sends[w]) \in Seq(Jobs)
        BY <1>1, <1>7 DEF SendFails, DispatchState
    <2>2. d \in DispatchState
        BY <1>1, <2>1 DEF DispatchState
    <2>3. s' \in DispatchState
        BY <1>7, <2>1, <2>2, RetryOrRequeueType DEF SendFails
    <2>4. early' \in [Workers -> Nat]
        BY <1>1, <1>7, DecType DEF SendFails
    <2> QED BY <1>1, <1>7, <2>3, <2>4 DEF SendFails, TypeOK, ghostVars
<1>8. ASSUME NEW w \in Workers, ReceiveResult(w) PROVE TypeOK'
    <2> PICK r \in Results : /\ transit[w][r] > 0
                             /\ transit' = [transit EXCEPT ![w][r] = @ - 1]
                             /\ result_queue' = Append(result_queue, r)
        BY <1>8 DEF ReceiveResult
    <2>1. [transit[w] EXCEPT ![r] = @ - 1] \in [Results -> Nat]
        BY <1>1
    <2>2. transit' \in [Workers -> [Results -> Nat]]
        BY <1>1, <2>1
    <2>3. result_queue' \in Seq(Results)
        BY <1>1
    <2> QED BY <1>1, <1>8, <2>2, <2>3 DEF ReceiveResult, TypeOK, ghostVars
<1>9. ASSUME NEW w \in Workers, HandlerExit(w) \/ ServerTakeover(w) PROVE TypeOK'
    <2>1. BeginReassign(w)
        BY <1>9 DEF HandlerExit, ServerTakeover
    <2>2. [s.inflight EXCEPT ![w] = 0] \in [Targets -> Nat]
        BY <1>1 DEF DispatchState
    <2>3. s' \in DispatchState
        BY <1>1, <2>1, <2>2 DEF BeginReassign, DispatchState
    <2>4. loop' \in LoopType
        BY <1>1, <2>1 DEF BeginReassign, LoopPcs, OwnedBy
    <2>5. drops' \in Nat /\ UNCHANGED <<render, active, stitched>>
        BY <1>1, <1>9 DEF HandlerExit, ServerTakeover, ghostVars
    <2> QED BY <1>1, <2>1, <2>3, <2>4, <2>5 DEF BeginReassign, TypeOK, workerVars
<1>10. ASSUME NEW w \in Workers, Register(w) PROVE TypeOK'
    <2>1. s' \in DispatchState
        BY <1>1, <1>10 DEF Register, DispatchState
    <2>2. sock' \in [Workers -> BOOLEAN]
        BY <1>10, <1>1 DEF Register, TypeOK
    <2> QED BY <1>1, <1>10, <2>1, <2>2 DEF Register, TypeOK, ghostVars
<1>11. CASE StartServer
    <2> PICK lost \in BOOLEAN :
            /\ s' = [s EXCEPT !.connected = {},
                             !.pending = [t \in Tiles |-> 0],
                             !.owner = [t \in Tiles |-> NoOwner],
                             !.attempts = [t \in Tiles |-> 0],
                             !.sends = IF lost THEN [w \in Workers |-> << >>] ELSE @]
            /\ early' = IF lost THEN [w \in Workers |-> 0] ELSE early
        BY <1>11 DEF StartServer
    <2>1. /\ [t \in Tiles |-> 0] \in [Tiles -> 0..MaxRenders]
          /\ [t \in Tiles |-> NoOwner] \in [Tiles -> Owners]
          /\ [t \in Tiles |-> 0] \in [Tiles -> Nat]
          /\ [w \in Workers |-> << >>] \in [Workers -> Seq(Jobs)]
        BY DispatchAssumption DEF Owners
    <2>2. s' \in DispatchState
        BY <1>1, <2>1 DEF DispatchState
    <2>3. early' \in [Workers -> Nat] /\ completed' \in [Tiles -> 0..MaxRenders]
        BY <1>1, <1>11, <2>1 DEF StartServer
    <2> QED BY <1>1, <1>11, <2>2, <2>3 DEF StartServer, TypeOK
<1> QED BY <1>2, <1>3, <1>4, <1>5, <1>6, <1>7, <1>8, <1>9, <1>10, <1>11 DEF LoopStep

\* What the steps of workers and of the network change
LEMMA WorkerType ==
    ASSUME TypeInv, NEW w \in Workers,
           WorkerStep(w) \/ Disconnect(w) \/ WorkerRestarts(w)
    PROVE  TypeOK'
<1>1. /\ jobs \in [Workers -> Seq(Jobs)]
      /\ transit \in [Workers -> [Results -> Nat]]
      /\ aborted \in [Workers -> BOOLEAN]
      /\ sock \in [Workers -> BOOLEAN]
      /\ early \in [Workers -> Nat]
      /\ drops \in Nat
      /\ s.sends \in [Workers -> Seq(Jobs)]
      /\ TypeOK
    BY DEF TypeOK, TypeInv, DispatchState
<1>2. jobs[w] # << >> => Head(jobs[w]) \in Jobs /\ Tail(jobs[w]) \in Seq(Jobs)
    BY <1>1
<1>3. CASE WorkerRenders(w)
    <2> PICK ok \in Outcomes :
            transit' = IF sock[w]
                       THEN [transit EXCEPT ![w][[job |-> Head(jobs[w]), ok |-> ok]] = @ + 1]
                       ELSE transit
        BY <1>3 DEF WorkerRenders
    <2> DEFINE r == [job |-> Head(jobs[w]), ok |-> ok]
    <2>1. r \in Results
        BY <1>2, <1>3 DEF WorkerRenders, Results, Outcomes
    <2>2. [transit[w] EXCEPT ![r] = @ + 1] \in [Results -> Nat]
        BY <1>1, <2>1
    <2>3. transit' \in [Workers -> [Results -> Nat]]
        BY <1>1, <2>2
    <2>4. jobs' \in [Workers -> Seq(Jobs)]
        BY <1>1, <1>2, <1>3 DEF WorkerRenders
    <2> QED BY <1>1, <1>3, <2>3, <2>4 DEF WorkerRenders, TypeOK, serverVars, ghostVars
<1>4. CASE WorkerIgnores(w)
    <2>1. jobs' \in [Workers -> Seq(Jobs)]
        BY <1>1, <1>2, <1>4 DEF WorkerIgnores
    <2> QED BY <1>1, <1>4, <2>1 DEF WorkerIgnores, TypeOK, serverVars, ghostVars
<1>5. CASE WorkerAborts(w)
    <2>1. aborted' \in [Workers -> BOOLEAN]
        BY <1>1, <1>5 DEF WorkerAborts
    <2> QED BY <1>1, <1>5, <2>1 DEF WorkerAborts, TypeOK, serverVars, ghostVars
<1>6. CASE Disconnect(w)
    <2>1. PICK n \in 0..Len(jobs[w]) : jobs' = [jobs EXCEPT ![w] = SubSeq(@, 1, n)]
        BY <1>6 DEF Disconnect
    <2>2. SubSeq(jobs[w], 1, n) \in Seq(Jobs)
        BY <1>1
    <2>3. jobs' \in [Workers -> Seq(Jobs)]
        BY <1>1, <2>1, <2>2
    <2>4. Len(s.sends[w]) \in Nat /\ NoResults \in [Results -> Nat]
        BY <1>1 DEF NoResults
    <2>5. /\ sock' \in [Workers -> BOOLEAN]
          /\ early' \in [Workers -> Nat]
          /\ transit' \in [Workers -> [Results -> Nat]]
          /\ drops' \in Nat
        BY <1>1, <1>6, <2>4 DEF Disconnect
    <2> QED BY <1>1, <1>6, <2>3, <2>5 DEF Disconnect, TypeOK, serverVars
<1>7. CASE WorkerRestarts(w)
    <2>1. << >> \in Seq(Jobs)
        OBVIOUS
    <2>2. jobs' \in [Workers -> Seq(Jobs)] /\ aborted' \in [Workers -> BOOLEAN]
        BY <1>1, <1>7, <2>1 DEF WorkerRestarts
    <2> QED BY <1>1, <1>7, <2>2 DEF WorkerRestarts, TypeOK, serverVars, ghostVars
<1>8. CASE WorkerRenderRaises(w)
    <2>1. jobs' \in [Workers -> Seq(Jobs)]
        BY <1>1, <1>2, <1>8 DEF WorkerRenderRaises
    <2>2. dead' \in SUBSET Targets
        BY <1>1, <1>8 DEF WorkerRenderRaises, TypeOK, Targets
    <2> QED BY <1>1, <1>8, <2>1, <2>2 DEF WorkerRenderRaises, TypeOK, serverVars, ghostVars
<1> QED BY <1>3, <1>4, <1>5, <1>6, <1>7, <1>8 DEF WorkerStep

\* The two threads change the render count only in StartChecked, and the pc of the
\* main thread becomes "checking" only in StartRender.
LEMMA StartBoundStep ==
    ASSUME StartBound, [Next]_vars
    PROVE  StartBound'
<1>1. CASE StartRender
    BY <1>1 DEF StartRender, StartBound, ghostVars
<1>2. CASE StartChecked
    BY <1>2 DEF StartChecked, StartBound, GoMain
<1>3. CASE ~StartRender /\ ~StartChecked
    <2> DEFINE Kept == (main' = main \/ main'.pc # "checking") /\ render' = render
    <2>1. CASE UserStep
        <3>1. Kept
            BY <1>3, <2>1 DEF UserStep, CancelRender, ResetRuntime, KickAllWorkers,
                              PruneClosedSockets, Stop, Start, serverVars, ghostVars
        <3> QED BY <3>1 DEF StartBound
    <2>2. CASE MainStep
        <3>1. Kept
            BY <1>3, <2>2 DEF MainStep, StartRefused, Prime, Tick, RenderLocally,
                              LocalRenderRaises, TasksDrained, ConsumeResult,
                              ConsumeRaises, TickRaises, ResultsDrained,
                              DispatchQueued, GoMain, ghostVars
        <3> QED BY <3>1 DEF StartBound
    <2>3. CASE LoopStep \/ EnvStep \/ \E w \in Workers : WorkerStep(w)
        <3>1. UNCHANGED <<main, render>>
            BY <2>3 DEF LoopStep, EnvStep, WorkerStep, ReassignNext, ReassignDone,
                        Redispatch, Forget, StartServer, SendJob, SendFails,
                        ReceiveResult, HandlerExit, ServerTakeover, BeginReassign,
                        Register, WorkerRenders, WorkerRenderRaises, WorkerIgnores,
                        WorkerAborts, Disconnect, WorkerRestarts, serverVars, ghostVars
        <3> QED BY <3>1 DEF StartBound
    <2>4. CASE UNCHANGED vars
        BY <2>4 DEF StartBound, vars, serverVars, ghostVars
    <2> QED BY <2>1, <2>2, <2>3, <2>4 DEF Next
<1> QED BY <1>1, <1>2, <1>3

LEMMA TypeStep == TypeInv /\ [Next]_vars => TypeInv'
<1> SUFFICES ASSUME TypeInv, [Next]_vars PROVE TypeInv'
    OBVIOUS
<1>1. StartBound'
    BY StartBoundStep DEF TypeInv
<1>2. CASE UserStep \/ MainStep
    BY <1>1, <1>2, MainThreadType DEF TypeInv
<1>3. CASE LoopStep \/ EnvStep \/ \E w \in Workers : WorkerStep(w)
    <2>1. CASE LoopStep \/ \E w \in Workers : ServerTakeover(w) \/ Register(w)
        BY <1>1, <2>1, LoopThreadType DEF TypeInv
    <2>2. CASE \E w \in Workers : WorkerStep(w) \/ Disconnect(w) \/ WorkerRestarts(w)
        BY <1>1, <2>2, WorkerType DEF TypeInv
    <2> QED BY <1>3, <2>1, <2>2 DEF EnvStep
<1>4. CASE UNCHANGED vars
    BY <1>4 DEF TypeInv, TypeOK, StartBound, vars, serverVars, workerVars, ghostVars
<1> QED BY <1>2, <1>3, <1>4 DEF Next

\* Every variable keeps its type, in every step of either thread.
THEOREM TypeCorrect == Spec => []TypeOK
<1>1. TypeInv => TypeOK
    BY DEF TypeInv
<1> QED BY InitType, TypeStep, <1>1, PTL DEF Spec

-----------------------------------------------------------------------------
(* No tile of a running render is lost *)

Lasting(d, t) ==
    \/ InQueue(d.queue, t)
    \/ d.pending[t] # 0
    \/ \E r \in Renders : d.send_attempts[JobOf(r, t)] > MaxRetries

\* A tile stays in the tables when queue, pending and send_attempts do.
LEMMA LastingSame ==
    ASSUME NEW d, NEW e, NEW t, Lasting(d, t),
           e.queue = d.queue, e.pending = d.pending, e.send_attempts = d.send_attempts
    PROVE  Lasting(e, t)
BY DEF Lasting

LEMMA QueueTail ==
    ASSUME NEW q \in Seq(Jobs), q # << >>, NEW t, InQueue(q, t), Head(q).tile # t
    PROVE  InQueue(Tail(q), t)
<1>1. PICK i \in 1..Len(q) : q[i].tile = t
    BY DEF InQueue
<1>2. i # 1
    BY <1>1
<1>3. i - 1 \in 1..Len(Tail(q)) /\ Tail(q)[i - 1] = q[i]
    BY <1>2
<1> QED BY <1>1, <1>3 DEF InQueue

LEMMA QueuePrefixed ==
    ASSUME NEW q \in Seq(Jobs), NEW job \in Jobs, NEW t
    PROVE  /\ InQueue(<<job>> \o q, job.tile)
           /\ InQueue(q, t) => InQueue(<<job>> \o q, t)
<1> DEFINE p == <<job>> \o q
<1>1. Len(p) = Len(q) + 1 /\ p[1] = job
    OBVIOUS
<1>2. \A i \in 1..Len(q) : i + 1 \in 1..Len(p) /\ p[i + 1] = q[i]
    BY <1>1
<1>3. 1 \in 1..Len(p)
    BY <1>1
<1> QED BY <1>1, <1>2, <1>3 DEF InQueue

LEMMA DispatchLasting ==
    ASSUME NEW d \in DispatchState, NEW x \in Targets, NEW t \in Tiles, Lasting(d, t)
    PROVE  Lasting(Dispatch(d, x), t)
<1> DEFINE u == [d EXCEPT !.defer = @ /\ x # MASTER]
           job == Head(d.queue)
           h == HandOut(u, x, job)
<1>1. u \in DispatchState /\ Lasting(u, t) /\ u.queue = d.queue
    <2>1. /\ u \in DispatchState
          /\ u.queue = d.queue
          /\ u.pending = d.pending
          /\ u.send_attempts = d.send_attempts
        BY DEF DispatchState
    <2> HIDE DEF u
    <2> QED BY <2>1, LastingSame
<1>2. CASE d.queue # << >>
    <2>1. job \in Jobs /\ job.tile \in Tiles /\ job.render # 0
        <3>1. job \in Jobs
            BY <1>2 DEF DispatchState
        <3> QED BY <3>1, DispatchAssumption DEF Jobs, Renders
    <2>2. /\ h.queue = Tail(d.queue)
          /\ h.pending = [d.pending EXCEPT ![job.tile] = job.render]
          /\ h.send_attempts = d.send_attempts
        BY DEF HandOut, Transmit, DispatchState
    <2> HIDE DEF h, job
    <2>3. ASSUME job.tile = t PROVE Lasting(h, t)
        BY <2>1, <2>2, <2>3 DEF Lasting, DispatchState
    <2>4. ASSUME job.tile # t PROVE Lasting(h, t)
        <3>1. h.pending[t] = d.pending[t]
            BY <2>1, <2>2, <2>4 DEF DispatchState
        <3>2. InQueue(d.queue, t) => InQueue(h.queue, t)
            BY <1>2, <2>2, <2>4, QueueTail DEF DispatchState, job
        <3> QED BY <2>2, <3>1, <3>2 DEF Lasting
    <2>5. Lasting(h, t)
        BY <2>3, <2>4
    <2> QED BY <1>1, <1>2, <2>5 DEF Dispatch, h, job
<1>3. CASE d.queue = << >>
    BY <1>1, <1>3 DEF Dispatch
<1> QED BY <1>2, <1>3

LEMMA ReleasedSame ==
    ASSUME NEW d \in DispatchState, NEW t \in Tiles
    PROVE  /\ Released(d, t).queue = d.queue
           /\ Released(d, t).pending = d.pending
           /\ Released(d, t).send_attempts = d.send_attempts
BY DEF Released, DispatchState

LEMMA ReassignSame ==
    ASSUME NEW d \in DispatchState, NEW t \in Tiles, NEW e \in ReassignTile(d, t)
    PROVE  /\ e.queue = d.queue
           /\ e.pending = d.pending
           /\ e.send_attempts = d.send_attempts
<1> DEFINE r == Released(d, t)
           u == [r EXCEPT !.attempts[t] = @ + 1]
           best == LeastLoaded(u, Candidates(d, d.owner[t]))
           g(x) == [u EXCEPT !.owner[t] = x, !.inflight[x] = @ + 1]
<1>1. /\ u.queue = d.queue
      /\ u.pending = d.pending
      /\ u.send_attempts = d.send_attempts
      /\ u \in DispatchState
    <2>1. r \in DispatchState
        BY ReleasedType
    <2>2. [r.attempts EXCEPT ![t] = @ + 1] \in [Tiles -> Nat]
        BY <2>1 DEF DispatchState
    <2> HIDE DEF r
    <2>3. u \in DispatchState
        BY <2>1, <2>2 DEF DispatchState
    <2> QED BY <2>1, <2>3, ReleasedSame DEF DispatchState, r
<1> HIDE DEF u
<1>2. CASE e \in {d, u}
    BY <1>1, <1>2
<1>3. ASSUME NEW x, NEW job, e = Transmit(g(x), x, job)
      PROVE  /\ e.queue = d.queue
             /\ e.pending = d.pending
             /\ e.send_attempts = d.send_attempts
    BY <1>1, <1>3 DEF Transmit, DispatchState
<1>4. e \in {d, u} \/ \E x \in best : e = Transmit(g(x), x, JobOf(d.pending[t], t))
    BY DEF ReassignTile, u
<1> QED BY <1>2, <1>3, <1>4

LEMMA RetryLasting ==
    ASSUME NEW d \in DispatchState, NEW job \in Jobs, NEW e \in RetryOrRequeue(d, job),
           NEW t \in Tiles, Lasting(d, t)
    PROVE  Lasting(e, t)
<1> DEFINE r == Released(d, job.tile)
           u == [r EXCEPT !.owner[job.tile] = NoOwner, !.send_attempts[job] = @ + 1]
           v == [u EXCEPT !.queue = <<job>> \o @]
           w == [u EXCEPT !.pending[job.tile] = 0]
           idle == {x \in v.targets : Idle(v, x)}
<1>1. job.tile \in Tiles /\ job.render \in Renders /\ job = JobOf(job.render, job.tile)
    BY DEF Jobs, JobOf
<1>2. r \in DispatchState
    BY <1>1, ReleasedType
<1>3. /\ u \in DispatchState
      /\ u.queue = d.queue /\ u.pending = d.pending
      /\ u.send_attempts = [d.send_attempts EXCEPT ![job] = @ + 1]
    <2>1. /\ [r.owner EXCEPT ![job.tile] = NoOwner] \in [Tiles -> Owners]
          /\ [r.send_attempts EXCEPT ![job] = @ + 1] \in [Jobs -> Nat]
        BY <1>1, <1>2 DEF DispatchState, Owners
    <2>2. u \in DispatchState
        BY <1>2, <2>1 DEF DispatchState
    <2>3. r.queue = d.queue /\ r.pending = d.pending /\ r.send_attempts = d.send_attempts
        BY <1>1, ReleasedSame
    <2> HIDE DEF r
    <2> QED BY <1>2, <2>2, <2>3 DEF DispatchState
<1> HIDE DEF u
<1>4. \A j \in Jobs : d.send_attempts[j] > MaxRetries => u.send_attempts[j] > MaxRetries
    BY <1>3, DispatchAssumption DEF DispatchState
<1>5. Lasting(u, t)
    BY <1>3, <1>4 DEF Lasting, JobOf, Jobs
<1>6. v \in DispatchState /\ Lasting(v, t)
    <2>1. <<job>> \in Seq(Jobs) /\ u.queue \in Seq(Jobs)
        BY <1>3 DEF DispatchState
    <2>2. <<job>> \o u.queue \in Seq(Jobs)
        BY <2>1
    <2>3. v \in DispatchState /\ v.queue = <<job>> \o u.queue
          /\ v.pending = u.pending /\ v.send_attempts = u.send_attempts
        BY <1>3, <2>2 DEF DispatchState
    <2> HIDE DEF v
    <2> QED BY <1>5, <2>1, <2>3, QueuePrefixed DEF Lasting
<1>7. CASE /\ StopsResending(u.send_attempts[job])
           /\ e = w
    <2>1. /\ w.queue = u.queue /\ w.send_attempts = u.send_attempts
          /\ t # job.tile => w.pending[t] = u.pending[t]
        BY <1>1, <1>3 DEF DispatchState
    <2>2. CASE t = job.tile
        BY <1>1, <1>7, <2>1, <2>2 DEF Lasting, StopsResending
    <2>3. CASE t # job.tile
        BY <1>5, <1>7, <2>1, <2>3 DEF Lasting
    <2> QED BY <2>2, <2>3
<1>8. CASE e = v \/ \E x \in Foremost(idle) : e = Dispatch(v, x)
    <2>1. \A x \in Foremost(idle) : x \in Targets
        BY <1>6, ForemostSubset DEF DispatchState
    <2> QED BY <1>6, <1>8, <2>1, DispatchLasting
<1> QED BY <1>7, <1>8 DEF RetryOrRequeue, u

Safe(t) == Lasting(s, t) \/ completed[t] # 0

LEMMA NoTileLostIsSafe == NoTileLost <=> (active => \A t \in Tiles : Safe(t))
BY DEF NoTileLost, Safe, Lasting, Abandoned

LEMMA NoTileLostStep ==
    ASSUME TypeInv, NoTileLost, [Next]_vars
    PROVE  NoTileLost'
<1> SUFFICES ASSUME active', NEW t \in Tiles PROVE Safe(t)'
    BY DEF NoTileLost, Safe, Lasting, Abandoned
<1>1. /\ s \in DispatchState
      /\ main.todo \subseteq Targets /\ loop.todo \subseteq Targets
      /\ loop.tiles \subseteq Tiles
      /\ completed \in [Tiles -> 0..MaxRenders]
    BY DEF TypeInv, TypeOK
<1>2. active => Safe(t)
    BY NoTileLostIsSafe
<1>3. ASSUME active, completed' = completed,
             s'.queue = s.queue, s'.pending = s.pending,
             s'.send_attempts = s.send_attempts
      PROVE  Safe(t)'
    BY <1>2, <1>3 DEF Safe, Lasting
<1>4. ASSUME active, completed' = completed, NEW x \in Targets, s' = Dispatch(s, x)
      PROVE  Safe(t)'
    <2>1. Lasting(s, t) => Lasting(Dispatch(s, x), t)
        BY <1>1, DispatchLasting
    <2>2. Lasting(s, t) => Lasting(s', t)
        BY <1>4, <2>1
    <2> QED BY <1>2, <1>4, <2>2 DEF Safe, Lasting
<1>5. ASSUME active, completed' = completed, NEW u \in Tiles, s' \in ReassignTile(s, u)
      PROVE  Safe(t)'
    BY <1>1, <1>3, <1>5, ReassignSame
<1>6. CASE StartChecked
    <2>1. s'.queue = [i \in Tiles |-> JobOf(render', i)]
        BY <1>1, <1>6 DEF StartChecked, ClearedTables, DispatchState
    <2>2. Len(s'.queue) = NumTiles
        BY <2>1, DispatchAssumption DEF Tiles
    <2>3. s'.queue[t].tile = t /\ t \in 1..Len(s'.queue)
        <3>1. s'.queue[t] = JobOf(render', t)
            BY <2>1
        <3>2. JobOf(render', t).tile = t
            BY DEF JobOf
        <3> QED BY <2>2, <3>1, <3>2 DEF Tiles
    <2>4. InQueue(s'.queue, t)
        BY <2>3 DEF InQueue
    <2> QED BY <2>4 DEF Safe, Lasting
<1>7. CASE CancelRender \/ ResetRuntime \/ StartServer
    BY <1>7 DEF CancelRender, ResetRuntime, StartServer
<1>8. CASE ConsumeResult
    <2> DEFINE r == Head(result_queue)
               k == r.job.tile
    <2>1. active
        BY <1>8 DEF ConsumeResult
    <2>2. r \in Results /\ k \in Tiles /\ r.job.render # 0
        <3>1. r \in Results
            BY <1>8 DEF ConsumeResult, TypeInv, TypeOK
        <3> QED BY <3>1, DispatchAssumption DEF Results, Jobs, Renders
    <2>3. CASE s' = s /\ completed' = completed
        BY <1>3, <2>1, <2>3
    <2>4. CASE s' \in ReassignTile(s, k) /\ completed' = completed
        BY <1>5, <2>1, <2>2, <2>4
    <2>5. CASE /\ s' = IF s.owner[k] = NoOwner THEN Accepted(k)
                       ELSE Dispatch(Accepted(k), s.owner[k])
               /\ completed' = [completed EXCEPT ![k] = r.job.render]
        <3>1. CASE t = k
            BY <1>1, <2>2, <2>5, <3>1 DEF Safe
        <3>2. CASE t # k
            <4>1. Released(s, k) \in DispatchState
                BY <1>1, <2>2, ReleasedType
            <4>2. /\ Accepted(k).queue = s.queue
                  /\ Accepted(k).pending = [s.pending EXCEPT ![k] = 0]
                  /\ Accepted(k).send_attempts = s.send_attempts
                BY <1>1, <2>2, <4>1, ReleasedSame DEF Accepted, DispatchState
            <4>3. Accepted(k) \in DispatchState
                <5>1. 0 \in 0..MaxRenders /\ NoOwner \in Owners
                    BY DispatchAssumption DEF Owners
                <5>2. /\ [Released(s, k).pending EXCEPT ![k] = 0]
                            \in [Tiles -> 0..MaxRenders]
                      /\ [Released(s, k).owner EXCEPT ![k] = NoOwner]
                            \in [Tiles -> Owners]
                    BY <4>1, <5>1 DEF DispatchState
                <5> QED BY <4>1, <5>2 DEF Accepted, DispatchState
            <4>4. Lasting(s, t) => Lasting(Accepted(k), t)
                BY <1>1, <2>2, <3>2, <4>2 DEF Lasting, DispatchState
            <4>5. s.owner[k] # NoOwner => s.owner[k] \in Targets
                BY <1>1, <2>2 DEF DispatchState, Owners
            <4>6. Lasting(s, t) => Lasting(s', t)
                BY <2>5, <4>3, <4>4, <4>5, DispatchLasting
            <4>7. completed'[t] = completed[t]
                BY <1>1, <2>5, <3>2
            <4> QED BY <1>2, <2>1, <4>6, <4>7 DEF Safe, Lasting
        <3> QED BY <3>1, <3>2
    <2> QED BY <1>8, <2>3, <2>4, <2>5 DEF ConsumeResult
<1>9. ASSUME NEW w \in Workers, SendFails(w) PROVE Safe(t)'
    <2> DEFINE d == [s EXCEPT !.sends[w] = Tail(@)]
               job == Head(s.sends[w])
    <2>1. job \in Jobs /\ Tail(s.sends[w]) \in Seq(Jobs)
        BY <1>1, <1>9 DEF SendFails, DispatchState
    <2>2. /\ d \in DispatchState
          /\ d.queue = s.queue /\ d.pending = s.pending
          /\ d.send_attempts = s.send_attempts
        BY <1>1, <2>1 DEF DispatchState
    <2>3. s' \in RetryOrRequeue(d, job)
        BY <1>9 DEF SendFails
    <2> HIDE DEF d, job
    <2>4. Lasting(s, t) => Lasting(d, t)
        BY <2>2, LastingSame
    <2>5. Lasting(s, t) => Lasting(s', t)
        BY <2>1, <2>2, <2>3, <2>4, RetryLasting
    <2>6. active /\ completed' = completed
        BY <1>9 DEF SendFails, ghostVars
    <2> QED BY <1>2, <2>5, <2>6 DEF Safe, Lasting
<1>10. CASE Prime \/ DispatchQueued \/ Redispatch
    <2>1. active /\ completed' = completed
        BY <1>10 DEF Prime, DispatchQueued, Redispatch, ghostVars
    <2>2. \E x \in Targets : s' = Dispatch(s, x)
        BY <1>1, <1>10, ForemostSubset DEF Prime, DispatchQueued, Redispatch
    <2> QED BY <1>4, <2>1, <2>2
<1>11. CASE ReassignNext
    <2>1. active /\ completed' = completed
        BY <1>11 DEF ReassignNext, ghostVars
    <2>2. \E u \in Tiles : s' \in ReassignTile(s, u)
        BY <1>1, <1>11 DEF ReassignNext
    <2> QED BY <1>5, <2>1, <2>2
<1>12. CASE \/ StartRender \/ StartRefused \/ KickAllWorkers \/ PruneClosedSockets
            \/ Stop \/ Start \/ Tick \/ RenderLocally \/ LocalRenderRaises
            \/ TasksDrained \/ ConsumeRaises \/ ResultsDrained
            \/ ReassignDone \/ Forget
    <2>1. /\ active /\ completed' = completed
          /\ s'.queue = s.queue /\ s'.pending = s.pending
          /\ s'.send_attempts = s.send_attempts
        BY <1>1, <1>12 DEF StartRender, StartRefused, KickAllWorkers,
            PruneClosedSockets, Stop, Start, Tick, RenderLocally, LocalRenderRaises,
            TasksDrained, ConsumeRaises, TickRaises, ResultsDrained, ReassignDone,
            Forget, serverVars, ghostVars, DispatchState
    <2> QED BY <1>3, <2>1
<1>13. ASSUME NEW w \in Workers,
              \/ SendJob(w) \/ ReceiveResult(w) \/ HandlerExit(w) \/ ServerTakeover(w)
              \/ Register(w)
       PROVE  Safe(t)'
    <2>1. /\ active /\ completed' = completed
          /\ s'.queue = s.queue /\ s'.pending = s.pending
          /\ s'.send_attempts = s.send_attempts
        BY <1>1, <1>13 DEF SendJob, ReceiveResult, HandlerExit, ServerTakeover,
            BeginReassign, Register, ghostVars, DispatchState
    <2> QED BY <1>3, <2>1
<1>14. ASSUME NEW w \in Workers, WorkerStep(w) \/ Disconnect(w) \/ WorkerRestarts(w)
       PROVE  Safe(t)'
    <2>1. active /\ completed' = completed /\ s' = s
        BY <1>14 DEF WorkerStep, WorkerRenders, WorkerRenderRaises, WorkerIgnores,
            WorkerAborts, Disconnect, WorkerRestarts, serverVars, ghostVars
    <2> QED BY <1>3, <2>1
<1>15. CASE UNCHANGED vars
    BY <1>3, <1>15 DEF vars, serverVars, ghostVars
<1> QED BY <1>6, <1>7, <1>8, <1>9, <1>10, <1>11, <1>12, <1>13, <1>14, <1>15
        DEF Next, UserStep, MainStep, LoopStep, EnvStep

\* While a render runs, each of its tiles is queued, pending or completed, or its
\* sends failed more than max_retries times: no interleaving of the two threads,
\* no loss of a worker and no late result makes a tile vanish.
THEOREM NothingLost == Spec => []NoTileLost
<1>1. Init => NoTileLost
    BY DEF Init, NoTileLost
<1> QED BY <1>1, InitType, TypeStep, NoTileLostStep, PTL DEF Spec
=============================================================================
