--------------------- MODULE TileDispatchPromise_proofs ---------------------
(* The dispatcher implements RenderPromise, for every value of the constants. *)
EXTENDS TileDispatch_proofs, FiniteSetTheorems

\* Tables from which no tile can become pending
Quiet(d) == /\ d.abort \/ d.targets = {}
            /\ \A t \in Tiles : d.pending[t] = 0

\* Between renders the tables are quiet, so that no late result is taken for a
\* tile while expected_jobs is 0; what is configured is a render that has started;
\* and a render not yet started has no image.
PromiseInv ==
    /\ ~config => Quiet(s)
    /\ config => render \in Renders
    /\ \A r \in Renders : r > render => stitched[r] = 0

LEMMA QuietDispatch ==
    ASSUME NEW d \in DispatchState, NEW x \in Targets, Quiet(d)
    PROVE  Dispatch(d, x) = d
BY DEF Quiet, Dispatch, Dispatchable

LEMMA QuietReassign ==
    ASSUME NEW d, NEW t \in Tiles, NEW e \in ReassignTile(d, t), Quiet(d)
    PROVE  e = d
BY DEF Quiet, ReassignTile

LEMMA QuietRetry ==
    ASSUME NEW d \in DispatchState, NEW job \in Jobs, NEW e \in RetryOrRequeue(d, job),
           Quiet(d)
    PROVE  Quiet(e)
<1> DEFINE r == Released(d, job.tile)
           u == [r EXCEPT !.owner[job.tile] = NoOwner, !.send_attempts[job] = @ + 1]
           v == [u EXCEPT !.queue = <<job>> \o @]
           w == [u EXCEPT !.pending[job.tile] = 0]
           idle == {x \in v.targets : Idle(v, x)}
<1>1. job.tile \in Tiles
    BY DEF Jobs
<1>2. r \in DispatchState
    BY <1>1, ReleasedType
<1>3. r.abort = d.abort /\ r.targets = d.targets /\ r.pending = d.pending
    BY DEF Released, DispatchState
<1> HIDE DEF r
<1>4. Quiet(v)
    BY <1>2, <1>3 DEF Quiet, DispatchState
<1>5. Quiet(w)
    BY <1>1, <1>2, <1>3 DEF Quiet, DispatchState
<1>6. \A x : Dispatchable(v, x) = FALSE
    BY <1>4 DEF Quiet, Dispatchable
<1>7. \A x : Dispatch(v, x) = v
    BY <1>6 DEF Dispatch
<1>8. e \in {v, w} \/ \E x \in Foremost(idle) : e = Dispatch(v, x)
    BY DEF RetryOrRequeue, r
<1> QED BY <1>4, <1>5, <1>7, <1>8

LEMMA PromiseInvStep ==
    ASSUME TypeInv, PromiseInv, [Next]_vars
    PROVE  PromiseInv'
<1>1. /\ s \in DispatchState
      /\ main.todo \subseteq Targets /\ loop.todo \subseteq Targets
      /\ loop.tiles \subseteq Tiles
      /\ render \in 0..MaxRenders
      /\ stitched \in [Renders -> Nat]
    BY DEF TypeInv, TypeOK
<1>2. ASSUME UNCHANGED <<config, render, stitched>>,
             ~config => Quiet(s)'
      PROVE  PromiseInv'
    BY <1>2 DEF PromiseInv
<1>3. CASE StartChecked
    <2>1. render' = render + 1 /\ render < MaxRenders /\ stitched' = stitched
        BY <1>3 DEF StartChecked, TypeInv, StartBound
    <2>2. render' \in Renders /\ \A r \in Renders : r > render' => r > render
        BY <1>1, <2>1, DispatchAssumption DEF Renders
    <2> QED BY <1>3, <2>1, <2>2 DEF StartChecked, PromiseInv
<1>4. CASE CancelRender \/ ResetRuntime
    <2>1. CASE CancelRender
        <3>1. s' = [ClearedTables(s.targets, << >>) EXCEPT !.abort = TRUE]
            BY <2>1 DEF CancelRender
        <3>2. s'.abort = TRUE /\ s'.pending = [t \in Tiles |-> 0]
            BY <1>1, <3>1 DEF ClearedTables, DispatchState
        <3> QED BY <2>1, <3>2 DEF CancelRender, PromiseInv, Quiet
    <2>2. CASE ResetRuntime
        <3>1. s' = [ClearedTables({}, << >>) EXCEPT !.defer = FALSE]
            BY <2>2 DEF ResetRuntime
        <3>2. s'.targets = {} /\ s'.pending = [t \in Tiles |-> 0]
            BY <1>1, <3>1 DEF ClearedTables, DispatchState
        <3> QED BY <2>2, <3>2 DEF ResetRuntime, PromiseInv, Quiet
    <2> QED BY <1>4, <2>1, <2>2
<1>5. CASE ConsumeResult
    <2> DEFINE k == Head(result_queue).job.tile
    <2>1. k \in Tiles
        <3>1. Head(result_queue) \in Results
            BY <1>5 DEF ConsumeResult, TypeInv, TypeOK
        <3> QED BY <3>1 DEF Results, Jobs
    <2>2. UNCHANGED <<config, expected_jobs, render>>
        BY <1>5 DEF ConsumeResult
    <2>3. stitched' = stitched \/ stitched' = [stitched EXCEPT ![render] = @ + 1]
        BY <1>5 DEF ConsumeResult, Finalize
    <2>4. \A r \in Renders : r > render => stitched'[r] = stitched[r]
        BY <1>1, <2>3, DispatchAssumption DEF Renders
    <2>5. ~config => s' = s
        BY <1>5, <2>1, QuietReassign DEF ConsumeResult, PromiseInv, Quiet
    <2>6. ~config => Quiet(s)'
        BY <2>5 DEF PromiseInv, Quiet
    <2> QED BY <2>2, <2>4, <2>6 DEF PromiseInv
<1>6. ASSUME NEW w \in Workers, SendFails(w) PROVE PromiseInv'
    <2> DEFINE d == [s EXCEPT !.sends[w] = Tail(@)]
               job == Head(s.sends[w])
    <2>1. job \in Jobs /\ Tail(s.sends[w]) \in Seq(Jobs)
        BY <1>1, <1>6 DEF SendFails, DispatchState
    <2>2. /\ d \in DispatchState
          /\ d.pending = s.pending /\ d.abort = s.abort /\ d.targets = s.targets
        BY <1>1, <2>1 DEF DispatchState
    <2>3. s' \in RetryOrRequeue(d, job)
        BY <1>6 DEF SendFails
    <2> HIDE DEF d, job
    <2>4. Quiet(s) => Quiet(s')
        BY <2>1, <2>2, <2>3, QuietRetry DEF Quiet
    <2>5. UNCHANGED <<config, expected_jobs, render, stitched>>
        BY <1>6 DEF SendFails, ghostVars
    <2> QED BY <1>2, <2>4, <2>5 DEF PromiseInv, Quiet
<1>7. CASE Prime \/ DispatchQueued \/ Redispatch
    <2>1. \E x \in Targets : s' = Dispatch(s, x)
        BY <1>1, <1>7, ForemostSubset DEF Prime, DispatchQueued, Redispatch
    <2>2. Quiet(s) => s' = s
        BY <1>1, <2>1, QuietDispatch
    <2>3. UNCHANGED <<config, expected_jobs, render, stitched>>
        BY <1>7 DEF Prime, DispatchQueued, Redispatch, ghostVars
    <2> QED BY <1>2, <2>2, <2>3 DEF PromiseInv, Quiet
<1>8. CASE ReassignNext
    <2>1. \E t \in Tiles : s' \in ReassignTile(s, t)
        BY <1>1, <1>8 DEF ReassignNext
    <2>2. Quiet(s) => s' = s
        BY <2>1, QuietReassign
    <2>3. UNCHANGED <<config, expected_jobs, render, stitched>>
        BY <1>8 DEF ReassignNext, ghostVars
    <2> QED BY <1>2, <2>2, <2>3 DEF PromiseInv, Quiet
<1>9. CASE \/ StartRender \/ StartRefused \/ KickAllWorkers \/ PruneClosedSockets
           \/ Stop \/ Start \/ Tick \/ RenderLocally \/ LocalRenderRaises
           \/ TasksDrained \/ ConsumeRaises \/ ResultsDrained
           \/ ReassignDone \/ Forget
    <2>1. /\ UNCHANGED <<config, expected_jobs, render, stitched>>
          /\ s'.pending = s.pending /\ s'.abort = s.abort /\ s'.targets = s.targets
        BY <1>1, <1>9 DEF StartRender, StartRefused, KickAllWorkers,
            PruneClosedSockets, Stop, Start, Tick, RenderLocally, LocalRenderRaises,
            TasksDrained, ConsumeRaises, TickRaises, ResultsDrained, ReassignDone,
            Forget, serverVars, ghostVars, DispatchState
    <2> QED BY <1>2, <2>1 DEF PromiseInv, Quiet
<1>10. ASSUME NEW w \in Workers,
              \/ SendJob(w) \/ ReceiveResult(w) \/ HandlerExit(w) \/ ServerTakeover(w)
              \/ Register(w)
       PROVE  PromiseInv'
    <2>1. UNCHANGED <<config, expected_jobs, render, stitched>>
        BY <1>10 DEF SendJob, ReceiveResult, HandlerExit, ServerTakeover,
            BeginReassign, Register, ghostVars
    <2>2. CASE SendJob(w) \/ ReceiveResult(w) \/ Register(w)
        <3>1. /\ s'.pending = s.pending /\ s'.abort = s.abort
              /\ s'.targets = s.targets
            BY <1>1, <2>2 DEF SendJob, ReceiveResult, Register, DispatchState
        <3> QED BY <1>2, <2>1, <3>1 DEF PromiseInv, Quiet
    <2>3. CASE BeginReassign(w)
        <3>1. \/ s' = s
              \/ s' = [s EXCEPT !.targets = @ \ {w}, !.inflight[w] = 0]
            BY <2>3 DEF BeginReassign
        <3>2. /\ s'.pending = s.pending /\ s'.abort = s.abort
              /\ s'.targets \subseteq s.targets
            BY <1>1, <3>1 DEF DispatchState
        <3> QED BY <1>2, <2>1, <3>2 DEF PromiseInv, Quiet
    <2> QED BY <1>10, <2>2, <2>3 DEF HandlerExit, ServerTakeover
<1>11. ASSUME NEW w \in Workers, WorkerStep(w) \/ Disconnect(w) \/ WorkerRestarts(w)
       PROVE  PromiseInv'
    <2>1. UNCHANGED <<s, config, expected_jobs, render, stitched>>
        BY <1>11 DEF WorkerStep, WorkerRenders, WorkerRenderRaises, WorkerIgnores,
            WorkerAborts, Disconnect, WorkerRestarts, serverVars, ghostVars
    <2> QED BY <1>2, <2>1 DEF PromiseInv, Quiet
<1>12. CASE UNCHANGED vars
    BY <1>2, <1>12 DEF vars, serverVars, ghostVars, PromiseInv, Quiet
<1>13. CASE StartServer
    <2>1. s'.abort = s.abort /\ s'.targets = s.targets /\ s'.pending = [t \in Tiles |-> 0]
        BY <1>1, <1>13 DEF StartServer, DispatchState
    <2> QED BY <1>13, <2>1 DEF StartServer, PromiseInv, Quiet
<1> QED BY <1>3, <1>4, <1>5, <1>6, <1>7, <1>8, <1>9, <1>10, <1>11, <1>12, <1>13
        DEF Next, UserStep, MainStep, LoopStep, EnvStep

-----------------------------------------------------------------------------
\* As many tiles as expected_jobs counts are all the tiles.
LEMMA AllTiles ==
    ASSUME NEW D \in SUBSET Tiles, Cardinality(D) >= NumTiles
    PROVE  D = Tiles
<1>1. IsFiniteSet(Tiles) /\ Cardinality(Tiles) = NumTiles
    BY FS_Interval, DispatchAssumption DEF Tiles
<1>2. /\ IsFiniteSet(D)
      /\ Cardinality(D) <= Cardinality(Tiles)
      /\ Cardinality(D) = Cardinality(Tiles) => D = Tiles
    BY <1>1, FS_Subset
<1>3. Cardinality(D) \in Nat
    BY <1>2, FS_CardinalityType
<1> QED BY <1>1, <1>2, <1>3, DispatchAssumption

LEMMA PromiseStep ==
    ASSUME TypeInv, PromiseInv, [Next]_vars
    PROVE  [Promise!Next]_(Promise!vars)
<1>1. /\ s \in DispatchState
      /\ render \in 0..MaxRenders
      /\ stitched \in [Renders -> Nat]
      /\ completed \in [Tiles -> 0..MaxRenders]
      /\ expected_jobs \in {0, NumTiles} /\ NumTiles \in Nat \ {0}
    BY DispatchAssumption DEF TypeInv, TypeOK
<1>2. ASSUME UNCHANGED <<config, expected_jobs, completed, stitched, render>>
      PROVE  UNCHANGED Promise!vars
    BY <1>2 DEF Promise!vars, promisedPhase, promisedDone, Interrupted
<1>3. CASE StartChecked
    <2>1. /\ config' /\ expected_jobs' = NumTiles
          /\ render' \in Renders /\ render' > render /\ stitched' = stitched
        <3>1. render' = render + 1 /\ render < MaxRenders
            BY <1>3 DEF StartChecked, TypeInv, StartBound
        <3> QED BY <1>1, <1>3, <3>1, DispatchAssumption DEF StartChecked, Renders
    <2>2. stitched'[render'] = 0
        BY <2>1 DEF PromiseInv
    <2>3. \A t \in Tiles : completed'[t] = 0
        BY <1>3 DEF StartChecked
    <2>4. Promise!Begin
        BY <1>1, <2>1, <2>2, <2>3
        DEF Promise!Begin, promisedPhase, promisedDone, Interrupted
    <2> QED BY <2>4 DEF Promise!Next
<1>4. CASE CancelRender \/ ResetRuntime
    <2>1. ~config'
        BY <1>4 DEF CancelRender, ResetRuntime
    <2>2. Promise!GiveUp
        BY <2>1 DEF Promise!GiveUp, promisedPhase, promisedDone
    <2> QED BY <2>2 DEF Promise!Next
<1>5. CASE ConsumeResult
    <2> DEFINE r == Head(result_queue)
               k == r.job.tile
               D == {t \in Tiles : completed'[t] # 0}
    <2>1. CASE UNCHANGED <<completed, stitched>>
        BY <1>2, <1>5, <2>1 DEF ConsumeResult
    <2>2. CASE Interrupted
        <3>1. Interrupted'
            BY <1>5, <2>2 DEF ConsumeResult, Interrupted
        <3> QED BY <1>5, <2>2, <3>1
                DEF Promise!vars, promisedPhase, promisedDone, Interrupted, ConsumeResult
    <2>3. CASE /\ ~Interrupted
               /\ s.pending[k] # 0
               /\ completed' = [completed EXCEPT ![k] = r.job.render]
               /\ Finalize(s', completed')
        <3>1. k \in Tiles /\ r.job.render # 0
            <4>1. r \in Results
                BY <1>5 DEF ConsumeResult, TypeInv, TypeOK
            <4> QED BY <4>1, DispatchAssumption DEF Results, Jobs, Renders
        <3>2. config /\ config' /\ expected_jobs = NumTiles /\ render' = render
              /\ render \in Renders
            BY <1>1, <1>5, <2>3, <3>1 DEF ConsumeResult, PromiseInv, Quiet, Interrupted
        <3> ~Interrupted /\ ~Interrupted'
            BY <1>1, <1>5, <2>3 DEF ConsumeResult, Interrupted
        <3>3. D = {t \in Tiles : completed[t] # 0} \cup {k}
            BY <1>1, <2>3, <3>1
        <3>4. promisedDone' = promisedDone \cup {k} /\ promisedDone' = D
            BY <3>2, <3>3 DEF promisedDone
        <3>5. promisedPhase \in {"rendering", "stitched"}
            BY <3>2 DEF promisedPhase
        <3>6. \/ stitched' = stitched
              \/ /\ stitched' = [stitched EXCEPT ![render] = @ + 1]
                 /\ Cardinality(D) >= NumTiles
            BY <2>3, <3>2 DEF Finalize, AllIn
        <3>7. CASE stitched' = stitched
            <4>1. promisedPhase' = promisedPhase
                BY <3>2, <3>7 DEF promisedPhase
            <4> QED BY <3>1, <3>4, <3>5, <4>1 DEF Promise!Next, Promise!Complete
        <3>8. CASE /\ stitched' = [stitched EXCEPT ![render] = @ + 1]
                   /\ Cardinality(D) >= NumTiles
            <4>1. stitched'[render'] > 0
                BY <1>1, <3>2, <3>8
            <4>2. promisedPhase' = "stitched"
                BY <3>2, <4>1 DEF promisedPhase
            <4>3. D = Tiles
                BY <3>8, AllTiles
            <4> QED BY <3>1, <3>4, <3>5, <4>2, <4>3 DEF Promise!Next, Promise!Complete
        <3> QED BY <3>6, <3>7, <3>8
    <2> QED BY <1>5, <2>1, <2>2, <2>3 DEF ConsumeResult
<1>6. CASE \/ StartRender \/ StartRefused \/ KickAllWorkers \/ PruneClosedSockets
           \/ Stop \/ Start \/ Prime \/ Tick \/ RenderLocally \/ LocalRenderRaises
           \/ TasksDrained \/ ConsumeRaises \/ ResultsDrained \/ DispatchQueued
           \/ LoopStep /\ ~StartServer
    <2>1. UNCHANGED <<config, expected_jobs, completed, stitched, render>>
        BY <1>6 DEF StartRender, StartRefused, KickAllWorkers, PruneClosedSockets,
            Stop, Start, Prime, Tick, RenderLocally, LocalRenderRaises, TasksDrained,
            ConsumeRaises, TickRaises, ResultsDrained, DispatchQueued, LoopStep,
            serverVars, ReassignNext, ReassignDone, Redispatch, Forget, SendJob,
            SendFails, ReceiveResult, HandlerExit, BeginReassign, ghostVars
    <2> QED BY <1>2, <2>1
<1>7. CASE EnvStep \/ \E w \in Workers : WorkerStep(w)
    <2>1. UNCHANGED <<config, expected_jobs, completed, stitched, render>>
        BY <1>7 DEF EnvStep, Register, ServerTakeover, BeginReassign, Disconnect,
            WorkerRestarts, WorkerStep, WorkerRenders, WorkerRenderRaises,
            WorkerIgnores, WorkerAborts, serverVars, ghostVars
    <2> QED BY <1>2, <2>1
<1>8. CASE UNCHANGED vars
    BY <1>2, <1>8 DEF vars, serverVars, ghostVars
<1>9. CASE StartServer
    <2>1. UNCHANGED <<config, stitched, render>> /\ expected_jobs' = 0
        BY <1>9 DEF StartServer
    <2>2. CASE config
        <3>1. Promise!Interrupt
            BY <1>1, <2>1, <2>2
            DEF Promise!Interrupt, promisedPhase, promisedDone, Interrupted
        <3> QED BY <3>1 DEF Promise!Next
    <2>3. CASE ~config
        BY <2>1, <2>3 DEF Promise!vars, promisedPhase, promisedDone
    <2> QED BY <2>2, <2>3
<1> QED BY <1>3, <1>4, <1>5, <1>6, <1>7, <1>8, <1>9 DEF Next, UserStep, MainStep, LoopStep

\* The dispatcher implements RenderPromise: the image of a render is written only
\* when all its tiles are in, and no tile that is in is taken back, in every
\* interleaving of the two threads and whatever the environment does, but for a
\* render whose server is stopped and started; the promise of the next one holds.
THEOREM PromiseHolds == Spec => PromiseKept
<1>1. Init => PromiseInv
    BY DEF Init, PromiseInv, Quiet
<1>2. Init => Promise!Init
    BY DEF Init, Promise!Init, promisedPhase, promisedDone
<1>3. Spec => [](TypeInv /\ PromiseInv)
    BY <1>1, InitType, TypeStep, PromiseInvStep, PTL DEF Spec
<1> QED BY <1>2, <1>3, PromiseStep, PTL DEF Spec, PromiseKept, Promise!Spec
=============================================================================
