---------------------------- MODULE TileDispatch ----------------------------
(* Server-side tile dispatch of DistributedRenderManager (worker.py) and the *)
(* part of a worker that takes, renders and returns tiles.                   *)
(*                                                                           *)
(* Two threads of the server share the dispatch tables without a lock:       *)
(*   main  Blender's main thread: UI operators and the 0.1 s timer tick      *)
(*         (process_main_thread_queues), program counter main.pc;            *)
(*   loop  the asyncio thread: socket handlers and the _send coroutines,     *)
(*         program counter loop.pc.                                          *)
(* One call of _dispatch_next_job_for_target, _reassign_tile,                *)
(* _retry_or_requeue_job or _consume_tile_result is one step; the loops that *)
(* call them are not, so the other thread may run between two iterations.    *)
EXTENDS Integers, Sequences, FiniteSets

CONSTANTS Workers,        \* worker processes
          MASTER,         \* the server as a render target
          NoOwner,        \* a tile with no entry in job_owner
          NumTiles,       \* tiles of a render
          MaxRetries,     \* the setting max_retries
          ServerRenders,  \* values the setting server_render_tiles may take
          MaxRenders,     \* bound: renders started
          MaxDrops,       \* bound: workers lost and stops of the server
          Events          \* which events of the environment and of the user occur

EventNames == {"disconnect", "takeover", "slow_handler", "render_failure", "raise",
               "stitch_failure", "kick", "prune", "cancel", "reset", "restart"}

ASSUME DispatchAssumption ==
    /\ IsFiniteSet(Workers)
    /\ MASTER \notin Workers
    /\ NoOwner \notin Workers \cup {MASTER}
    /\ NumTiles \in Nat \ {0}
    /\ MaxRetries \in Nat
    /\ ServerRenders \in SUBSET BOOLEAN \ {{}}
    /\ MaxRenders \in Nat \ {0}
    /\ MaxDrops \in Nat
    /\ Events \subseteq EventNames

Tiles   == 1..NumTiles
Renders == 1..MaxRenders
Targets == Workers \cup {MASTER}
Owners  == Targets \cup {NoOwner}

\* A job names the render that queued it: the code reuses the ids "0", "1", ...
Jobs    == [render : Renders, tile : Tiles]
Results == [job : Jobs, ok : BOOLEAN]

VARIABLES
    s,              \* the dispatch tables both threads use, see DispatchState
    completed,      \* completed_jobs: tile -> render that drew it, 0 when absent
    expected_jobs,
    config,         \* current_render_config is set
    result_queue,   \* _result_queue
    main,           \* main thread: pc and the targets its loop has left
    loop,           \* asyncio thread: pc, departing worker, tiles and targets left
    sock,           \* worker -> its connection is open
    early,          \* worker -> sends queued before its connection closed
    jobs,           \* worker -> jobs it received and has not rendered
    aborted,        \* worker -> its render_abort_requested
    aborting,       \* workers a MSG_RENDER_ABORT is under way to
    transit,        \* worker -> bag of results under way to the server
    dead,           \* nodes whose timer Blender has dropped: no tick any more
    server,         \* the server: "up", "stopped", or "starting" again
    render,         \* ghost: renders started so far
    active,         \* ghost: start_distributed_render returned True, no cancel since
    stitched,       \* ghost: render -> times _finalize_render wrote its image
    drops           \* ghost: workers lost, and stops of the server, so far

serverVars == <<s, completed, expected_jobs, config, result_queue, main, loop>>
workerVars == <<sock, early, jobs, aborted, aborting, transit, dead, server>>
ghostVars  == <<render, active, stitched, drops>>
vars       == <<serverVars, workerVars, ghostVars>>

DispatchState ==
    [connected     : SUBSET Workers,             \* keys of connected_workers
     targets       : SUBSET Targets,             \* dispatch_targets
     queue         : Seq(Jobs),                  \* job_queue
     pending       : [Tiles -> 0..MaxRenders],   \* pending_jobs, 0 when absent
     owner         : [Tiles -> Owners],          \* job_owner
     attempts      : [Tiles -> Nat],             \* job_attempts
     send_attempts : [Jobs -> Nat],              \* job["send_attempts"]
     inflight      : [Targets -> Nat],           \* target_inflight
     defer         : BOOLEAN,                    \* _defer_master_until_workers_primed
     abort         : BOOLEAN,                    \* render_abort_requested
     server_renders: BOOLEAN,                    \* server_render_tiles
     tasks         : Seq(Jobs),                  \* _task_queue
     sends         : [Workers -> Seq(Jobs)]]     \* _send coroutines not yet run

NoResults == [r \in Results |-> 0]

-----------------------------------------------------------------------------
(* Operators on the dispatch tables *)

\* Mutated: without the max(0, ...).
DecUnclamped(n) == n - 1

Dec(n) == IF n = 0 THEN 0 ELSE n - 1

JobOf(r, t) == [render |-> r, tile |-> t]

\* Loops over dispatch_targets meet the workers, in any order, before MASTER.
Foremost(S) == IF S \subseteq {MASTER} THEN S ELSE S \ {MASTER}

Transmit(d, x, job) ==
    IF x = MASTER THEN [d EXCEPT !.tasks = Append(@, job)]
                  ELSE [d EXCEPT !.sends[x] = Append(@, job)]

Idle(d, x) == d.inflight[x] = 0

\* Mutated: waits for targets that are no longer connected, too.
MasterWaitsForTheLost(d, x) ==
    x = MASTER /\ d.defer /\ \E w \in d.targets \ {MASTER} : Idle(d, w)

MasterMustWait(d, x) ==
    /\ x = MASTER
    /\ d.defer
    /\ \E w \in d.targets \cap d.connected : Idle(d, w)

Dispatchable(d, x) ==
    /\ ~d.abort
    /\ x \in d.targets
    /\ Idle(d, x)
    /\ x \in Workers => x \in d.connected
    /\ ~MasterMustWait(d, x)

HandOut(d, x, job) ==
    Transmit([d EXCEPT !.queue = Tail(@),
                       !.pending[job.tile] = job.render,
                       !.owner[job.tile] = x,
                       !.inflight[x] = @ + 1], x, job)

\* _dispatch_next_job_for_target
Dispatch(d, x) ==
    LET u == [d EXCEPT !.defer = @ /\ x # MASTER]
    IN  IF ~Dispatchable(d, x) THEN d
        ELSE IF d.queue = << >> THEN u
        ELSE HandOut(u, x, Head(d.queue))

\* target_inflight of the owner of t, if there is one, goes down by one.
Released(d, t) ==
    IF d.owner[t] = NoOwner THEN d ELSE [d EXCEPT !.inflight[d.owner[t]] = Dec(@)]

Candidates(d, prev) ==
    LET live == {w \in d.connected \cap d.targets : w # prev}
                \cup (d.targets \cap {MASTER})
    IN  IF live = {} /\ d.server_renders THEN {MASTER} ELSE live

LeastLoaded(d, C) ==
    Foremost({x \in C : \A y \in C : d.inflight[x] <= d.inflight[y]})

\* Mutated: the last retry is not made.
StopsReassigningEarly(n) == n >= MaxRetries

StopsReassigning(n) == n > MaxRetries

\* _reassign_tile: the states it can leave the tables in
ReassignTile(d, t) ==
    LET u    == [Released(d, t) EXCEPT !.attempts[t] = @ + 1]
        best == LeastLoaded(u, Candidates(d, d.owner[t]))
    IN  IF d.pending[t] = 0 THEN {d}
        ELSE IF StopsReassigning(u.attempts[t]) \/ best = {} THEN {u}
        ELSE {Transmit([u EXCEPT !.owner[t] = x, !.inflight[x] = @ + 1],
                       x, JobOf(d.pending[t], t)) : x \in best}

\* Mutated: the last retry is not made.
StopsResendingEarly(n) == n >= MaxRetries

StopsResending(n) == n > MaxRetries

\* _retry_or_requeue_job: the states it can leave the tables in
RetryOrRequeue(d, job) ==
    LET u == [Released(d, job.tile) EXCEPT !.owner[job.tile] = NoOwner,
                                           !.send_attempts[job] = @ + 1]
        v == [u EXCEPT !.queue = <<job>> \o @]
        idle == {x \in v.targets : Idle(v, x)}
    IN  IF StopsResending(u.send_attempts[job])
        THEN {[u EXCEPT !.pending[job.tile] = 0]}
        ELSE IF idle = {} THEN {v}
        ELSE {Dispatch(v, x) : x \in Foremost(idle)}

-----------------------------------------------------------------------------
(* Main thread: UI operators *)

MainIdle == main.pc = "idle"

Snapshot(master) == s.connected \cup (IF master THEN {MASTER} ELSE {})

GoMain(pc, todo) ==
    main' = [pc |-> IF pc \in {"prime", "dispatch"} /\ todo = {} THEN "idle" ELSE pc,
             todo |-> todo]

\* start_distributed_render: the settings are read and the workers listed before
\* the project sync and the integrity check, which block the main thread for
\* seconds.
StartRender ==
    /\ MainIdle
    /\ render < MaxRenders
    /\ \E master \in ServerRenders :
          /\ s' = [s EXCEPT !.server_renders = master]
          /\ GoMain("checking", Snapshot(master))
    /\ UNCHANGED <<completed, expected_jobs, config, result_queue, loop,
                   workerVars, ghostVars>>

StartRefused ==
    /\ main.pc = "checking"
    /\ GoMain("idle", {})
    /\ UNCHANGED <<s, completed, expected_jobs, config, result_queue, loop,
                   workerVars, ghostVars>>

ClearedTables(targets, queue) ==
    [s EXCEPT !.targets = targets,
              !.queue = queue,
              !.pending = [t \in Tiles |-> 0],
              !.owner = [t \in Tiles |-> NoOwner],
              !.attempts = [t \in Tiles |-> 0],
              !.inflight = [x \in Targets |-> 0],
              !.abort = FALSE]

StartChecked ==
    /\ main.pc = "checking"
    /\ render' = render + 1
    /\ s' = [ClearedTables(main.todo, IF main.todo = {} THEN << >>
                           ELSE [t \in Tiles |-> JobOf(render', t)])
             EXCEPT !.defer = IF main.todo = {} THEN @
                              ELSE s.server_renders /\ main.todo # {MASTER}]
    /\ completed' = [t \in Tiles |-> 0]
    /\ expected_jobs' = NumTiles
    /\ config' = TRUE
    /\ active' = (main.todo # {})
    /\ GoMain("prime", main.todo)
    /\ UNCHANGED <<result_queue, loop, workerVars, stitched, drops>>

Prime ==
    /\ main.pc = "prime"
    /\ \E x \in Foremost(main.todo) :
          /\ s' = Dispatch(s, x)
          /\ GoMain("prime", main.todo \ {x})
    /\ UNCHANGED <<completed, expected_jobs, config, result_queue, loop,
                   workerVars, ghostVars>>

CancelRender ==
    /\ "cancel" \in Events
    /\ MainIdle
    /\ config
    /\ s' = [ClearedTables(s.targets, << >>) EXCEPT !.abort = TRUE]
    /\ expected_jobs' = 0
    /\ config' = FALSE
    /\ active' = FALSE
    /\ aborting' = aborting \cup {w \in s.connected : sock[w]}
    /\ UNCHANGED <<completed, result_queue, main, loop, sock, early, jobs, aborted,
                   transit, dead, server, render, stitched, drops>>

ResetRuntime ==
    /\ "reset" \in Events
    /\ MainIdle
    /\ s' = [ClearedTables({}, << >>) EXCEPT !.defer = FALSE]
    /\ completed' = [t \in Tiles |-> 0]
    /\ expected_jobs' = 0
    /\ config' = FALSE
    /\ active' = FALSE
    /\ UNCHANGED <<result_queue, main, loop, workerVars, render, stitched, drops>>

KickAllWorkers ==
    /\ "kick" \in Events
    /\ MainIdle
    /\ s.connected # {}
    /\ s' = [s EXCEPT !.connected = {}, !.defer = FALSE]
    /\ UNCHANGED <<completed, expected_jobs, config, result_queue, main, loop,
                   workerVars, ghostVars>>

\* _active_worker_ids, called by the sync and clean buttons
PruneClosedSockets ==
    /\ "prune" \in Events
    /\ MainIdle
    /\ s' = [s EXCEPT !.connected = {w \in @ : sock[w]}]
    /\ UNCHANGED <<completed, expected_jobs, config, result_queue, main, loop,
                   workerVars, ghostVars>>

\* stop, on the main thread; the asyncio thread closes the connections after it.
Stop ==
    /\ "restart" \in Events
    /\ MainIdle
    /\ server # "stopped"
    /\ server' = "stopped"
    /\ drops < MaxDrops
    /\ drops' = drops + 1
    /\ UNCHANGED <<serverVars, sock, early, jobs, aborted, aborting, transit, dead,
                   render, active, stitched>>

Start ==
    /\ MainIdle
    /\ server = "stopped"
    /\ server' = "starting"
    /\ UNCHANGED <<serverVars, sock, early, jobs, aborted, aborting, transit, dead,
                   ghostVars>>

-----------------------------------------------------------------------------
(* Main thread: process_main_thread_queues *)

\* The answer of a render that came to an end: ok, or the scene or its signature
\* was wrong, or the PNG arrived damaged. One that raises gives no answer at all.
Outcomes == IF "render_failure" \in Events THEN BOOLEAN ELSE {TRUE}

\* The tick after a stop returns None: it is the last one, and the timer of the
\* next start is not registered again.
Tick ==
    /\ MainIdle
    /\ MASTER \notin dead
    /\ GoMain("tasks", {})
    /\ dead' = IF server = "stopped" THEN dead \cup {MASTER} ELSE dead
    /\ UNCHANGED <<s, completed, expected_jobs, config, result_queue, loop, sock,
                   early, jobs, aborted, aborting, transit, server, ghostVars>>

\* An exception nobody catches leaves _tick, and Blender drops the timer.
TickRaises ==
    /\ "raise" \in Events
    /\ GoMain("idle", {})
    /\ dead' = dead \cup {MASTER}
    /\ UNCHANGED <<completed, expected_jobs, config, loop, sock, early, jobs, aborted,
                   aborting, transit, server, ghostVars>>

\* One item of _task_queue: dropped after an abort, rendered on the server else.
RenderLocally ==
    /\ main.pc = "tasks"
    /\ s.tasks # << >>
    /\ s' = [s EXCEPT !.tasks = Tail(@)]
    /\ IF s.abort THEN UNCHANGED result_queue
       ELSE \E ok \in Outcomes :
               result_queue' = Append(result_queue, [job |-> Head(s.tasks), ok |-> ok])
    /\ UNCHANGED <<completed, expected_jobs, config, main, loop, workerVars, ghostVars>>

\* The render itself, or reading its file, raises: the tile was taken off the queue.
LocalRenderRaises ==
    /\ main.pc = "tasks"
    /\ s.tasks # << >>
    /\ ~s.abort
    /\ s' = [s EXCEPT !.tasks = Tail(@)]
    /\ TickRaises
    /\ UNCHANGED result_queue

TasksDrained ==
    /\ main.pc = "tasks"
    /\ s.tasks = << >>
    /\ GoMain("results", {})
    /\ UNCHANGED <<s, completed, expected_jobs, config, result_queue, loop,
                   workerVars, ghostVars>>

\* Mutated: the number of completed tiles is not looked at.
NothingOutstanding(d, done) ==
    d.queue = << >> /\ \A t \in Tiles : d.pending[t] = 0

AllIn(d, done) ==
    /\ Cardinality({t \in Tiles : done[t] # 0}) >= expected_jobs
    /\ \A t \in Tiles : d.pending[t] = 0
    /\ d.queue = << >>

\* _finalize_render, called by _consume_tile_result: stitch_tiles may raise.
Finalize(d, done) ==
    \/ /\ AllIn(d, done) /\ config
       /\ stitched' = [stitched EXCEPT ![render] = @ + 1]
    \/ /\ AllIn(d, done) /\ config => "stitch_failure" \in Events
       /\ UNCHANGED stitched

\* Mutated: the slot of the owner is not released.
AcceptedKeepingSlot(t) == [s EXCEPT !.pending[t] = 0, !.owner[t] = NoOwner]

Accepted(t) == [Released(s, t) EXCEPT !.pending[t] = 0, !.owner[t] = NoOwner]

\* _consume_tile_result
ConsumeResult ==
    /\ main.pc = "results"
    /\ result_queue # << >>
    /\ result_queue' = Tail(result_queue)
    /\ LET r == Head(result_queue)
           t == r.job.tile
       IN  \/ /\ s.pending[t] = 0
              /\ UNCHANGED <<s, completed, stitched>>
           \/ /\ s.pending[t] # 0 /\ ~r.ok
              /\ s' \in ReassignTile(s, t)
              /\ UNCHANGED <<completed, stitched>>
           \/ /\ s.pending[t] # 0 /\ r.ok
              /\ s' = IF s.owner[t] = NoOwner THEN Accepted(t)
                      ELSE Dispatch(Accepted(t), s.owner[t])
              /\ completed' = [completed EXCEPT ![t] = r.job.render]
              /\ Finalize(s', completed')
    /\ UNCHANGED <<expected_jobs, config, main, loop, workerVars, render, active, drops>>

\* The file of a tile cannot be written: nothing has been noted of its result yet.
ConsumeRaises ==
    /\ main.pc = "results"
    /\ result_queue # << >>
    /\ s.pending[Head(result_queue).job.tile] # 0
    /\ Head(result_queue).ok
    /\ result_queue' = Tail(result_queue)
    /\ TickRaises
    /\ UNCHANGED s

ResultsDrained ==
    /\ main.pc = "results"
    /\ result_queue = << >>
    /\ GoMain("dispatch", IF config /\ ~s.abort THEN s.targets ELSE {})
    /\ UNCHANGED <<s, completed, expected_jobs, config, result_queue, loop,
                   workerVars, ghostVars>>

DispatchQueued ==
    /\ main.pc = "dispatch"
    /\ \E x \in Foremost(main.todo) :
          /\ s' = Dispatch(s, x)
          /\ GoMain("dispatch", main.todo \ {x})
    /\ UNCHANGED <<completed, expected_jobs, config, result_queue, loop,
                   workerVars, ghostVars>>

-----------------------------------------------------------------------------
(* Asyncio thread *)

LoopIdle == loop.pc = "idle"

\* MSG_REGISTER_WORKER: a worker joins, or comes back after it was lost.
Register(w) ==
    /\ LoopIdle
    /\ server = "up"
    /\ ~sock[w]
    /\ w \notin s.connected
    /\ s.sends[w] = << >>
    /\ sock' = [sock EXCEPT ![w] = TRUE]
    /\ s' = [s EXCEPT !.connected = @ \cup {w}]
    /\ UNCHANGED <<completed, expected_jobs, config, result_queue, main, loop,
                   early, jobs, aborted, aborting, transit, dead, server, ghostVars>>

\* _send of _send_job_to_worker succeeds; MSG_RENDER_TILE reaches the worker.
SendJob(w) ==
    /\ LoopIdle
    /\ sock[w]
    /\ s.sends[w] # << >>
    /\ jobs' = [jobs EXCEPT ![w] = Append(@, Head(s.sends[w]))]
    /\ s' = [s EXCEPT !.sends[w] = Tail(@)]
    /\ UNCHANGED <<completed, expected_jobs, config, result_queue, main, loop,
                   sock, early, aborted, aborting, transit, dead, server, ghostVars>>

\* _send raises on a closed connection. A send queued after the close runs after
\* the handler has seen the close, unless the handler is slow.
SendFails(w) ==
    /\ LoopIdle
    /\ ~sock[w]
    /\ s.sends[w] # << >>
    /\ early[w] > 0 \/ w \notin s.connected \/ "slow_handler" \in Events
    /\ early' = [early EXCEPT ![w] = Dec(@)]
    /\ s' \in RetryOrRequeue([s EXCEPT !.sends[w] = Tail(@)], Head(s.sends[w]))
    /\ UNCHANGED <<completed, expected_jobs, config, result_queue, main, loop,
                   sock, jobs, aborted, aborting, transit, dead, server, ghostVars>>

\* MSG_TILE_RESULT, or the last message of a chunked result
ReceiveResult(w) ==
    /\ LoopIdle
    /\ \E r \in Results :
          /\ transit[w][r] > 0
          /\ transit' = [transit EXCEPT ![w][r] = @ - 1]
          /\ result_queue' = Append(result_queue, r)
    /\ UNCHANGED <<s, completed, expected_jobs, config, main, loop, sock, early,
                   jobs, aborted, aborting, dead, server, ghostVars>>

OwnedBy(w) == {t \in Tiles : s.owner[t] = w}

BeginReassign(w) ==
    /\ LoopIdle
    /\ w \in s.connected
    /\ s' = IF w \in s.targets
            THEN [s EXCEPT !.targets = @ \ {w}, !.inflight[w] = 0] ELSE s
    /\ loop' = [pc |-> "reassign", worker |-> w, tiles |-> OwnedBy(w), todo |-> {}]
    /\ UNCHANGED <<completed, expected_jobs, config, result_queue, main, workerVars>>

\* finally clause of _handle_worker_socket, for a worker still registered
HandlerExit(w) ==
    /\ ~sock[w]
    /\ BeginReassign(w)
    /\ UNCHANGED ghostVars

\* MSG_SERVER_TAKEOVER; the connection closes after the worker is forgotten.
ServerTakeover(w) ==
    /\ "takeover" \in Events
    /\ sock[w]
    /\ drops < MaxDrops
    /\ drops' = drops + 1
    /\ BeginReassign(w)
    /\ UNCHANGED <<render, active, stitched>>

\* _reassign_jobs_from_worker: one tile of the snapshot of job_owner
ReassignNext ==
    /\ loop.pc = "reassign"
    /\ \E t \in loop.tiles :
          /\ s' \in ReassignTile(s, t)
          /\ loop' = [loop EXCEPT !.tiles = @ \ {t}]
    /\ UNCHANGED <<completed, expected_jobs, config, result_queue, main,
                   workerVars, ghostVars>>

ReassignDone ==
    /\ loop.pc = "reassign"
    /\ loop.tiles = {}
    /\ loop' = [loop EXCEPT !.pc = "redispatch", !.todo = s.targets]
    /\ UNCHANGED <<s, completed, expected_jobs, config, result_queue, main,
                   workerVars, ghostVars>>

Redispatch ==
    /\ loop.pc = "redispatch"
    /\ \E x \in Foremost(loop.todo) :
          /\ s' = Dispatch(s, x)
          /\ loop' = [loop EXCEPT !.todo = @ \ {x}]
    /\ UNCHANGED <<completed, expected_jobs, config, result_queue, main,
                   workerVars, ghostVars>>

Forget ==
    /\ loop.pc = "redispatch"
    /\ loop.todo = {}
    /\ s' = [s EXCEPT !.connected = @ \ {loop.worker}]
    /\ loop' = [loop EXCEPT !.pc = "idle"]
    /\ UNCHANGED <<completed, expected_jobs, config, result_queue, main,
                   workerVars, ghostVars>>

\* _start_server of the next start, when all connections are closed. The render
\* goes on with emptied tables. The coroutines of the old event loop have run, or
\* never will.
StartServer ==
    /\ LoopIdle
    /\ server = "starting"
    /\ \A w \in Workers : ~sock[w]
    /\ server' = "up"
    /\ \E lost \in BOOLEAN :
          /\ s' = [s EXCEPT !.connected = {},
                           !.pending = [t \in Tiles |-> 0],
                           !.owner = [t \in Tiles |-> NoOwner],
                           !.attempts = [t \in Tiles |-> 0],
                           !.sends = IF lost THEN [w \in Workers |-> << >>] ELSE @]
          /\ early' = IF lost THEN [w \in Workers |-> 0] ELSE early
    /\ completed' = [t \in Tiles |-> 0]
    /\ expected_jobs' = 0
    /\ active' = FALSE
    /\ UNCHANGED <<config, result_queue, main, loop, sock, jobs, aborted, aborting,
                   transit, dead, render, stitched, drops>>

-----------------------------------------------------------------------------
(* Workers and the network *)

\* _render_tile_local and _send_result_to_server_async: with no connection the
\* result is lost.
WorkerRenders(w) ==
    /\ jobs[w] # << >>
    /\ ~aborted[w]
    /\ w \notin dead
    /\ jobs' = [jobs EXCEPT ![w] = Tail(@)]
    /\ \E ok \in Outcomes :
          LET r == [job |-> Head(jobs[w]), ok |-> ok]
          IN  transit' = IF sock[w] THEN [transit EXCEPT ![w][r] = @ + 1] ELSE transit
    /\ UNCHANGED <<serverVars, sock, early, aborted, aborting, dead, server, ghostVars>>

\* The render of a worker raises: no answer, and no tick of it any more.
WorkerRenderRaises(w) ==
    /\ "raise" \in Events
    /\ jobs[w] # << >>
    /\ ~aborted[w]
    /\ w \notin dead
    /\ jobs' = [jobs EXCEPT ![w] = Tail(@)]
    /\ dead' = dead \cup {w}
    /\ UNCHANGED <<serverVars, sock, early, aborted, aborting, transit, server, ghostVars>>

\* A MSG_RENDER_TILE ignored, or a queued task skipped, after MSG_RENDER_ABORT
WorkerIgnores(w) ==
    /\ jobs[w] # << >>
    /\ aborted[w]
    /\ jobs' = [jobs EXCEPT ![w] = Tail(@)]
    /\ UNCHANGED <<serverVars, sock, early, aborted, aborting, transit, dead, server,
                   ghostVars>>

\* MSG_RENDER_ABORT: no message resets render_abort_requested of a worker, only a
\* reset_runtime that its user asks for.
WorkerAborts(w) ==
    /\ w \in aborting
    /\ aborting' = aborting \ {w}
    /\ aborted' = IF sock[w] THEN [aborted EXCEPT ![w] = TRUE] ELSE aborted
    /\ UNCHANGED <<serverVars, sock, early, jobs, transit, dead, server, ghostVars>>

\* w is still registered and the server runs: nothing closes its connection but
\* a loss.
InService(w) == w \in s.connected /\ server = "up"

\* The connection of w closes: it is lost, or a kick, a takeover or the stop of the
\* server closes it. Results and jobs under way are lost.
Disconnect(w) ==
    /\ sock[w]
    /\ InService(w) => "disconnect" \in Events /\ drops < MaxDrops
    /\ drops' = IF InService(w) THEN drops + 1 ELSE drops
    /\ sock' = [sock EXCEPT ![w] = FALSE]
    /\ early' = [early EXCEPT ![w] = Len(s.sends[w])]
    /\ transit' = [transit EXCEPT ![w] = NoResults]
    /\ aborting' = aborting \ {w}
    /\ \E n \in 0..Len(jobs[w]) : jobs' = [jobs EXCEPT ![w] = SubSeq(@, 1, n)]
    /\ UNCHANGED <<serverVars, aborted, dead, server, render, active, stitched>>

\* A worker that lost its connection is started anew.
WorkerRestarts(w) ==
    /\ "disconnect" \in Events
    /\ ~sock[w]
    /\ jobs[w] # << >> \/ aborted[w] \/ w \in dead
    /\ jobs' = [jobs EXCEPT ![w] = << >>]
    /\ aborted' = [aborted EXCEPT ![w] = FALSE]
    /\ dead' = dead \ {w}
    /\ UNCHANGED <<serverVars, sock, early, aborting, transit, server, ghostVars>>

-----------------------------------------------------------------------------
Init ==
    /\ s = [connected     |-> {},
            targets       |-> {},
            queue         |-> << >>,
            pending       |-> [t \in Tiles |-> 0],
            owner         |-> [t \in Tiles |-> NoOwner],
            attempts      |-> [t \in Tiles |-> 0],
            send_attempts |-> [j \in Jobs |-> 0],
            inflight      |-> [x \in Targets |-> 0],
            defer         |-> FALSE,
            abort         |-> FALSE,
            server_renders|-> TRUE,
            tasks         |-> << >>,
            sends         |-> [w \in Workers |-> << >>]]
    /\ completed = [t \in Tiles |-> 0]
    /\ expected_jobs = 0
    /\ config = FALSE
    /\ result_queue = << >>
    /\ main = [pc |-> "idle", todo |-> {}]
    /\ loop = [pc |-> "idle", worker |-> NoOwner, tiles |-> {}, todo |-> {}]
    /\ sock = [w \in Workers |-> FALSE]
    /\ early = [w \in Workers |-> 0]
    /\ jobs = [w \in Workers |-> << >>]
    /\ aborted = [w \in Workers |-> FALSE]
    /\ aborting = {}
    /\ transit = [w \in Workers |-> NoResults]
    /\ dead = {}
    /\ server = "up"
    /\ render = 0
    /\ active = FALSE
    /\ stitched = [r \in Renders |-> 0]
    /\ drops = 0

UserStep == StartRender \/ CancelRender \/ ResetRuntime \/ KickAllWorkers
            \/ PruneClosedSockets \/ Stop \/ Start

MainStep == \/ StartRefused \/ StartChecked \/ Prime
            \/ Tick \/ RenderLocally \/ LocalRenderRaises \/ TasksDrained
            \/ ConsumeResult \/ ConsumeRaises \/ ResultsDrained \/ DispatchQueued

LoopStep == \/ ReassignNext \/ ReassignDone \/ Redispatch \/ Forget \/ StartServer
            \/ \E w \in Workers : SendJob(w) \/ SendFails(w) \/ ReceiveResult(w)
                                  \/ HandlerExit(w)

WorkerStep(w) == WorkerRenders(w) \/ WorkerRenderRaises(w) \/ WorkerIgnores(w)
                 \/ WorkerAborts(w)

EnvStep == \E w \in Workers : \/ Register(w) \/ ServerTakeover(w)
                              \/ Disconnect(w) \/ WorkerRestarts(w)

Next == UserStep \/ MainStep \/ LoopStep \/ EnvStep \/ \E w \in Workers : WorkerStep(w)

Spec == Init /\ [][Next]_vars

\* The timer fires, the asyncio loop runs what is ready, a worker renders what it
\* has. Nothing obliges a user to act or a worker to connect.
Fairness == /\ WF_vars(MainStep)
            /\ WF_vars(ReassignNext \/ ReassignDone \/ Redispatch \/ Forget)
            /\ \A w \in Workers : /\ WF_vars(SendJob(w))
                                  /\ WF_vars(SendFails(w))
                                  /\ WF_vars(HandlerExit(w))
                                  /\ WF_vars(ReceiveResult(w))
                                  /\ WF_vars(WorkerRenders(w))

FairSpec == Spec /\ Fairness

-----------------------------------------------------------------------------
(* Properties *)

MainPcs == {"idle", "checking", "prime", "tasks", "results", "dispatch"}
LoopPcs == {"idle", "reassign", "redispatch"}

\* Every variable has its type.
TypeOK ==
    /\ s \in DispatchState
    /\ completed \in [Tiles -> 0..MaxRenders]
    /\ expected_jobs \in {0, NumTiles}
    /\ config \in BOOLEAN
    /\ result_queue \in Seq(Results)
    /\ main \in [pc : MainPcs, todo : SUBSET Targets]
    /\ loop \in [pc : LoopPcs, worker : Workers \cup {NoOwner},
                 tiles : SUBSET Tiles, todo : SUBSET Targets]
    /\ sock \in [Workers -> BOOLEAN]
    /\ early \in [Workers -> Nat]
    /\ jobs \in [Workers -> Seq(Jobs)]
    /\ aborted \in [Workers -> BOOLEAN]
    /\ aborting \in SUBSET Workers
    /\ transit \in [Workers -> [Results -> Nat]]
    /\ dead \in SUBSET Targets
    /\ server \in {"up", "stopped", "starting"}
    /\ render \in 0..MaxRenders
    /\ active \in BOOLEAN
    /\ stitched \in [Renders -> Nat]
    /\ drops \in Nat

InQueue(q, t) == \E i \in 1..Len(q) : q[i].tile = t

Abandoned(t) == \E r \in Renders : s.send_attempts[JobOf(r, t)] > MaxRetries

\* No tile of a running render vanishes from the tables: at every moment it is
\* queued, pending or completed, or its sends failed more than max_retries times.
\* _dispatch, _retry_or_requeue, _reassign and _consume move tiles between
\* job_queue, pending_jobs and completed_jobs from two threads. A render ends with
\* a cancel, with a reset, and with a new start of its server, which empties the
\* tables of pending and completed tiles.
NoTileLost ==
    active => \A t \in Tiles : \/ InQueue(s.queue, t)
                               \/ s.pending[t] # 0
                               \/ completed[t] # 0
                               \/ Abandoned(t)

ResultFor(q, t) == \E i \in 1..Len(q) : q[i].job.tile = t

HeldBy(w, t) ==
    \/ InQueue(s.sends[w], t)
    \/ InQueue(jobs[w], t) /\ ~aborted[w]
    \/ \E r \in Results : r.job.tile = t /\ transit[w][r] > 0

Departing(w, t) ==
    \/ w \in s.connected /\ ~sock[w]
    \/ loop.pc = "reassign" /\ loop.worker = w /\ t \in loop.tiles

\* An exception in a tick of w, connected still: nothing will answer for its tiles.
Silent(w) == w \in dead /\ sock[w]

\* While the server's own timer runs, a pending tile is on its way: it is queued, its
\* result has arrived, its owner has it in hand, or the loss of its owner is still to
\* be handled; else it was reassigned more than max_retries times. A pending tile
\* that nobody carries leaves the render unfinished for ever, as the server has no
\* timeout. That does happen to a tile whose owner lost its timer to a render that
\* raised and kept its connection (Silent), and to all when the server loses its own.
PendingTileIsCarried ==
    MASTER \notin dead =>
    \A t \in Tiles :
        s.pending[t] # 0 =>
            \/ InQueue(s.queue, t)
            \/ ResultFor(result_queue, t)
            \/ s.owner[t] = MASTER /\ InQueue(s.tasks, t)
            \/ \E w \in Workers :
                  s.owner[t] = w /\ (HeldBy(w, t) \/ Departing(w, t) \/ Silent(w))
            \/ s.attempts[t] > MaxRetries

\* The number of tiles a target is counted to be busy with is the number it owns
\* and may still answer: a slot counted and never released keeps a target from
\* all later tiles, one released too early gives it two at a time.
InflightMatchesOwners ==
    \A x \in s.targets :
        s.inflight[x] = Cardinality({t \in Tiles : /\ s.pending[t] # 0
                                                   /\ s.owner[t] = x
                                                   /\ s.attempts[t] <= MaxRetries})

\* A new start of the server leaves a configured render that expects no tiles.
Interrupted == config /\ expected_jobs = 0

promisedPhase == IF ~config THEN "idle"
                 ELSE IF Interrupted THEN "void"
                 ELSE IF stitched[render] > 0 THEN "stitched" ELSE "rendering"

promisedDone == IF config /\ ~Interrupted THEN {t \in Tiles : completed[t] # 0} ELSE {}

Promise == INSTANCE RenderPromise WITH phase <- promisedPhase, done <- promisedDone

\* The dispatcher keeps the promise of RenderPromise: through retries, losses,
\* cancels and new renders a completed tile is not taken back, and the image is
\* written only when every tile is in, though cancel_render sets expected_jobs
\* to 0 and results of an earlier render may still be in _result_queue. For a render
\* in whose middle the server is stopped and started nothing is promised any more:
\* _start_server takes its completed tiles back and lowers expected_jobs to 0, so
\* its image may be written from too few. The next render has the promise again.
PromiseKept == Promise!Spec

\* README 6.3: on worker failure or disconnect a tile is reassigned until the retry
\* limit. A worker that is gone and forgotten owns no pending tile, unless the
\* limit is reached or a send to it is still to fail.
LostWorkerOwnsNothing ==
    \A t \in Tiles, w \in Workers :
        s.pending[t] # 0 /\ s.owner[t] = w /\ ~sock[w] /\ w \notin s.connected
            => s.attempts[t] > MaxRetries \/ InQueue(s.sends[w], t)

\* README 6.2: for each assigned tile the worker renders it and returns its data.
\* A worker does not hold a tile of the running render that it is going to ignore.
AssignedTileIsRendered ==
    \A w \in Workers :
        active /\ aborted[w] => \A i \in 1..Len(jobs[w]) : jobs[w][i].render # render

\* A render that has started is finished: its image is written.
RenderFinishes == active ~> (render > 0 /\ stitched[render] > 0)
=============================================================================
