# Verification of BlenderSplitter

BlenderSplitter is a Blender add-on that renders one image on several machines:
one Blender process becomes the server, the others connect to it as workers, the
image is cut into tiles, tiles are rendered by workers (and by the server itself)
and stitched together. This directory holds TLA+ models of that program, the TLC
configurations that check them on small instances, and proofs checked by TLAPS.

Paths below are relative to the repository; `worker.py` is
`src/legacy/worker.py`, which holds the running system (`DistributedRenderManager`).
The modules of `src/runtime`, `src/scheduler`, `src/sync`, `src/network`,
`src/ui`, `src/blender_adapter` are the target of a migration
(`MIGRATION_PLAN_FULL_V2.md`); of these only the facade is on the path of a user
action today, the scheduler and the sync service are used by their tests.

Contents: 1 the system, 2 the hard behaviours, 3 the modules and how they
correspond to the code, 4 the runs, 5 the proofs, 6 what the checks found,
7 what is not modelled, 8 the plan.

## 1. The system

### Processes and threads

Every node is one Blender process with two threads that matter:

* the **main thread** runs UI operators and a timer of 0.1 s
  (`_ensure_timer`, 388-397) that calls `process_main_thread_queues`;
* the **asyncio thread** (`_run_event_loop`, a new one with each start) runs the socket handlers of the server,
  the connection of a worker, and every coroutine handed over with
  `run_coroutine_threadsafe`.

They share the fields of one `DistributedRenderManager`. Three queues
(`_task_queue`, `_result_queue`, `_progress_queue`) are thread-safe; the
dictionaries (`connected_workers`, `job_queue`, `pending_jobs`, `job_owner`,
`target_inflight`, ...) are used by both threads without a lock.

### Components

| component | state | operations | must be right |
|---|---|---|---|
| Tile dispatch (`worker.py` 1574-1968, 2023-2142) | `dispatch_targets`, `job_queue`, `pending_jobs`, `completed_jobs`, `job_owner`, `job_attempts`, `target_inflight`, `expected_jobs`, `current_render_config` | start, dispatch, resend, reassign, consume a result, finalize, cancel, reset, kick, restart of the server | no tile vanishes; a pending tile is with somebody; counters match; the image is written from all tiles; a render ends |
| Worker registry, socket handler (823-897) | `connected_workers`, one handler per connection | register, receive, takeover, exit | what a lost worker had goes elsewhere |
| Worker messages and render (899-1246) | `_task_queue`, `render_abort_requested` | take a tile, render, answer, abort | a tile taken is answered |
| Result transfer (`robust_transfer.py`) | `_incoming` | cut, send, put together | what arrives is what was rendered |
| Sync, clean and integrity rounds (1315-1504, 1776-1796, 1970-2021) | `project_sync_results`, `clean_results`, `integrity_probe_results` | send to all, wait for answers or a timeout | an answer counts for its own round; success means all have the bundle |
| Project load on a worker (293-315, 400-441, 902-958, 1506-1572) | `_project_transfer`, `pending_project_load`, `pending_blank_reset`, retry counters | start, chunk, complete, apply, load, retry, reset | the newest bundle is loaded in the end |
| Node lifecycle (317-397, 624-821) | `role`, `started`, `_stop_event`, `_loop`, `_server_ready` | start, stop, discover, connect, reconnect, host | one role at a time; a node left alone finds or becomes a server |
| Reconnect policy (`robust_connection.py`) | `failures` | count, reset, two thresholds, pause | a node that cannot reach a server looks for another, then hosts |
| Tiles and stitching (`tiles.py`, `stitch.py`) | none | grid, worker tiles, stitch | every pixel comes from one tile's core |
| Scheduler core (`src/scheduler`) | jobs, workers | plan, next, result, worker lost | capacity; a completed job stays completed |
| Sync service (`src/sync`) | bundles, acks | build, send, await, validate | no ack of another session counts |
| External scheduler (`scheduler_app.py`) | queue, registry, clients | register, poll, result | a job taken is delivered |
| Discovery, facade, UI, configuration, adapters, types, entry | little or none | see `PROJECT.json` | |

### How they interact

A user action calls `start_distributed_render` on the main thread. It runs a sync
round and an integrity round (coroutines on the asyncio thread, the main thread
waits), fills `job_queue` and dispatches one tile to each target. A dispatch to a
worker schedules a `_send` coroutine; a dispatch to the server itself (`MASTER`)
puts the tile into the server's `_task_queue`. A worker's handler puts the tile
into the worker's `_task_queue`; the worker's timer renders it and schedules the
coroutine that returns the result, inline or in chunks. The server's socket
handler puts the result into `_result_queue`; the server's timer consumes it,
frees the slot of the target and gives it the next tile. The last result writes
the image. A connection that ends makes its handler reassign the tiles of that
worker, on the asyncio thread.

Before any of that a node has started: `start` runs an event loop on a thread of its
own, which hosts a server or looks for one and stays connected to it, and which a
`stop`, a forced server or the loss of that server can move from one role to the other
at any moment. The plan of the tiles is pure arithmetic, and so is putting them
together; a mistake there spoils every image.

## 2. Hard behaviours

`PROJECT.json` lists each at its line. In short: the two threads interleave between
the iterations of each other's loops (`_reassign_jobs_from_worker`, the dispatch
loop of the tick); lists of workers are read long before they are used; a worker
can be lost, kicked, pruned or taken over at any moment; sends fail late, after
their tile has moved on; tile ids are reused from render to render and answers
carry no render or round; a bundle may arrive while another is being loaded;
several coroutines share one connection; the main thread gives up a coroutine that then
runs on; an exception out of a tick ends the timer of a node for good; files are deleted before the
fields that name them are cleared; a stopped loop and its successor share the fields of one manager; a check of
`_server` and the bind of its port are an `await` apart; and nearly nothing has a timeout
on the server, so a tile nobody carries means a render that never ends.

## 3. Modules

| module | what it is |
|---|---|
| `RenderPromise` | abstract: what a render promises its user |
| `TileDispatch` | the dispatcher, both threads, the connection and the worker |
| `MCTileDispatch` | symmetry for TLC |
| `TileDispatch_proofs` | type correctness and `NoTileLost` |
| `TileDispatchPromise_proofs` | `TileDispatch` implements `RenderPromise` |
| `TileDispatchCarried_proofs` | a pending tile is on its way; a target is busy with the tiles counted for it |
| `ResultPromise` | abstract: what the transfer of results promises the renderer |
| `TileTransfer` | results on their way: send coroutines, chunks, assembler |
| `MCTileTransfer` | its instance for TLC |
| `TileTransfer_proofs` | the assembler gives back what was rendered; `TileTransfer` implements `ResultPromise` |
| `ProjectLoad` | projects on a worker: received, unpacked, loaded, retried, thrown away |
| `MCProjectLoad` | its instance for TLC |
| `ProjectLoad_proofs` | a pending load is complete; attempts are bounded |
| `ProjectSync` | the rounds of the server: sync, clean, integrity, and a start that does two of them |
| `MCProjectSync` | its instance for TLC, with symmetry |
| `ProjectSync_proofs` | what the end of a round says of its workers |
| `NodeLifecycle` | one node: threads and loops, server, connection, reconnecting, forced server |
| `MCNodeLifecycle` | its instance for TLC |
| `NodeLifecycle_proofs` | a server runs on a live event loop; a forced server is there; failures are bounded |
| `TileGrid` | the plan of the tiles and the image stitched from them, pixel by pixel |
| `MCTileGrid` | its instance for TLC |
| `TileGrid_proofs` | tiles fit the image; pixels are in their place; saved images are whole; every node has a tile |

`TileDispatch` takes for granted what three of the others show: that a sync and a check went
before (`ProjectSync`), that a result arrives whole and once (`TileTransfer`), and that there are
tiles to hand out (`TileGrid`). `ProjectSync` takes the bundle to a worker, `ProjectLoad` is
what the worker then does with it, and `NodeLifecycle` is what makes a node a server or a
worker in the first place.

### TileDispatch

*State.* `s` is one record of the tables that both threads write, so that the
functions of the code that read and write several of them are operators from one
record to the next (`Dispatch`, `Released`, `ReassignTile`, `RetryOrRequeue`):
its fields bear the names of the code (`connected` = keys of `connected_workers`,
`targets` = `dispatch_targets`, `pending`, `owner`, `attempts`, `inflight`,
`defer` = `_defer_master_until_workers_primed`, `abort` = the server's
`render_abort_requested`, `tasks` = `_task_queue`, `sends` = `_send` coroutines
not yet run). `completed`, `expected_jobs`, `config`, `result_queue` are what only
the main thread writes, or is thread-safe. `main` and `loop` are the program
counters of the two threads with what their loops have left. `sock`, `jobs`,
`aborted`, `aborting`, `transit` are the worker and the network. `dead` are the nodes whose
timer Blender has dropped, `server` says whether the server runs, is stopped, or is about to run
again. `render`, `active`, `stitched`, `drops` are ghosts.

*Data.* A tile is a number, a job is a tile with the render that queued it; the
code has no such render number, and that is the point: `ConsumeResult` looks only at
the tile. A result is a job and whether it is usable: failed renders, undecodable
and truncated PNGs take the same path; a render that raises gives no result at all. `job_queue`, `_task_queue` and
`_result_queue` are sequences; `pending` is 0 when a tile has no entry.

*Actions.* Main thread: `StartRender` (the settings and the list of workers are
read), then sync and integrity in which anything may happen, then `StartRefused`
or `StartChecked`, then `Prime` once for each target; `CancelRender`,
`ResetRuntime`, `KickAllWorkers`, `PruneClosedSockets`, `Stop`, `Start`; a timer tick is `Tick`,
`RenderLocally`*, `TasksDrained`, `ConsumeResult`*, `ResultsDrained`,
`DispatchQueued`*, unless it ends with `LocalRenderRaises` or `ConsumeRaises`: nobody catches what
a render (1209), the read of its image (1127) or the write of a result (1866) raises, so it leaves
`_tick`, and Blender drops the timer (`TickRaises`). Asyncio thread: `Register`, `SendJob`, `SendFails`,
`ReceiveResult`, `HandlerExit` or `ServerTakeover` followed by `ReassignNext`*,
`ReassignDone`, `Redispatch`*, `Forget`; `StartServer`, which empties `connected_workers`,
`pending_jobs`, `completed_jobs`, `job_owner`, `job_attempts` and `expected_jobs` and leaves the
queue, the targets and the config of a render under way. Worker and network: `WorkerRenders`,
`WorkerRenderRaises`, `WorkerIgnores`, `WorkerAborts`, `Disconnect`, `WorkerRestarts`.

*Grain.* One call of `_dispatch_next_job_for_target`, `_reassign_tile`,
`_retry_or_requeue_job` or `_consume_tile_result` is one step, each iteration of a
loop that calls them is another. The race of two threads inside one call is listed
as a hazard and left to a module of its own (section 8).

*Abstractions.* `target_ready_at` never delays a dispatch: it is set to the
present time or to 0 wherever a target becomes idle. The order in which a
dictionary or a list of targets is walked is a choice, with workers before the
server, as `dispatch_targets` is built. A worker registers again only when its old
registration is gone and the sends to its old socket have ended (what happens when it
does not wait is part of `ProjectSync`).
`_finalize_render` is the count in `stitched`; a stitch that raises writes nothing. Between a stop and
the next start of the server all connections close; the sends queued on the old event loop run or
are lost with it. A broadcast of an abort reaches the
workers one by one and may come after tiles sent later.

*Bounds.* `MaxRenders`, `MaxDrops` (workers lost and stops of the server), and the set `Events`,
which says which of loss, takeover, slow handlers, renders that fail, renders that raise, stitches
that fail, kick, prune, cancel, reset and restart of the server a run includes. `NumTiles` and `MaxRetries` are settings of the user.

### RenderPromise

Two variables: the phase of the render and the tiles that are in. Tiles come in one
by one, none is taken back, the image is written with the last one or not at all, and
only `GiveUp`, `Begin` and `Interrupt` discard anything. `Interrupt` makes the render void: nothing
is promised of it any more, until it is given up or the next one begins. `TileDispatch` maps `phase` to `config`,
`expected_jobs` (a configured render that expects no tiles is one whose server was started anew)
and `stitched[render]`, and `done` to the completed tiles of a configured render
(`Promise == INSTANCE RenderPromise WITH ...`).

### ResultPromise

Three variables: what has been made of each result, what was handed over, what is lost. A result
that is made is under way until it is handed over, as it was made, or lost; neither happens
twice, and not one after the other. `TileTransfer` maps `made` to `rendered` and `png`, `queue` to
`delivered` with each entry judged by whether its bytes are all there (`Seen`), and keeps `lost`.

### TileTransfer

*State.* For each result (worker, number; it stands for the uuid of its transfer) the
size of its PNG, the messages sent and the messages handled; `incoming` is
`_incoming` of the assembler, a function whose domain grows and shrinks;
`delivered` is `_result_queue`.

*Data.* A chunk is the range of bytes it stands for, so `Complete` can say that all
bytes are there, once, in order, of the right result. base64 enters where it
counts: `should_chunk` compares the length of the base64 text (4 characters for every
3 bytes begun) with `inline_limit`, while `chunk_size` counts bytes.

*Actions.* `Render` schedules a send coroutine; `SendNext` is one `await send`;
`SendFails` is the `except` that gives the result up; `ReceiveInline`,
`ReceiveStart`, `ReceiveChunk`, `ReceiveComplete` are `handle` with the four
message types. `Disconnect` loses what is under way. A connection delivers in
order; which of the transfers of one worker sends next is the choice of the event
loop, so each transfer is a stream of its own. uuids do not collide. A coroutine
suspended in a send when its connection is lost fails; it does not carry on with the
next socket. The early return when there is no socket at all (1222) concerns a node
that has never been connected, which has no tiles to return.

*Bounds.* `MaxResults`, `MaxLosses`.

### ProjectLoad

*State.* `load` is `pending_project_load` with its counter of attempts and whether it
waits for `..._retry_at`; `blank` is the same for `pending_blank_reset`; `incoming` is
`_incoming_project`, `context` is `pending_sync_context`, `received_dir` and `files` are
what is on disk. `tick` is where the main thread is inside
`process_main_thread_queues` and the local `blend_file`; `aio` is where the asyncio thread is inside
`_apply_received_project_bundle` or the handler of `MSG_CLEAN_BLEND`, and the bundle it will unpack;
`reset` says that `reset_runtime` has deleted and not cleared yet. `newest`, `tries`, `shown`,
`cleaning`, `hit` are ghosts; `hit` holds the bundles whose load the end of another load wrote to.

*Data.* A bundle is a number; it stands for its transfer id, its directory, its `.blend`
copy and its sync context. Nothing is assumed of their order: bundles may start, overlap and end in any order, as a sync the server's main thread
gave up waiting for goes on sending. Within one bundle the connection keeps the order.

*Actions.* Asyncio thread: `Start`, `Chunk`, `Complete` (which deletes the project before),
`Cleared` (which forgets it, and checks the chunks), `Apply` or `ApplyFails`; `Clean` (which deletes)
and `Cleaned` (which forgets, and asks for the blank reset). Main thread: `Tick`,
`CheckBlank`, `BlankLoaded` or `BlankFails`, `CheckLoad`, `ReadBlendFile`, `OpenFile`,
`ProjectLoaded` or `OpenFails`, `LoadFailed`; `ResetRuntime` and `ResetDone` between ticks;
`TimerEnds`, when the rest of a tick raises or the node is stopped. Time: `LoadDue`, `BlankDue`.

*Grain.* Blender's operators, the deletion of files and the unpacking of an archive give up Python's
lock for long, so the steps of a tick are split there and at the reads of `pending_project_load`
on both sides of them, and a deletion is apart from the assignments after it
(`_clear_sync_artifacts` 293-309 and 311-315, the clean 906-922 and 924-932): in between, a tick may
see and try a load whose file is gone. Runs of plain assignments are one step. What a handler
reads to know what to delete is read with the deletion: that the main thread clears
`pending_project_load` between two of these reads, so that the message fails on `None` with nothing
deleted or forgotten, is left out.

*Abstractions.* The checksum fits when no chunk is missing, because chunks of another
transfer are ignored. `total_chunks` is at least 1 and an archive holds a `.blend`, as the
server builds them. Copying a `.blend` onto its own name does not occur.

*Bounds.* `NumBundles`, `MaxCleans`, `MaxResets`. `MaxAttempts` is 5 in the code, for
loads and for resets.

### ProjectSync

*State.* `registered` is the key set of `connected_workers`, `open` the workers whose newest
connection is open, `stale` counts the handlers of lost connections that still run, `closing` the
workers whose connection a kick is still to close. `main` is
the round the main thread waits for, `co` the coroutine of each round with the workers it has
still to send to, `results` the dictionary of the round begun last, `outbox` the answers on
their way. `worker` is what matters of a worker: the bundle it has to load, whether it has to
blank its scene, the scene it shows. `edition` is the server's scene. `main.quiet`,
`main.blank`, `main.behind`, `round`, `verdict`, `losses` are ghosts: `blank` holds the
workers that had a reset to come when a start began, `behind` those its sync did not ask
although they had a bundle to load.

*Data.* A scene is known by what `collect_render_signature` reads of it, an edition number; a
bundle is the edition it was built from (the user saves before a sync: an unsaved change makes
the probe fail). What an answer says of errors and sizes is left out. Answers of a kind other
than that of the last round go to a dictionary nobody reads before it is replaced.

*Actions.* Main thread: `CallSync`, `CallClean`, `CallIntegrity`, `AllPolled`, `PollTimesOut`,
`FutureTimesOut`; `KickAllWorkers`, which empties the registry before the sockets are closed, and
`ResetRuntime`. Coroutine of a round: `Send`, `SendIntoTheVoid`, `SendFails`, `CleanRaises`
for the next worker on the list, then `AllCollected` or `DeadlinePasses`. Server:
`ServerReceives`, `HandlerEnds`, `Takeover`, `Close`. Worker: `LoadProject`, `GiveUp` (the last retry, or
a `reset_runtime` of the worker), `BlankReset`, `Reconnect`, `Lose`. A clean may be answered with no.
The order in which a list of workers is walked is a choice.

*Abstractions.* A worker does what a message asks at the moment it is sent, and the delay is
in its answer: a connection keeps the order, so that nothing else could come between. How the
messages of two overlapping bundles mix on a worker is `ProjectLoad`'s, and so are the
retries of its main thread. The sync that a start makes includes workers with a closed
socket, the one the user asks for does not (`CallSync(start)`).

A stop and start of the server between rounds, which empties the registry too, is not in the module:
for the rounds it is a kick with all connections closed.

*Bounds.* `MaxRounds`, `MaxLosses` (losses, takeovers and kicks together). The instance for TLC also
stops exploring (`RoundsToEnd`) once the last round has returned, or has begun while something of
an earlier one was still under way: the properties but the type invariant speak of the return of a
round that began with nothing under way. A first round of either kind is followed to its end.

### NodeLifecycle

*State.* `th` is, for each thread ever started, where its main routine is, whom it connects
to and whether that connection is up; `loop` the thread `self._loop` belongs to; `server`
and `sock` the thread on whose loop the server runs and the connection lives; `closed`, `shut`,
`closing` the stages of `_shutdown_async`, which closes the server, awaits its end and then
drops it; `force` the call of `force_start_server` with its coroutine, apart because the
caller gives it up after eight seconds. `failures`, `takeover`, `started`, `stop`, `timers`,
`flag` are fields of the code. `other` is the rest of the network: one other server, up,
down, one that refuses the handshake, or one that answers discovery but cannot be reached by TCP.
`busy` says that the port of the node is taken, whatever its mode. `raced`, `stray` and `force.halted` are ghosts.

*Actions.* Main thread: `Start`, `Stop`, `TimerEnds`, `ForceServer`, `ForceReturns`,
`ForceTimesOut`, `ResetRuntime` (which forgets a takeover request). Event loop of a thread: `Begin`, `Found`, `SeesStop`, `Bind`, `Connects`,
`Disconnected`, `HandshakeFails`, `ConnectFails`, `ConnectFailsAndRediscovers`, `GivesUp`,
`PauseEnds`, `Ends`, `ServerEnds`, and what others have put on it: `Shutdown`,
`ForceGivesUpServer`, `ForceHosts`, `ForceBinds`, `ForceEnds`. Network: `OtherChanges`.

*Grain.* An event loop switches at awaits only, so a step goes from one await to the next:
`BecomesServer` (the check of `_server` and the role) and `Bind` (the port) are two.

*Abstractions.* Discovery answers with any server that is up, the node's own included, or not
in time. A "master_worker" behaves as a "master" here. A closed connection is dropped from
`_worker_socket` at once, where the code keeps it, closed. The tables `_start_server` empties are
`TileDispatch`'s. A coroutine put on a loop that has stopped never runs. The lengths of pauses
and timeouts are left out. The installation of `websockets` by `start` succeeds.

*Bounds.* `MaxThreads`, `MaxForces`, `MaxChanges`; one call of `force_start_server` at a time; the
network changes, and a takeover request is forgotten, only while some routine could notice
(`SomeoneLooks`); `failures` saturates while a handshake is refused, as nothing reads it there.
In `lifecycle` timers end only after both threads have (`TimersEndLast`): nothing but the end of a
timer depends on them, and no property of that run speaks of them. `lifecycle_timer` has no such bound.

### TileGrid

*State.* The plan (`width`, `height`, `nodes`, `tiles`), the tiles still to be pasted and the
`canvas`. Colours are abstracted: the canvas keeps, per pixel, which tiles were composited
there and which pixel of the scene each showed, so that "the image is right" can be said.

*Operators.* `OverlapPixels`, `GridForWorkerCount`, `TileTarget`, `GridsForTileCount`, `Core`,
`Grown`, `GenerateTiles` are the functions of `tiles.py`; `Left`, `Top`, `CropW`, `CropH`,
`PasteY`, `Layers` the arithmetic of `stitch.py`. The square root and the loop of
`grid_for_worker_count` are given by what they compute. The logarithms of
`grid_for_tile_count` compare ratios of integers; grids equally close are all allowed, as
rounding decides between them.

*Actions.* `Plan`, `Paste` tile by tile in the sorted order, `PasteFails`, `Save`.

*Abstractions.* Blender renders the border it is given: that the pixels of a tile image are
the ones from `min` up to `max` is its part (it stores borders as 32-bit floats). A worker
renders at its own scene's resolution, which the integrity check has found equal. Sorting by
id decides nothing, as ties of the two coordinates are tiles with an empty core.

## 4. Runs

| run | instance | checks | states |
|---|---|---|---|
| `dispatch_events` | 1 worker + server, 2 tiles, 2 renders, 1 retry; 1 loss or stop of the server; takeover, kick, prune, cancel, reset, failing stitches | `TypeOK`, `NoTileLost`, `PromiseKept` | every operation of the user at every moment, twice in a row |
| `dispatch_loss` | 2 workers + server, 2 tiles, 2 losses, slow handlers, renders that fail and that raise, 1 retry | `PendingTileIsCarried` | both workers lost while tiles move between them, timers lost at any moment |
| `dispatch_finishes` | 2 workers + server, 3 tiles, 1 loss, 2 retries, fair | `InflightMatchesOwners`, `RenderFinishes` | a loss at any moment of a render |
| `dispatch_kick` | 1 worker, kick | `LostWorkerOwnsNothing` **violated** | section 6 |
| `dispatch_abort` | 1 worker, 2 renders, cancel | `AssignedTileIsRendered` **violated** | section 6 |
| `load` | 2 bundles of 2 chunks, 3 attempts, 2 cleans, 1 reset, the timer lost at any moment, fair | `TypeOK`, `PendingLoadIsComplete`, `NewestIsLoaded`, `CleanEndsBlank` | every message in every gap of a load, and every tick in every gap of a message |
| `load_race` | 2 bundles of 1 chunk, 5 attempts | `NewestIsInHand` **violated** | section 6 |
| `sync` | 2 workers, 2 rounds, 1 loss, takeover or kick | `TypeOK`, `VerdictIsOfThisRound`, `StartedOnTheSameScene`, `CleanedMeansGone` | any two rounds, the second one begun with nothing of the first under way, or not followed |
| `lifecycle` | 2 starts, 1 forced server, 1 change of the network, rediscovery after 1 failure, hosting after 2, fair | `TypeOK`, `ServerIsServed`, `ForceDelivers`, `NotStranded` | a master or a worker, each with a free or a taken port; a server up, down, refusing or unreachable |
| `lifecycle_timer` | 2 starts | `PumpedWhileStarted` **violated** | section 6 |
| `grid` | widths 1, 3, 7, 40; heights 1, 5, 38; 1, 2, 3, 5 nodes; coefficients 1, 2; overlap 2 and 8 % | `TypeOK`, `EveryPixelIsItsOwn`, `SavedIsWhole`, `NodesHaveTiles` | images smaller than the grid, and with a remainder |
| `transfer` | 2 results of 2 workers, 3, 4 and 5 bytes, chunks of 2, inline up to 4 characters, 1 loss, fair | `TypeOK`, `ResultsIntact`, `OnlyOpenTransfersKept`, `ResultArrives`, `TransferKeepsPromise` | inline and 2- and 3-chunk transfers mixed |

*Why the bounds are enough.* The dispatcher treats tiles alike and workers alike. Two
targets and two tiles are what it takes for a tile to move from one owner to
another while another tile is in the way; the third tile of `dispatch_finishes`
is one more than the two workers hold, so that a tile is queued when a worker is
lost; two renders are what it takes for anything of an earlier render to
meet a later one; two losses lose everyone but the server. With sizes 3, 4 and 5 and
chunks of 2 bytes there are a last chunk that is full and one that is not, and two
concurrent results are what it takes to mix chunks. Two bundles are what it takes for
one to supersede the other, and with 3 attempts a load fails first, again and for the
last time. Two rounds are what it takes for an answer to be late, and a start is two rounds;
with two workers one can be lost while the other answers. Two starts are what it takes for a
stopped loop to meet its successor, one forced server to meet either; with thresholds 1 and 2
a node rediscovers, fails again and hosts. 40 by 38 with 8 % gives an overlap above the
minimum of 2 pixels, the small sizes give empty cores and overlaps wider than the image. The
theorems of section 5 do not depend on the bounds at all.

*Deadlock.* The dispatch runs check deadlock (the timer always ticks), but for `dispatch_loss`, in
which renders that raise can end the timer of every node, and then nothing moves.
`transfer` does not either: when the bounded number of results is delivered, nothing is
left to do. `load` does not either: a worker's timer can end for good (section 6), and
then a worker that receives nothing more has stopped. `sync`, `lifecycle` and `grid` do not,
because their rounds, starts and images are counted and then there is nothing left to do.

*Server without rendering.* All runs but `dispatch_kick` let the server render. That it need not is
left to the theorems, but for `NoTileIsStranded`, which needs it.

*Symmetry.* `sync` and `dispatch_loss`, which have no liveness property, permute the workers: the
modules treat them alike and no property names one.

*Fairness.* `FairSpec` of `TileDispatch` has weak fairness of the main thread's steps
(Blender's timer fires again 0.1 s after each tick; a loop goes on to its next
iteration), of the asyncio thread's loops and of each handler and coroutine that is
ready (asyncio runs ready callbacks in turn), and of a worker's rendering (its own
timer), while the timer lives. No user action, connection, loss or restart is fair. `FairSpec` of
`TileTransfer` has weak fairness of each coroutine and of the handling of what has
arrived. `FairSpec` of `ProjectLoad` has weak fairness of the main thread's steps while
its timer lives, of the end of a handler begun, and of the two retry delays; nothing
obliges the server to send, and nothing obliges Blender to open a file: loads and resets
may fail every time, and the properties count that. `FairSpec` of `NodeLifecycle` says
only that while some event loop has something ready, one of them runs something (one condition for
all loops and coroutines: it does not say that any single one is served), which is less than what
asyncio and the operating system do. Neither the user, nor the network,
nor the main thread need do anything; a node that never gets a chance to connect must host.

*Limits of `RenderFinishes`.* The run has one loss and two retries. TLC shows that it
fails with `MaxRetries = 1`, and with two losses it needs more than four: one loss can
cost a tile several attempts, as resends go to a worker whose handler has not ended
yet. A tile past its limit stays in `pending_jobs` for ever; the property says that
within the limit a loss is survived at any moment. The worker set is checked without
takeover for another reason: a worker that says it becomes a server is still in
`connected_workers` while its tiles are reassigned, and a render started with the
list read before can give it a tile in that window, which then nobody carries.

The run has no renders that raise, and its workers are not stopped and started again within one
Blender session: both leave a worker without a timer (section 6), and a tile it is handed then keeps
the render open for ever.

*Mutants.* Operators commented "Mutated" are plausible slips in the code, defined
beside the operator they alter; putting one in its place violates the property
`PROJECT.json` pairs it with.

## 5. Proofs

All by TLAPS, for every number of workers, tiles, retries, renders, results and
sizes that the named assumptions (`DispatchAssumption`, `TransferAssumption`,
`LoadAssumption`, `SyncAssumption`, `LifecycleAssumption`, `GridAssumption`) allow.
The assumptions say that settings are natural numbers, at least one tile and one byte
per chunk, one bundle, chunk and attempt, that the server is not a worker, and nothing
about the bounds but that they are natural numbers; TLC evaluates them in the runs.

* `TypeCorrect == Spec => []TypeOK` (`TileDispatch_proofs`). The inductive invariant adds
  `StartBound`: while a start is being checked there is room for one more render;
  without it `render + 1` would leave its range. One lemma for each operator on the
  tables says that it maps tables to tables; the step lemma has a case for each action.
* `NothingLost == Spec => []NoTileLost`. Argument: a step that moves a tile out of one
  of `job_queue`, `pending_jobs`, `completed_jobs` puts it into another
  (`DispatchLasting`, `ReassignSame`, `RetryLasting`), save the one that gives it up after
  its last send; clearing all tables goes with `active` or with a full queue. A new start of the
  server, which clears pending and completed tiles, ends `active` too.
* `PromiseHolds == Spec => PromiseKept` (`TileDispatchPromise_proofs`). A refinement needs
  `PromiseInv`: between renders the tables are quiet (nothing pending and no target
  that could be handed a tile), so that a late result of a cancelled render is not
  taken for a tile while `expected_jobs` is 0, and a render not yet started has no image. A render that
  is configured and expects no tiles is one whose server was stopped and started: the phase of
  `RenderPromise` is "void" then, and `StartServer` maps to `Interrupt`. Every other action maps to
  `Begin`, `Complete`, `GiveUp` or a stutter.
* `ResultsStayIntact`, `NoTransferLeft`, `TransferTypeCorrect` (`TileTransfer_proofs`). The
  lemmas of the first part are the arithmetic: the chunks cover the bytes from 0 to
  the end, each begins where the one before ends, and none is empty (`RoundedUp`,
  `ChunkFacts`, `AllBytes`). `TransferInv` says that the domain of `incoming` is the
  set of transfers between START and COMPLETE (`AssemblerInv`), that the entry of one
  with k chunks handled holds exactly chunks 0 to k-1, each the right one
  (`EntryInv`), and that what is handled was sent and what was sent was rendered
  (`StreamInv`). So at COMPLETE nothing is missing: the branches for a missing
  or broken chunk are never taken on a connection that keeps order.
* `TransferPromiseHolds == Spec => TransferKeepsPromise` (same module). `ResultsIntact` says nothing of
  how often a result comes, nor of one that was given up. Both follow from `OnceInv`: what is in
  the queue has been received to its last message, which is the only one that hands anything over
  (`LastMessage`), so a result with a message to come is not in the queue (`StillUnderWay`). Then
  `Render` is `Make`, a last message is `HandOver`, `Disconnect` and `SendFails` are `Lose`, and the
  rest, START and the chunks among it, is a stutter.
* `LoadIsComplete == Spec => []PendingLoadIsComplete` (`ProjectLoad_proofs`). The first half of a
  clearing, the deletion, opens a gap in which the property says nothing (`DeletedIsInv`); what is to
  be shown is that the second half leaves no load that could lack anything, whatever the tick did in
  between (`ForgottenIsInv`). The invariant needs `UnpackingForgets`: while an archive is unpacked
  nothing is pending, because the fields were cleared before; without it an unpacking that fails
  half-way would leave its own directory under the load of another project.
* `LoadTypeCorrect == Spec => []TypeOK` (`ProjectLoad_proofs`). That no project fails more than
  `MaxAttempts` times is not local to the counter, which belongs to whatever is pending
  and may be reset while a load is under way. `TriesInv` says that a bundle not yet
  unpacked was never tried and is unpacked once (`FreshIsUntried`, `OncePerBundle`), that the
  counter covers the failures of the pending project but for the one its except
  clause has not counted yet (`TriesAreCounted`), and that a load under way may still fail
  once, pending or not (`OneTryLeft`).
* `NoTileIsStranded == ASSUME Tended PROVE Spec => []PendingTileIsCarried`
  (`TileDispatchCarried_proofs`). `CarriedInv` is stronger than the property where that is not
  inductive: a worker answers only over an open connection, a worker with one is registered
  (`Attended`), and of a departing worker that is in no snapshot it does not hold that its
  tiles are looked after, since `_reassign_jobs_from_worker` may have passed them
  (`LossPending`). A connected worker without a timer counts as the one its tiles wait for, as nothing
  but the end of its connection takes them away; once the server itself has no timer the invariant says
  nothing of tiles, and none comes back to it, as the timer does not (`DeadServerStays`). One lemma per operator on the tables (`DispatchMoves`, `ReassignMoves`,
  `RetryMoves`, `AcceptedMoves`) says that a call puts a tile down, leaves it in the tables,
  or leaves it with the owner that had it; then nothing but the end of a connection takes a
  tile from its owner, and then its loss is pending. `Tended` says that the server renders
  too, and that nobody is kicked, pruned or taken over and no render cancelled. It is an
  assumption on `Events` and `ServerRenders`, satisfied by the run `dispatch_loss`; any number
  of losses, slow handlers, renders that fail and that raise, resets and restarts of the server is
  included. TLC refutes the property
  without any one of its parts: they are the ways a tile is stranded (section 6).
* `SlotsMatchTiles == ASSUME AtMostOneLoss PROVE Spec => []InflightMatchesOwners` (same module).
  That a target is counted to have the tiles it owns hangs on what else is in the tables
  (`Balanced`): a tile that is queued has no owner, is queued once and may still be tried, or a
  dispatch would count it twice. What puts a tile back in the queue is a send that fails,
  hence `Returnable`: the sends that may fail hold each tile once and none that is queued; and
  `Once`: the tiles in the snapshot of the lost worker are in nobody's count and not queued
  when their turn comes. `OneGone` names the one worker that is lost or has taken over and is
  not altogether forgotten. The arithmetic is that of finite sets (`OneMore`, `OneLess`). `AtMostOneLoss` is:
  one worker is lost or takes over, and then in the only render, or none is lost in any number
  of renders; nobody is kicked, no tile fails to render, and the server is not stopped and started,
  which empties the tables and leaves the counts. Short of that the count is wrong,
  as TLC shows (section 6). Slow handlers, prunes, cancels and resets are included.
* `SyncTypeCorrect`, `VerdictsAreTrue == Spec => VerdictIsOfThisRound`,
  `StartsOnOneScene == Spec => StartedOnTheSameScene`, `CleansAreThorough == Spec => CleanedMeansGone`
  (`ProjectSync_proofs`), all from one invariant. That the handlers of lost connections stay as few as
  the losses, takeovers and kicks counts a connection a kick has yet to close as one of them
  (`Handlers`). Answers name no round and neither do entries; what
  makes them right is that in a round that began quietly only its own coroutine runs
  (`OneCoroutine`) and only its own answers are under way, from workers it asked
  (`OwnAnswers`). So the dictionary, which is judged by its size, holds an entry of this round
  for each worker asked when it is full (`EnoughIsAll`: a subset as large as a finite set
  is that set). `CleanRound` and `StartRound` say what has become of a worker between its
  answer and the end of the round: its bundle is loaded or still the only one, its reset was
  known at the start.
* `ServersAreServed == Spec => []ServerIsServed` (`NodeLifecycle_proofs`). Not inductive by
  itself, as a bind sets `server` whatever is there: `Safe` adds that whoever is between the
  check and the bind is alone and that there is no server meanwhile. Most steps are
  `Harmless`: they put nobody there, bring no server and end no thread that runs one. The
  exceptions have a lemma each (`MainStartsToHost`, `ForceStartsToHost`, `MainBinds`,
  `ForceBindsAlone`, `MainEnds`).
* `NodeTypeCorrect == Spec => []TypeOK` (`NodeLifecycle_proofs`). The bound on `failures` is what
  is hard: the routines of several starts share the counter, so it passes the limit. It is
  at most the limit and one for each thread that has stopped trying (`Failures`,
  `FailuresArePaid`), which is a count of a finite set.
* `ForceIsDelivered == Spec => ForceDelivers` (`NodeLifecycle_proofs`), from `Delivered`: once the
  coroutine of `force_start_server` is done there is a server, whoever started it, or a
  shutdown came between.
* `TypeCorrect`, `PixelsAreTheirOwn`, `SavedImagesAreWhole` (`TileGrid_proofs`), for images of every
  size and every grid, not only those `grid_for_tile_count` chooses. The arithmetic comes
  first: cores of an axis are nested in it and cover it, so that each place of the axis has
  its core, and disjoint unless empty; the two flips cancel. `SavedIsWhole` needs the invariant
  that the canvas holds exactly the layers of the tiles that are not to be pasted any more.
* `EveryNodeHasATile == Spec => []NodesHaveTiles` (`TileGrid_proofs`). The grid is described by what
  the loop of `grid_for_worker_count` finds, so that it exists has to be shown: a number
  whose square is large enough (`RootExists`), and the least of a set of numbers (`SmallestOf`,
  from the well-foundedness of < on the naturals, as induction over an operator is out of
  reach). That the tiles are as many as the places of the grid is a bijection (`TilesOfGrid`).

The two theorems of `TileDispatchCarried_proofs` hold under an assumption on the constants that
say what the environment does; all others hold for every value the modules allow.

Only model-checked: everything with fairness (`RenderFinishes`, `ResultArrives`, `NewestIsLoaded`,
`CleanEndsBlank`, `NotStranded`), as the prover does not
handle liveness or ENABLED. What a recursive definition computes for all inputs is
out of reach too, as the library's induction rules take an operator as a parameter;
the modules with proofs use functions and no RECURSIVE operator.

## 6. What the checks found

* **Kicked workers keep their tiles** (`dispatch_kick`). `kick_all_workers` empties
  `connected_workers`; the handlers that end after that reassign only for workers still
  in it. README 6.3 promises a reassignment on failure or disconnect. Tiles of kicked
  workers stay pending and the render does not end. `_active_worker_ids`
  has the same effect on a worker whose socket closed a moment ago.
* **A worker ignores tiles after one abort** (`dispatch_abort`).
  `render_abort_requested` of a worker is set by `MSG_RENDER_ABORT` and reset by
  no message, only by a `reset_runtime` on the worker's own machine, so every tile of later renders is dropped without an answer;
  README 6.2 says it is rendered and returned.

* **A project is forgotten while another is opened** (`load_race`). The main thread sets
  `pending_project_load` to `None` after `open_mainfile`, whatever it holds by then. A bundle
  that the asyncio thread unpacked and acknowledged meanwhile is never loaded; README 7.3
  says that its load is scheduled.

Observed while choosing properties of `ProjectLoad`: a clean, or a bundle being unpacked,
while a load fails leaves the except clause with nothing pending; it then raises itself
(`basename(None)`, 440), Blender removes the timer, and `_timer_registered` keeps it
from coming back, so the worker loads and renders nothing any more. A tile render that raises in the
rest of the same tick does the same. `NewestIsLoaded` and `CleanEndsBlank` therefore say what happens
while the timer lives (`tick.pc = "dead"`), whatever message is handled in the middle of a load; the
first also exempts the projects that the end of another load has written to (`hit`). So a clean in
the middle of a load does end blank, unless that load fails. Between the deletion of the files and the
clearing of the fields a tick can see a pending load whose file the worker has just deleted, try
it, and count a failure; `PendingLoadIsComplete` is about the time outside that gap. A blank reset that
waits for its retry, or that is asked for between the two checks of a tick, throws away a project
loaded in between, which is why `CleanEndsBlank` says only that the scene is blank at
some time after the clean. `MSG_PROJECT_SYNC_COMPLETE` names no transfer and ends the one begun last, and
the files of the project before are deleted before anything of the new one is verified.

Observed while choosing properties of `TileDispatch`, and the reason they are stated as they are: a send
that fails late re-queues a tile that is already completed, so the image can be written
twice; a result of a cancelled render is accepted by the next one; `attempts` and
`send_attempts` of one tile are counted apart. A server that is stopped and started in the middle of a
render takes its completed tiles back: `_start_server` (712-717) empties `pending_jobs`,
`completed_jobs` and `job_owner` and sets `expected_jobs` to 0, and leaves the config, the queue and
the targets. The tiles still queued are rendered, the last of them finds 0 tiles expected (1896), and
the image is stitched from those alone. (It takes a start within the 0.1 s before the next tick, as
the server has no timer otherwise.)

Observed while proving `PendingTileIsCarried`: a tile is stranded when its owner is kicked,
pruned or takes over while it holds it, when its owner was told to abort, and when the last worker
is lost while the server does not render. It is stranded, too, when its render raises:
nothing between `bpy.ops.render.render` (1209) or the read of the image (1127) and `_tick` (392)
catches, the tile is off `_task_queue`, no result is sent, and the timer ends. The worker stays
connected, so the server waits for it, and would for ever. When
the server's own render raises, or it cannot write the file of a result (1866), the whole render
stands still.

Observed while proving `InflightMatchesOwners`: `target_inflight` goes wrong for good when a tile is
queued twice, as the second dispatch takes it from a target that keeps its slot. TLC shows
four ways: two workers lost in one render, each with a send of the tile to fail yet; a worker
lost and, after its tile went to another, all kicked (with two retries); a send of an earlier
render that fails in the next; and a tile that fails to render while a send of it fails, or
while it is left from the render before. A restart of the server empties the tables and leaves the
counts. A target with a slot too many gets no tile
any more until the next render clears the tables.

* **A restarted node has no timer** (`lifecycle_timer`). `stop` makes the next `_tick` return
  `None`, on which Blender drops the timer; `_timer_registered` stays set, so `_ensure_timer` of the
  next `start` registers none. README 2.2 and 9.1 promise a timer that pumps the queues, and
  start and stop as operations. The node is connected and does nothing any more.

Observed while choosing properties of `ProjectSync`, and the reason most speak of rounds that
begin when nothing of an earlier one is under way (`quiet`): answers name no round, so one
that comes late counts in the next round of its kind, as the success of a worker that has not
seen the new bundle, too. A clean followed by a start ends with a blank worker if the blank
reset, retried, runs after the new project was loaded and the probe answered
(`main.blank`). When a worker reconnects before the handler of its old connection has ended,
that handler deletes the new registration, and the worker is connected, idle and unknown. A kick and a
takeover drop workers whose connection is still open, too, so no invariant says that a connected
worker is registered. In a round that does not begin quietly a late answer, or that of a worker
outside the list, counts as if it belonged to it, and nothing in the code prevents it. A worker that was away while a start synced, and comes back with a bundle of an
earlier sync yet to load, passes the integrity check and then loads the older project
(`main.behind`; it takes three rounds). One worker that has gone since the list was made ends a whole clean round, and
the workers after it are not asked. The signature of the integrity check does not cover
geometry, materials or lights: an older project seen through the same camera passes.

Observed while choosing properties of `NodeLifecycle`:

* `effective_mode` returns "master", "master_worker" or "worker", so the six attempts after
  which a node hosts (662-685; README 4.1) are never made: a worker searches for ever.
* A refused handshake is retried without a pause and without rediscovery or self-hosting
  (`other = "wrong"` in `NotStranded`).
* A server that answers the broadcast but cannot be reached by TCP (a firewall, a stale responder) is
  found at every rediscovery, which starts the count of failures anew (804-810): the node never
  hosts (`other = "unreachable"`).
* A worker whose own port is taken dies when it hosts: `serve` raises out of the main routine (720,
  called at 814), the thread ends, and `started` stays True. A forced server on such a node fails after
  the node has let go of the server it had (`busy`).
* `_takeover_requested` is left set when the forced server was started without a connection
  to give up; the next disconnection, perhaps days later, makes the routine give up (`stray`).
* A node forced to be a server while it searches finds its own responder and becomes a worker
  of itself: `role` is "worker" beside a running server, and `run_integrity_check` refuses; a
  second force returns True without changing the role (706-709).
* `start` right after `stop` clears the stop event before the old loop has seen it, and two
  main routines run side by side (`Overlap`). If the old loop is already closing its server,
  the new one sees `_server` set, returns, and the master is left without a server.
* `_shutdown_async` awaits a server of another loop when that is where it was started, and
  raises; `_server` then stays set and closed.

Observed while modelling `TileGrid`: `tile_target_for_workers` gives one node one tile and two nodes
two, where README 6.1 and 10.3 say at least 16. With more columns or rows than pixels all cores but the
last are empty, and `stitch_tiles` widens each to one pixel, so one column or row is composited
several times over: harmless for an opaque image, wrong where the film is transparent.

## 7. Not modelled

* The **scheduler core** and the **sync service** (`src/scheduler`, `src/sync`) are classes
  of the migration that only their tests run, the **external scheduler**
  (`scheduler_app.py`) is a process to which nothing in the add-on connects, and the method
  that would start it (`start_external_scheduler`) has no caller. What they
  are meant to do is done by the code that `TileDispatch`, `ProjectSync` and `ProjectLoad` model.
* The facade forwards each operation to the manager and keeps a list of what it forwarded; the
  panels and operators call one operation each; configuration is one JSON file; the Blender
  adapters, the type declarations and the packaging have no behaviour of their own.
* In the modelled parts: log texts, statistics, progress, colours, time stamps (`last_seen` is
  shown by the panels and read by nothing else), the files of the tiles, the render settings
  saved and restored around a tile, the length of pauses.
* A worker of `TileDispatch` that is stopped and started within one Blender session has its timer again;
  in the program it has none (`lifecycle_timer`). A `reset_runtime` on a worker, which clears its
  `render_abort_requested`, and a stop and start of the server between the rounds of `ProjectSync`.
* The race of two threads between the statements of one `_dispatch_next_job_for_target`, and two
  nodes of one network that both decide to host: `NodeLifecycle` is one node.

## 8. Plan

Done: `TileDispatch`, `TileTransfer`, `ProjectLoad`, `ProjectSync`, `NodeLifecycle`, `TileGrid`, with
their runs; every state invariant and every action property of a passing run is proved. What
would come next:

1. Proofs: the slot count of `TileDispatch` when tiles fail to render, for one render without a
   loss, where TLC finds it right; the invariant would have to say that every job is in one place.
2. `NodeLifecycle` for several nodes: who hosts when all lose the same server.
3. The race inside `_dispatch_next_job_for_target`, statement by statement.
4. The composition of `TileTransfer` with the network that `TileDispatch` assumes.
5. A restart of the server between the rounds of `ProjectSync`.
6. `SchedulerCore`, `SyncService`, `SchedulerApp`, should the add-on come to use them.
