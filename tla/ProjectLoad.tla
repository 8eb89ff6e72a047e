---------------------------- MODULE ProjectLoad ----------------------------
(* How a worker takes, loads and throws away projects (worker.py).            *)
(*                                                                            *)
(* The asyncio thread handles MSG_PROJECT_SYNC_START, _CHUNK, _COMPLETE and   *)
(* MSG_CLEAN_BLEND. The main thread resets Blender and loads projects in the  *)
(* timer tick (process_main_thread_queues). bpy operators give up Python's    *)
(* lock and unzipping takes long: the handlers of one thread run between the  *)
(* steps of the other, and both write pending_project_load.                   *)
(*                                                                            *)
(* The server sends the messages of one bundle in order. Bundles may overlap: *)
(* a sync the server's main thread gave up waiting for goes on sending.       *)
EXTENDS Integers, FiniteSets

CONSTANTS NumBundles,    \* bound: bundles the server sends
          Chunks,        \* chunks of a bundle
          MaxAttempts,   \* attempts at a load or a reset, 5 in the code
          MaxCleans,     \* bound: MSG_CLEAN_BLEND received
          MaxResets      \* bound: reset_runtime called on the worker

ASSUME LoadAssumption ==
    /\ NumBundles \in Nat \ {0}
    /\ Chunks \in Nat \ {0}
    /\ MaxAttempts \in Nat \ {0}
    /\ MaxCleans \in Nat
    /\ MaxResets \in Nat

Bundles == 1..NumBundles
Index   == 0..(Chunks - 1)
None    == 0             \* no bundle; the scene is not one of the server's
Maybe   == Bundles \cup {None}

VARIABLES
    stream,        \* bundle -> messages of it received
    incoming,      \* _incoming_project: transfer id and the chunks received
    aio,           \* asyncio thread: pc and the bundle it is going to unpack
    received_dir,  \* received_project_dir: the bundle unpacked there, or None
    files,         \* bundles whose .blend copy is on disk
    load,          \* pending_project_load, ..._attempts, waiting for ..._retry_at
    blank,         \* pending_blank_reset, ..._attempts, waiting for ..._retry_at
    context,       \* pending_sync_context: the bundle it came with, or None
    scene,         \* what Blender shows
    tick,          \* main thread: pc and its local blend_file
    reset,         \* main thread: reset_runtime has deleted and not yet forgotten
    newest,        \* ghost: last bundle acknowledged, None once it is superseded
    tries,         \* ghost: bundle -> loads that failed
    shown,         \* ghost: bundles loaded so far
    cleaning,      \* ghost: cleaned, and neither blank nor a new bundle taken since
    hit,           \* ghost: bundles whose load the end of another load wrote to
    cleans, resets \* ghosts: counted for the bounds

aioVars == <<stream, incoming, aio>>
vars == <<aioVars, received_dir, files, load, blank, context, scene, tick, reset,
          newest, tries, shown, cleaning, hit, cleans, resets>>

NoTransfer == [id |-> None, chunks |-> {}]
NoLoad     == [file |-> None, attempts |-> 0, waits |-> FALSE]
Loading    == {"read", "named", "opening", "failed"}
AioPcs     == {"idle", "clearing", "cleaning", "unzipping"}
TickPcs    == {"idle", "blank", "resetting", "load", "dead"} \cup Loading

-----------------------------------------------------------------------------
(* Asyncio thread *)

AioIdle == aio.pc = "idle"

AioGoto(pc, bundle) == aio' = [pc |-> pc, bundle |-> bundle]

Start(b) ==
    /\ AioIdle
    /\ stream[b] = 0
    /\ stream' = [stream EXCEPT ![b] = 1]
    /\ incoming' = [id |-> b, chunks |-> {}]
    /\ UNCHANGED <<aio, received_dir, files, load, blank, context, scene, tick, reset,
                   newest, tries, shown, cleaning, hit, cleans, resets>>

\* A chunk of another transfer than the one begun last is ignored.
Chunk(b) ==
    /\ AioIdle
    /\ stream[b] \in 1..Chunks
    /\ stream' = [stream EXCEPT ![b] = @ + 1]
    /\ incoming' = IF incoming.id = b
                   THEN [incoming EXCEPT !.chunks = @ \cup {stream[b] - 1}]
                   ELSE incoming
    /\ UNCHANGED <<aio, received_dir, files, load, blank, context, scene, tick, reset,
                   newest, tries, shown, cleaning, hit, cleans, resets>>

\* First half of _clear_sync_artifacts, and of the clean: the files go. What was
\* acknowledged before is superseded from here on.
DeleteFiles ==
    /\ files' = files \ {received_dir, load.file}
    /\ newest' = None

\* Mutated: the load that is pending is not forgotten with its files.
ClearedLoadKept == load

ClearedLoad == NoLoad

\* Second half: the fields that name them are cleared. rmtree and remove let the
\* other thread run before it.
ForgetFiles ==
    /\ received_dir' = None
    /\ load' = ClearedLoad
    /\ context' = None

\* No chunk is missing; the checksum fits then, as all are of one transfer.
Verified(t) == t.chunks = Index

\* MSG_PROJECT_SYNC_COMPLETE names no transfer: it ends the one begun last. The
\* files of the project before are deleted first, whatever comes of it.
Complete(b) ==
    /\ AioIdle
    /\ stream[b] = Chunks + 1
    /\ stream' = [stream EXCEPT ![b] = @ + 1]
    /\ incoming' = NoTransfer
    /\ IF incoming = NoTransfer
       THEN UNCHANGED <<aio, files, newest>>
       ELSE /\ DeleteFiles
            /\ AioGoto("clearing", IF Verified(incoming) THEN incoming.id ELSE None)
    /\ UNCHANGED <<received_dir, load, context, blank, scene, tick, reset, tries, shown,
                   cleaning, hit, cleans, resets>>

Cleared ==
    /\ aio.pc = "clearing"
    /\ ForgetFiles
    /\ AioGoto(IF aio.bundle = None THEN "idle" ELSE "unzipping", aio.bundle)
    /\ UNCHANGED <<stream, incoming, files, newest, blank, scene, tick, reset, tries,
                   shown, cleaning, hit, cleans, resets>>

\* Unpacked, and acknowledged with success
Apply ==
    /\ aio.pc = "unzipping"
    /\ AioGoto("idle", None)
    /\ files' = files \cup {aio.bundle}
    /\ received_dir' = aio.bundle
    /\ context' = aio.bundle
    /\ load' = [NoLoad EXCEPT !.file = aio.bundle]
    /\ newest' = aio.bundle
    /\ cleaning' = FALSE
    /\ UNCHANGED <<stream, incoming, blank, scene, tick, reset, tries, shown, hit,
                   cleans, resets>>

\* It raises, while unpacking or while copying what is unpacked: the disk is full.
ApplyFails ==
    /\ aio.pc = "unzipping"
    /\ AioGoto("idle", None)
    /\ received_dir' \in {received_dir, aio.bundle}
    /\ UNCHANGED <<stream, incoming, files, load, blank, context, scene, tick, reset,
                   newest, tries, shown, cleaning, hit, cleans, resets>>

\* MSG_CLEAN_BLEND
Clean ==
    /\ AioIdle
    /\ cleans < MaxCleans
    /\ cleans' = cleans + 1
    /\ DeleteFiles
    /\ AioGoto("cleaning", None)
    /\ UNCHANGED <<stream, incoming, received_dir, load, context, blank, scene, tick,
                   reset, tries, shown, cleaning, hit, resets>>

Cleaned ==
    /\ aio.pc = "cleaning"
    /\ ForgetFiles
    /\ blank' = [due |-> TRUE, attempts |-> 0, waits |-> FALSE]
    /\ cleaning' = TRUE
    /\ AioGoto("idle", None)
    /\ UNCHANGED <<stream, incoming, files, newest, scene, tick, reset, tries, shown,
                   hit, cleans, resets>>

-----------------------------------------------------------------------------
(* Main thread *)

Goto(pc) == tick' = [tick EXCEPT !.pc = pc]

\* The user resets the worker: reset_runtime
ResetRuntime ==
    /\ tick.pc \in {"idle", "dead"}
    /\ ~reset
    /\ reset' = TRUE
    /\ resets < MaxResets
    /\ resets' = resets + 1
    /\ incoming' = NoTransfer
    /\ DeleteFiles
    /\ UNCHANGED <<stream, aio, received_dir, load, context, blank, scene, tick, tries,
                   shown, cleaning, hit, cleans>>

\* What was acknowledged meanwhile is forgotten, too.
ResetDone ==
    /\ reset
    /\ reset' = FALSE
    /\ ForgetFiles
    /\ newest' = None
    /\ UNCHANGED <<aioVars, files, blank, scene, tick, tries, shown, cleaning, hit,
                   cleans, resets>>

\* The rest of the tick raises, as a tile render does, or the node is stopped: the
\* timer is not called again.
TimerEnds ==
    /\ tick.pc = "idle"
    /\ ~reset
    /\ Goto("dead")
    /\ UNCHANGED <<aioVars, received_dir, files, load, blank, context, scene, reset,
                   newest, tries, shown, cleaning, hit, cleans, resets>>

Tick ==
    /\ tick.pc = "idle"
    /\ ~reset
    /\ Goto("blank")
    /\ UNCHANGED <<aioVars, received_dir, files, load, blank, context, scene, reset,
                   newest, tries, shown, cleaning, hit, cleans, resets>>

CheckBlank ==
    /\ tick.pc = "blank"
    /\ Goto(IF blank.due /\ ~blank.waits THEN "resetting" ELSE "load")
    /\ UNCHANGED <<aioVars, received_dir, files, load, blank, context, scene, reset,
                   newest, tries, shown, cleaning, hit, cleans, resets>>

BlankLoaded ==
    /\ tick.pc = "resetting"
    /\ scene' = None
    /\ blank' = [due |-> FALSE, attempts |-> 0, waits |-> FALSE]
    /\ cleaning' = FALSE
    /\ Goto("load")
    /\ UNCHANGED <<aioVars, received_dir, files, load, context, reset, newest,
                   tries, shown, hit, cleans, resets>>

\* Mutated: the reset is not tried again.
BlankGivenUp(n) == [due |-> FALSE, attempts |-> n, waits |-> FALSE]

BlankAfter(n) == [due |-> n < MaxAttempts, attempts |-> n, waits |-> n < MaxAttempts]

BlankFails ==
    /\ tick.pc = "resetting"
    /\ blank' = BlankAfter(blank.attempts + 1)
    /\ Goto("load")
    /\ UNCHANGED <<aioVars, received_dir, files, load, context, scene, reset,
                   newest, tries, shown, cleaning, hit, cleans, resets>>

CheckLoad ==
    /\ tick.pc = "load"
    /\ Goto(IF load.file # None /\ ~load.waits THEN "read" ELSE "idle")
    /\ UNCHANGED <<aioVars, received_dir, files, load, blank, context, scene, reset,
                   newest, tries, shown, cleaning, hit, cleans, resets>>

\* blend_file = self.pending_project_load; basename(None) raises.
ReadBlendFile ==
    /\ tick.pc = "read"
    /\ tick' = [pc |-> IF load.file = None THEN "failed" ELSE "named",
                blend |-> load.file]
    /\ UNCHANGED <<aioVars, received_dir, files, load, blank, context, scene, reset,
                   newest, tries, shown, cleaning, hit, cleans, resets>>

\* open_mainfile opens the file, which may have been deleted meanwhile.
OpenFile ==
    /\ tick.pc = "named"
    /\ tick.blend \in files
    /\ Goto("opening")
    /\ UNCHANGED <<aioVars, received_dir, files, load, blank, context, scene, reset,
                   newest, tries, shown, cleaning, hit, cleans, resets>>

\* The load that is written to now is not the one that was tried.
HitsAnother == hit' = hit \cup ({load.file} \ {tick.blend, None})

\* _activate_synced_job_context follows, and nothing is pending any more.
ProjectLoaded ==
    /\ tick.pc = "opening"
    /\ scene' = tick.blend
    /\ shown' = shown \cup {tick.blend}
    /\ context' = None
    /\ load' = NoLoad
    /\ HitsAnother
    /\ tick' = [pc |-> "idle", blend |-> None]
    /\ UNCHANGED <<aioVars, received_dir, files, blank, reset, newest, tries, cleaning,
                   cleans, resets>>

OpenFails ==
    /\ tick.pc \in {"named", "opening"}
    /\ tries' = [tries EXCEPT ![tick.blend] = @ + 1]
    /\ Goto("failed")
    /\ UNCHANGED <<aioVars, received_dir, files, load, blank, context, scene, reset,
                   newest, shown, cleaning, hit, cleans, resets>>

\* Mutated: the attempt that failed is the last but one.
GivesUpEarly(n) == n >= MaxAttempts - 1

\* Mutated: a try too many.
GivesUpLate(n) == n > MaxAttempts

GivesUp(n) == n >= MaxAttempts

\* The except clause: with nothing pending any more basename(None) raises out of
\* the timer, which Blender then removes.
LoadFailed ==
    /\ tick.pc = "failed"
    /\ IF GivesUp(load.attempts + 1)
       THEN load' = NoLoad /\ tick' = [pc |-> "idle", blend |-> None]
       ELSE /\ load' = [load EXCEPT !.attempts = @ + 1, !.waits = TRUE]
            /\ tick' = [pc |-> IF load.file = None THEN "dead" ELSE "idle",
                        blend |-> None]
    /\ HitsAnother
    /\ UNCHANGED <<aioVars, received_dir, files, blank, context, scene, reset, newest,
                   tries, shown, cleaning, cleans, resets>>

-----------------------------------------------------------------------------
(* Time *)

LoadDue ==
    /\ load.waits
    /\ load' = [load EXCEPT !.waits = FALSE]
    /\ UNCHANGED <<aioVars, received_dir, files, blank, context, scene, tick, reset,
                   newest, tries, shown, cleaning, hit, cleans, resets>>

BlankDue ==
    /\ blank.waits
    /\ blank' = [blank EXCEPT !.waits = FALSE]
    /\ UNCHANGED <<aioVars, received_dir, files, load, context, scene, tick, reset,
                   newest, tries, shown, cleaning, hit, cleans, resets>>

-----------------------------------------------------------------------------
Init ==
    /\ stream = [b \in Bundles |-> 0]
    /\ incoming = NoTransfer
    /\ aio = [pc |-> "idle", bundle |-> None]
    /\ received_dir = None
    /\ files = {}
    /\ load = NoLoad
    /\ blank = [due |-> FALSE, attempts |-> 0, waits |-> FALSE]
    /\ context = None
    /\ scene = None
    /\ tick = [pc |-> "idle", blend |-> None]
    /\ reset = FALSE
    /\ newest = None
    /\ tries = [b \in Bundles |-> 0]
    /\ shown = {}
    /\ cleaning = FALSE
    /\ hit = {}
    /\ cleans = 0
    /\ resets = 0

ServerStep == Clean \/ \E b \in Bundles : Start(b) \/ Chunk(b) \/ Complete(b)

AioStep == Cleared \/ Apply \/ ApplyFails \/ Cleaned

MainStep == \/ ResetDone \/ Tick \/ CheckBlank \/ BlankLoaded \/ BlankFails
            \/ CheckLoad \/ ReadBlendFile \/ OpenFile
            \/ ProjectLoaded \/ OpenFails \/ LoadFailed

Next == ServerStep \/ AioStep \/ MainStep \/ ResetRuntime \/ TimerEnds
        \/ LoadDue \/ BlankDue

Spec == Init /\ [][Next]_vars

\* The timer fires, time passes. Nothing obliges the server to send.
Fairness == /\ WF_vars(AioStep) /\ WF_vars(MainStep)
            /\ WF_vars(LoadDue) /\ WF_vars(BlankDue)

FairSpec == Spec /\ Fairness

-----------------------------------------------------------------------------
(* Properties *)

Retries == [due : BOOLEAN, attempts : 0..MaxAttempts, waits : BOOLEAN]

\* Every variable has its type: no counter of attempts exceeds its limit.
TypeOK ==
    /\ stream \in [Bundles -> 0..(Chunks + 2)]
    /\ incoming \in [id : Maybe, chunks : SUBSET Index]
    /\ aio \in [pc : AioPcs, bundle : Maybe]
    /\ received_dir \in Maybe
    /\ files \in SUBSET Bundles
    /\ load \in [file : Maybe, attempts : 0..(MaxAttempts - 1), waits : BOOLEAN]
    /\ blank \in Retries
    /\ context \in Maybe
    /\ scene \in Maybe
    /\ tick \in [pc : TickPcs, blend : Maybe]
    /\ newest \in Maybe
    /\ tries \in [Bundles -> 0..MaxAttempts]
    /\ shown \in SUBSET Bundles
    /\ cleaning \in BOOLEAN
    /\ reset \in BOOLEAN
    /\ hit \in SUBSET Bundles
    /\ cleans \in 0..MaxCleans
    /\ resets \in 0..MaxResets

\* Files are deleted, and the fields that name them not cleared yet.
HalfCleared == reset \/ aio.pc \in {"clearing", "cleaning"}

\* The project that is to be loaded is the one unpacked last, its file is on disk and
\* its context at hand, whatever the two threads delete and forget meanwhile. Only
\* while one of them is between deleting files and clearing the fields that name them
\* can a tick see, and try, a load whose file the worker has deleted itself; no such
\* load outlives the handler.
PendingLoadIsComplete ==
    load.file # None /\ ~HalfCleared => /\ load.file \in files
                                        /\ load.file = received_dir
                                        /\ load.file = context

\* An acknowledged project is loaded, through retries, unless it is superseded, cleaned
\* or reset, or fails five times, or the timer is gone: to a render that raised, to a
\* stop, or to a message handled in the middle of a load that fails. The other damage
\* of that race is to the projects in hit: the end of the load before theirs clears
\* what is pending, or counts its own failure as theirs.
NewestIsLoaded ==
    \A b \in Bundles :
        newest = b ~> \/ b \in shown \/ newest # b \/ tries[b] >= MaxAttempts
                      \/ b \in hit \/ tick.pc = "dead"

\* After MSG_CLEAN_BLEND the worker ends with a blank scene, unless a new project was
\* taken, the reset failed five times, or the timer is gone: a clean in the middle of a
\* load that fails ends it, as the except clause names the file that was cleaned.
CleanEndsBlank ==
    cleaning ~> ~cleaning \/ blank.attempts = MaxAttempts \/ tick.pc = "dead"

\* README 7.3: the worker schedules the load of the project it received. Between two
\* ticks the project acknowledged last has been shown or tried, or is pending.
NewestIsInHand ==
    tick.pc \in {"idle", "dead"} /\ newest # None =>
        newest \in shown \/ load.file = newest \/ tries[newest] > 0
=============================================================================
