--------------------------- MODULE NodeLifecycle ---------------------------
(* How one node becomes and stays a server or a worker (worker.py), with the   *)
(* reconnect policy (robust_connection.py) and discovery (network.py).         *)
(*                                                                             *)
(* start runs a thread with an event loop of its own; its main routine hosts a *)
(* server or looks for one and connects to it, then idles until it sees stop.  *)
(* stop and force_start_server, called on Blender's main thread, put coroutines *)
(* of theirs on the loop that self._loop names: they run while the main routine *)
(* awaits something. The rest of the network is one other server.              *)
EXTENDS Integers, FiniteSets

CONSTANTS MaxThreads,       \* bound: threads started
          MaxForces,        \* bound: calls of force_start_server
          MaxChanges,       \* bound: changes of the other server
          RediscoverAfter,  \* ReconnectPolicy.rediscover_after, 3 in the code
          SelfHostAfter     \* ReconnectPolicy.self_host_after, 8 in the code

ASSUME LifecycleAssumption ==
    /\ MaxThreads \in Nat \ {0}
    /\ MaxForces \in Nat /\ MaxChanges \in Nat
    /\ RediscoverAfter \in Nat \ {0}
    /\ SelfHostAfter \in Nat \ {0}

Threads == 1..MaxThreads
None    == 0             \* no thread

VARIABLES
    mode,      \* effective_mode(); "master" stands for "master_worker", too
    busy,      \* the node's own server port is taken by another process
    other,     \* the other server; "wrong" answers discovery, but refuses the handshake,
               \* and "unreachable" does, but no connection to it can be opened
    started,   \* started
    stop,      \* _stop_event
    loop,      \* thread whose loop self._loop is; _loop_ready once it is not None
    th,        \* thread -> where its main routine is, whom it connects to, connected?
    role,      \* role
    server,    \* thread whose loop runs self._server, or None
    sock,      \* thread whose connection self._worker_socket is, or None
    failures,  \* _reconnect.failures
    takeover,  \* _takeover_requested
    force,     \* _force_server_async: where it is, the loop it is on, its caller waits;
               \* ghost halted: a _shutdown_async has run since the call
    closed,    \* close was called on self._server, which is awaited and not None yet
    shut,      \* loops on which a _shutdown_async of stop is queued,
    closing,   \* and on which it awaits the end of the server
    timers,    \* Blender timers that run _tick
    flag,      \* _timer_registered
    raced,     \* ghost: two coroutines bound the port at the same time
    stray,     \* ghost: a takeover that gave up no connection, or hosted no server
    forces, changes   \* ghosts: counted for the bounds

mainVars  == <<started, flag, timers>>
ghostVars == <<raced, stray, forces, changes>>
envVars   == <<mode, busy, other>>
shutVars  == <<closed, shut, closing>>
vars == <<envVars, mainVars, stop, loop, th, role, server, sock, failures, takeover, force,
          shutVars, ghostVars>>

Linked == {"connect", "online", "pause"}          \* inside _connect_as_worker
Alive  == Linked \cup {"search", "binding", "main", "closing"}
Pcs    == Alive \cup {"none", "begin", "ended", "dead"}
Peers  == {"nobody", "other", "self"}
Others == {"up", "down", "wrong", "unreachable"}
Fresh  == [pc |-> "none", peer |-> "nobody", up |-> FALSE]
NoForce == [at |-> "none", on |-> None, waits |-> FALSE, halted |-> FALSE]

IsAlive(g) == g \in Threads /\ th[g].pc \in Alive

Overlap == \E g, h \in Threads : g # h /\ IsAlive(g) /\ IsAlive(h)

\* A main routine looks for a server, is connected to one, or may yet be. (Bound: what only
\* such a routine could notice happens while there is one.)
SomeoneLooks == /\ mode = "worker"
                /\ \E g \in Threads : th[g].pc \in {"none", "begin", "search"} \cup Linked

\* The connection of _connect_as_worker is closed whenever its routine goes on, and gone with
\* its address when the routine returns.
Goto(g, pc) == th' = [th EXCEPT ![g] = [pc |-> pc, up |-> FALSE,
                                        peer |-> IF pc \in Linked THEN @.peer ELSE "nobody"]]

-----------------------------------------------------------------------------
(* Discovery *)

\* Who answers a broadcast: a DiscoveryResponder runs beside every server, the
\* node's own included.
Answering == {p \in {"other", "self"} : IF p = "self" THEN server # None ELSE other # "down"}

\* A websocket connection to p can be opened, or stays open.
Reachable(p) == IF p = "self" THEN IsAlive(server) /\ ~closed ELSE p = "other" /\ other = "up"

-----------------------------------------------------------------------------
(* Main thread *)

Free == ~force.waits

TimersAfterStart == IF flag THEN timers ELSE timers + 1

\* start, with _ensure_timer
Start ==
    /\ Free /\ ~started
    /\ \E g \in Threads :
          /\ th[g].pc = "none" /\ \A h \in 1..(g - 1) : th[h].pc # "none"
          /\ Goto(g, "begin")
    /\ started' = TRUE
    /\ stop' = FALSE
    /\ timers' = TimersAfterStart
    /\ flag' = TRUE
    /\ UNCHANGED <<envVars, loop, role, server, sock, failures, takeover, force, shutVars,
                   ghostVars>>

Stop ==
    /\ Free /\ started
    /\ started' = FALSE
    /\ stop' = TRUE
    /\ shut' = shut \cup ({loop} \ {None})
    /\ UNCHANGED <<envVars, flag, timers, loop, th, role, server, sock, failures, takeover,
                   force, closed, closing, ghostVars>>

\* Blender runs _tick, which returns None once the node is stopped.
TimerEnds ==
    /\ timers > 0 /\ ~started
    /\ timers' = timers - 1
    /\ UNCHANGED <<envVars, started, flag, stop, loop, th, role, server, sock, failures,
                   takeover, force, shutVars, ghostVars>>

\* force_start_server waits for the result of its coroutine. (Bound: one call at a time,
\* the next one only after the coroutine of the last has ended.)
ForceServer ==
    /\ Free /\ started /\ loop # None
    /\ force.at = "none" /\ forces < MaxForces
    /\ forces' = forces + 1
    /\ takeover' = TRUE
    /\ stray' = (stray \/ \A g \in Threads : th[g].pc \notin Linked)
    /\ force' = [at |-> "queued", on |-> loop, waits |-> TRUE, halted |-> closed]
    /\ UNCHANGED <<envVars, mainVars, stop, loop, th, role, server, sock, failures, shutVars,
                   raced, changes>>

\* It returns True; or False, when the server could not be started
ForceReturns ==
    /\ force.waits /\ force.at \in {"done", "failed"}
    /\ force' = NoForce
    /\ UNCHANGED <<envVars, mainVars, stop, loop, th, role, server, sock, failures,
                   takeover, shutVars, ghostVars>>

\* or after eight seconds, and the coroutine goes on.
ForceTimesOut ==
    /\ force.waits /\ force.at \notin {"done", "failed"}
    /\ force' = [force EXCEPT !.waits = FALSE]
    /\ UNCHANGED <<envVars, mainVars, stop, loop, th, role, server, sock, failures,
                   takeover, shutVars, ghostVars>>

\* reset_runtime: a takeover that was requested is forgotten; if none was, nothing is.
\* (Bound: after the coroutine of force_start_server has ended.)
ResetRuntime ==
    /\ Free /\ force.at = "none" /\ takeover /\ SomeoneLooks
    /\ takeover' = FALSE
    /\ UNCHANGED <<envVars, mainVars, stop, loop, th, role, server, sock, failures, force,
                   shutVars, ghostVars>>

-----------------------------------------------------------------------------
(* _start_server: by the main routine of a thread, or by _force_server_async *)

\* Mutated: a node with the role of a server is taken to have one.
HasTheRole == role = "server"

HasServer == server # None

SomeoneBinds == force.at = "binding" \/ \E g \in Threads : th[g].pc = "binding"

BecomesServer ==
    /\ role' = IF HasServer THEN role ELSE "server"
    /\ raced' = (raced \/ (SomeoneBinds /\ ~HasServer))

Hosting == IF HasServer THEN "main" ELSE "binding"

CanBind == ~busy /\ (server = None \/ closed)

\* An exception leaves run_until_complete: the thread ends, and its loop stops.
Bind(g) ==
    /\ th[g].pc = "binding"
    /\ IF CanBind THEN server' = g /\ closed' = FALSE /\ Goto(g, "main")
                  ELSE UNCHANGED <<server, closed>> /\ Goto(g, "dead")
    /\ UNCHANGED <<envVars, mainVars, stop, loop, role, sock, failures, takeover, force,
                   shut, closing, ghostVars>>

ForceBinds ==
    /\ force.at = "binding" /\ IsAlive(force.on)
    /\ IF CanBind THEN server' = force.on /\ closed' = FALSE ELSE UNCHANGED <<server, closed>>
    /\ force' = [force EXCEPT !.at = IF CanBind THEN "done" ELSE "failed"]
    /\ UNCHANGED <<envVars, mainVars, stop, loop, th, role, sock, failures, takeover, shut,
                   closing, ghostVars>>

-----------------------------------------------------------------------------
(* _force_server_async and _shutdown_async *)

Closed == IF sock = None THEN th ELSE [th EXCEPT ![sock].up = FALSE]

\* MSG_SERVER_TAKEOVER is sent and the connection closed.
ForceGivesUpServer ==
    /\ force.at = "queued" /\ IsAlive(force.on)
    /\ th' = Closed
    /\ sock' = None
    /\ force' = [force EXCEPT !.at = "released"]
    /\ UNCHANGED <<envVars, mainVars, stop, loop, role, server, failures, takeover, shutVars,
                   ghostVars>>

ForceHosts ==
    /\ force.at = "released" /\ IsAlive(force.on)
    /\ BecomesServer
    /\ force' = [force EXCEPT !.at = IF HasServer THEN "done" ELSE "binding"]
    /\ stray' = (stray \/ (HasServer /\ closed))
    /\ UNCHANGED <<envVars, mainVars, stop, loop, th, server, sock, failures, takeover, shutVars,
                   forces, changes>>

\* The coroutine of a call that has timed out ends.
ForceEnds ==
    /\ ~force.waits /\ force.at \in {"done", "failed"}
    /\ force' = NoForce
    /\ UNCHANGED <<envVars, mainVars, stop, loop, th, role, server, sock, failures,
                   takeover, shutVars, ghostVars>>

\* _shutdown_async up to the await of the closed server, which raises on any loop but the
\* one the server runs on.
ShutsDown(links) ==
    /\ th' = links
    /\ sock' = None
    /\ closed' = (server # None)
    /\ force' = IF force.at = "none" THEN force ELSE [force EXCEPT !.halted = TRUE]

\* The coroutine stop has scheduled runs, on a loop that runs.
Shutdown(g) ==
    /\ g \in shut /\ IsAlive(g)
    /\ ShutsDown(Closed)
    /\ shut' = shut \ {g}
    /\ closing' = closing \cup ({g} \cap {server})
    /\ UNCHANGED <<envVars, mainVars, stop, loop, role, server, failures, takeover, ghostVars>>

-----------------------------------------------------------------------------
(* The main routine of thread g: _run_event_loop, _auto_connect_or_host *)

Begin(g) ==
    /\ th[g].pc = "begin"
    /\ loop' = g
    /\ IF mode = "master" THEN BecomesServer /\ Goto(g, Hosting)
                          ELSE Goto(g, "search") /\ UNCHANGED <<role, raced>>
    /\ UNCHANGED <<envVars, mainVars, stop, server, sock, failures, takeover, force, shutVars,
                   stray, forces, changes>>

\* discover_server: the reply may be the node's own.
Found(g) ==
    /\ th[g].pc = "search"
    /\ \E p \in Answering : th' = [th EXCEPT ![g] = [pc |-> "connect", peer |-> p, up |-> FALSE]]
    /\ role' = "worker"
    /\ failures' = 0
    /\ UNCHANGED <<envVars, mainVars, stop, loop, server, sock, takeover, force, shutVars,
                   ghostVars>>

\* The loops of the search and of _connect_as_worker end when they see stop.
SeesStop(g) ==
    /\ th[g].pc \in {"search", "connect"}
    /\ stop
    /\ Goto(g, "main")
    /\ stray' = (stray \/ takeover)
    /\ UNCHANGED <<envVars, mainVars, stop, loop, role, server, sock, failures, takeover,
                   force, shutVars, raced, forces, changes>>

\* Mutated: the main routine ends without _shutdown_async waiting for the server.
EndsAtOnce(g) == "ended"

AfterShutdown(g) == IF server = g THEN "closing" ELSE "ended"

\* _main_loop ends.
Ends(g) ==
    /\ th[g].pc = "main"
    /\ stop
    /\ ShutsDown([Closed EXCEPT ![g].pc = AfterShutdown(g)])
    /\ UNCHANGED <<envVars, mainVars, stop, loop, role, server, failures, takeover, shut,
                   closing, ghostVars>>

\* The server is closed: whoever awaits it on its loop goes on and drops it.
ServerEnds(g) ==
    /\ IsAlive(g)
    /\ g \in closing \/ th[g].pc = "closing"
    /\ server' = None
    /\ closed' = FALSE
    /\ closing' = closing \ {g}
    /\ th' = IF th[g].pc = "closing" THEN [th EXCEPT ![g].pc = "ended"] ELSE th
    /\ force' = IF force.at = "none" THEN force ELSE [force EXCEPT !.halted = TRUE]
    /\ UNCHANGED <<envVars, mainVars, stop, loop, role, sock, failures, takeover, shut,
                   ghostVars>>

-----------------------------------------------------------------------------
(* _connect_as_worker *)

\* Connected and registered
Connects(g) ==
    /\ th[g].pc = "connect" /\ Reachable(th[g].peer)
    /\ th' = [th EXCEPT ![g].pc = "online", ![g].up = TRUE]
    /\ sock' = g
    /\ failures' = 0
    /\ UNCHANGED <<envVars, mainVars, stop, loop, role, server, takeover, force, shutVars,
                   ghostVars>>

\* A closed connection stays in _worker_socket, where it makes no difference.
Dropped(g) == IF sock = g THEN None ELSE sock

Broken(g) == ~th[g].up \/ ~Reachable(th[g].peer)

\* A takeover ends the routine, otherwise it goes on at pc.
UnlessTakenOver(g, pc) ==
    /\ Goto(g, IF takeover THEN "main" ELSE pc)
    /\ takeover' = FALSE

\* The messages of the server end: it or this node has closed the connection.
Disconnected(g) ==
    /\ th[g].pc = "online" /\ Broken(g)
    /\ UnlessTakenOver(g, "connect")
    /\ sock' = Dropped(g)
    /\ UNCHANGED <<envVars, mainVars, stop, loop, role, server, failures, force, shutVars,
                   ghostVars>>

\* InvalidHandshake: tried again at once. (The count saturates: nothing reads it here.)
HandshakeFails(g) ==
    /\ th[g].pc = "connect" /\ th[g].peer = "other" /\ other = "wrong"
    /\ failures' = IF failures < SelfHostAfter THEN failures + 1 ELSE failures
    /\ UnlessTakenOver(g, "connect")
    /\ UNCHANGED <<envVars, mainVars, stop, loop, role, server, sock, force, shutVars, ghostVars>>

ShouldRediscover(f) == f >= RediscoverAfter

\* Mutated: failures are allowed that should have made the node host.
SelfHostsLate(f) == f > SelfHostAfter + MaxThreads

ShouldSelfHost(f) == f >= SelfHostAfter

Unreachable(g) == /\ th[g].pc = "connect" /\ ~Reachable(th[g].peer)
                  /\ ~(th[g].peer = "other" /\ other = "wrong")

\* The connection breaks before the node has registered, or a handler raises.
Raises(g) == th[g].pc = "online" /\ Broken(g)

\* Mutated: every attempt counts its failures anew.
FirstFailure == 1

NextFailure == failures + 1

\* What a failure to connect leads to when no server, or p, was found anew.
Retry(g, f) ==
    IF ShouldSelfHost(f)
    THEN BecomesServer /\ Goto(g, Hosting) /\ failures' = f
    ELSE Goto(g, "pause") /\ failures' = f /\ UNCHANGED <<role, raced>>

ConnectFails(g) ==
    /\ Unreachable(g) \/ Raises(g)
    /\ ~takeover
    /\ Retry(g, NextFailure)
    /\ sock' = Dropped(g)
    /\ UNCHANGED <<envVars, mainVars, stop, loop, server, takeover, force, shutVars,
                   stray, forces, changes>>

ConnectFailsAndRediscovers(g) ==
    /\ Unreachable(g) \/ Raises(g)
    /\ ~takeover
    /\ ShouldRediscover(NextFailure)
    /\ \E p \in Answering : th' = [th EXCEPT ![g] = [pc |-> "pause", peer |-> p, up |-> FALSE]]
    /\ failures' = 0
    /\ sock' = Dropped(g)
    /\ UNCHANGED <<envVars, mainVars, stop, loop, role, server, takeover, force, shutVars,
                   ghostVars>>

\* The except clause, and the end of the pause: a takeover was requested.
GivesUp(g) ==
    /\ takeover
    /\ Unreachable(g) \/ Raises(g) \/ th[g].pc = "pause"
    /\ UnlessTakenOver(g, "connect")
    /\ sock' = Dropped(g)
    /\ UNCHANGED <<envVars, mainVars, stop, loop, role, server, failures, force, shutVars,
                   ghostVars>>

PauseEnds(g) ==
    /\ th[g].pc = "pause" /\ ~takeover
    /\ Goto(g, "connect")
    /\ UNCHANGED <<envVars, mainVars, stop, loop, role, server, sock, failures, takeover,
                   force, shutVars, ghostVars>>

-----------------------------------------------------------------------------
(* The network *)

\* Another server comes, goes, takes its place or restarts, or is cut off: what was
\* connected is not.
OtherChanges ==
    /\ changes < MaxChanges /\ SomeoneLooks
    /\ changes' = changes + 1
    /\ other' \in Others
    /\ th' = [g \in Threads |-> IF th[g].peer = "other" THEN [th[g] EXCEPT !.up = FALSE]
                                                       ELSE th[g]]
    /\ UNCHANGED <<mode, busy, mainVars, stop, loop, role, server, sock, failures,
                   takeover, force, shutVars, raced, stray, forces>>

-----------------------------------------------------------------------------
Init ==
    /\ mode \in {"master", "worker"}
    /\ busy \in BOOLEAN
    /\ other = "up"
    /\ started = FALSE /\ stop = FALSE
    /\ loop = None
    /\ th = [g \in Threads |-> Fresh]
    /\ role = "unassigned"
    /\ server = None /\ sock = None /\ closed = FALSE /\ shut = {} /\ closing = {}
    /\ failures = 0
    /\ takeover = FALSE
    /\ force = NoForce
    /\ timers = 0 /\ flag = FALSE
    /\ raced = FALSE /\ stray = FALSE
    /\ forces = 0 /\ changes = 0

MainStep == \/ Start \/ Stop \/ TimerEnds \/ ForceServer \/ ForceReturns \/ ForceTimesOut
            \/ ResetRuntime

\* What the event loop of thread g runs: the main routine of the thread, and the
\* coroutines that other threads have put on it
LoopStep(g) ==
    \/ Begin(g) \/ Found(g) \/ SeesStop(g) \/ Bind(g)
    \/ Shutdown(g) \/ Ends(g) \/ ServerEnds(g)
    \/ Connects(g) \/ Disconnected(g) \/ HandshakeFails(g)
    \/ ConnectFails(g) \/ ConnectFailsAndRediscovers(g) \/ GivesUp(g) \/ PauseEnds(g)
    \/ force.on = g /\ (ForceGivesUpServer \/ ForceHosts \/ ForceBinds \/ ForceEnds)

Next == MainStep \/ OtherChanges \/ \E g \in Threads : LoopStep(g)

Spec == Init /\ [][Next]_vars

\* Of the event loops that have something ready one runs it, at least; the user, the network
\* and the main thread need not do anything.
Fairness == WF_vars(\E g \in Threads : LoopStep(g))

FairSpec == Spec /\ Fairness

-----------------------------------------------------------------------------
(* Properties *)

\* Every variable has its type; a node hosts a server itself before it has failed to reach
\* one more often than self_host_after allows, and once more for each thread that shares
\* the count.
TypeOK ==
    /\ mode \in {"master", "worker"} /\ busy \in BOOLEAN
    /\ other \in Others
    /\ started \in BOOLEAN /\ stop \in BOOLEAN /\ takeover \in BOOLEAN /\ flag \in BOOLEAN
    /\ loop \in 0..MaxThreads /\ server \in 0..MaxThreads
    /\ sock \in 0..MaxThreads
    /\ closed \in BOOLEAN /\ shut \subseteq Threads /\ closing \subseteq Threads
    /\ th \in [Threads -> [pc : Pcs, peer : Peers, up : BOOLEAN]]
    /\ role \in {"unassigned", "server", "worker"}
    /\ failures \in 0..(SelfHostAfter + MaxThreads)
    /\ force \in [at : {"none", "queued", "released", "binding", "done", "failed"},
                  on : 0..MaxThreads, waits : BOOLEAN, halted : BOOLEAN]
    /\ timers \in Nat
    /\ raced \in BOOLEAN /\ stray \in BOOLEAN
    /\ forces \in 0..MaxForces /\ changes \in 0..MaxChanges

\* A server that is there runs on a live event loop, through stop, start, force and
\* self-hosting, unless two coroutines passed the check of _server (worker.py 706) before
\* either had bound the port.
ServerIsServed == server # None => IsAlive(server) \/ raced

\* When force_start_server returns True the node has a server, unless a stop has shut one
\* down since the call.
ForceDelivers ==
    [][force.waits /\ force.at = "done" /\ ~force'.waits
          => server # None \/ force.halted]_vars

\* A worker that looks for its server is connected again or hosts one itself, unless the
\* node is stopped. The code leaves it hanging in five cases: while a server answers
\* discovery that refuses the handshake, or that no connection can be opened to (worker.py
\* 810 starts the count anew each time); when the node's own port is taken, so that hosting
\* ends its thread (814) or fails although it has let go of its server (force_start_server);
\* after a stray takeover request, which makes it give up; and when the thread of an earlier
\* start that has missed its stop runs beside it.
NotStranded ==
    (\E g \in Threads : th[g].pc = "connect")
        ~> \/ \E g \in Threads : th[g].pc = "online"
           \/ server # None \/ stop
           \/ other \in {"wrong", "unreachable"}
           \/ busy /\ \E g \in Threads : th[g].pc \in {"dead", "main"}
           \/ stray \/ Overlap

\* A Blender timer pumps the queues of a started node (README 2.2, worker.py 388).
PumpedWhileStarted == started => timers > 0
=============================================================================
