----------------------- MODULE NodeLifecycle_proofs -----------------------
(* For any number of starts, stops, forced servers and changes of the network: *)
(* a server of NodeLifecycle runs on a live event loop, force_start_server     *)
(* keeps what it returns, and every variable has its type. By itself the first *)
(* is not inductive: the check of _server and the bind of the port are apart,  *)
(* so the invariant also says who may be between the two.                      *)
EXTENDS NodeLifecycle, FiniteSetTheorems, TLAPS

Where == {"none", "queued", "released", "binding", "done", "failed"}

ForceStates == [at : Where, on : 0..MaxThreads, waits : BOOLEAN, halted : BOOLEAN]

Typed ==
    /\ th \in [Threads -> [pc : Pcs, peer : Peers, up : BOOLEAN]]
    /\ server \in 0..MaxThreads /\ sock \in 0..MaxThreads
    /\ force \in ForceStates /\ closed \in BOOLEAN
    /\ loop \in 0..MaxThreads

\* A main routine goes on at p.
LEMMA GotoType ==
    ASSUME Typed, NEW g \in Threads, NEW p \in Pcs, Goto(g, p)
    PROVE  /\ th' \in [Threads -> [pc : Pcs, peer : Peers, up : BOOLEAN]]
           /\ \A h \in Threads : th'[h].pc = IF h = g THEN p ELSE th[h].pc
<1> DEFINE q == IF p \in Linked THEN th[g].peer ELSE "nobody"
           t == [pc |-> p, up |-> FALSE, peer |-> q]
<1>1. q \in Peers
  BY DEF Typed, Peers
<1>2. t \in [pc : Pcs, peer : Peers, up : BOOLEAN] /\ t.pc = p
  BY <1>1
<1>3. th' = [th EXCEPT ![g] = t]
  BY DEF Goto, Typed
<1> HIDE DEF t
<1> QED BY <1>2, <1>3 DEF Typed

LEMMA GotoKeepsTyped ==
    ASSUME Typed, NEW g \in Threads, NEW p \in Pcs, Goto(g, p), sock' \in 0..MaxThreads,
           loop' \in 0..MaxThreads, UNCHANGED <<server, force, closed>>
    PROVE  Typed'
BY GotoType DEF Typed

Binding(g) == th[g].pc = "binding"

\* As long as no two coroutines were between check and bind at once:
Safe ==
    /\ server # None => IsAlive(server)
    /\ SomeoneBinds => server = None
    /\ \A g, h \in Threads : Binding(g) /\ Binding(h) => g = h
    /\ \A g \in Threads : Binding(g) => force.at # "binding"

IInv == Typed /\ (raced \/ Safe)

\* A step after which nobody is newly between check and bind, and the server, if it is there,
\* is the one it was and its thread lives on.
Harmless ==
    /\ server' \in {server, None}
    /\ server' # None => th'[server].pc \in Alive
    /\ \A g \in Threads : th'[g].pc = "binding" => th[g].pc = "binding"
    /\ force'.at = "binding" => force.at = "binding"

LEMMA HarmlessSteps ==
    ASSUME IInv, Typed', (~raced /\ Safe) => Harmless, raced => raced'
    PROVE  IInv'
<1>1. CASE raced
  BY <1>1 DEF IInv
<1>2. CASE ~raced
  <2>1. Safe /\ Harmless
    BY <1>2 DEF IInv
  <2>2. server' # None => IsAlive(server)'
    BY <2>1 DEF Harmless, IsAlive, Typed, Threads, None, Safe
  <2>3. SomeoneBinds' => server' = None
    BY <2>1 DEF Harmless, SomeoneBinds, Safe
  <2>4. \A g, h \in Threads : Binding(g)' /\ Binding(h)' => g = h
    BY <2>1 DEF Harmless, Safe, Binding
  <2>5. \A g \in Threads : Binding(g)' => force'.at # "binding"
    BY <2>1 DEF Harmless, Safe, Binding
  <2> QED
    BY <2>2, <2>3, <2>4, <2>5 DEF IInv, Safe
<1> QED
  BY <1>1, <1>2

\* Thread g moves from one place of its main routine to another, neither of them the bind.
LEMMA Moves ==
    ASSUME IInv, NEW g \in Threads, NEW p \in Alive \ {"binding"}, Goto(g, p),
           sock' \in 0..MaxThreads, UNCHANGED <<raced, server, force, loop, closed>>
    PROVE  IInv'
<1>1. Typed'
  <2>1. p \in Pcs
    BY DEF Pcs
  <2> QED BY <2>1, GotoType DEF IInv, Typed
<1>2. Safe => Harmless
  <2>1. \A h \in Threads : th'[h].pc = IF h = g THEN p ELSE th[h].pc
    BY DEF Goto, IInv, Typed
  <2> QED
    BY <2>1 DEF Safe, Harmless, IsAlive
<1> QED
  BY <1>1, <1>2, HarmlessSteps

\* What does not touch the threads, the server or the coroutine of force changes nothing.
LEMMA Elsewhere ==
    ASSUME IInv, UNCHANGED <<th, raced, server, sock, force, loop, closed>>
    PROVE  IInv'
<1>1. Typed'
  BY DEF IInv, Typed
<1>2. Safe => Harmless
  BY DEF Safe, Harmless, IsAlive
<1> QED
  BY <1>1, <1>2, HarmlessSteps

LEMMA DroppedType == ASSUME Typed, NEW g \in Threads PROVE Dropped(g) \in 0..MaxThreads
BY LifecycleAssumption DEF Dropped, Typed, None

LEMMA NoneIsANode == None \in 0..MaxThreads
BY LifecycleAssumption DEF None

\* A shutdown that meets the coroutine of force_start_server only marks it.
LEMMA ForceHalts ==
    ASSUME Typed,
           force' = IF force.at = "none" THEN force ELSE [force EXCEPT !.halted = TRUE]
    PROVE  force' \in ForceStates
BY DEF Typed, ForceStates

\* Closing the worker's connection moves no thread.
LEMMA ClosedMovesNone ==
    ASSUME Typed
    PROVE  /\ Closed \in [Threads -> [pc : Pcs, peer : Peers, up : BOOLEAN]]
           /\ \A h \in Threads : Closed[h].pc = th[h].pc
<1>1. CASE sock = None
  BY <1>1 DEF Closed, Typed
<1>2. CASE sock # None
  <2>1. sock \in Threads
    BY <1>2 DEF Typed, Threads, None
  <2> QED
    BY <1>2, <2>1 DEF Closed, Typed
<1> QED
  BY <1>1, <1>2

\* Of two coroutines that find no server only the first may go on to bind the port: the
\* second is the race. The one that binds becomes "binding" at the main routine of g ...
LEMMA MainStartsToHost ==
    ASSUME IInv, NEW g \in Threads, BecomesServer, Goto(g, Hosting), th[g].pc # "binding",
           loop' \in 0..MaxThreads, sock' \in 0..MaxThreads, UNCHANGED <<server, force, closed>>
    PROVE  IInv'
<1>1. Hosting \in Alive /\ Hosting \in Pcs
  BY DEF Hosting, Alive, Linked, Pcs
<1>2. Typed'
  BY <1>1, GotoKeepsTyped DEF IInv
<1>3. \A h \in Threads : th'[h].pc = IF h = g THEN Hosting ELSE th[h].pc
  BY <1>1, GotoType DEF IInv
<1>4. CASE raced'
  BY <1>2, <1>4 DEF IInv
<1>5. CASE ~raced' /\ HasServer
  <2>1. Hosting = "main"
    BY <1>5 DEF Hosting
  <2>2. Safe => Harmless
    BY <1>1, <1>3, <2>1 DEF Safe, Harmless, IsAlive
  <2>3. raced => raced'
    BY DEF BecomesServer
  <2> QED
    BY <1>2, <2>2, <2>3, HarmlessSteps
<1>6. CASE ~raced' /\ ~HasServer
  <2>1. ~SomeoneBinds /\ Safe
    BY <1>6 DEF BecomesServer, IInv
  <2>2. server' = None
    BY <1>6 DEF HasServer
  <2>3. Safe'
    BY <1>3, <2>1, <2>2 DEF Safe, Binding, SomeoneBinds
  <2> QED
    BY <1>2, <2>3 DEF IInv
<1> QED
  BY <1>4, <1>5, <1>6

\* ... or at the coroutine of force_start_server.
LEMMA ForceStartsToHost ==
    ASSUME IInv, ForceHosts
    PROVE  IInv'
<1>1. Typed'
  BY DEF ForceHosts, IInv, Typed, Where, ForceStates, shutVars
<1>2. force'.at = IF HasServer THEN "done" ELSE "binding"
  BY DEF ForceHosts, IInv, Typed, ForceStates, shutVars
<1>3. CASE raced'
  BY <1>1, <1>3 DEF IInv
<1>4. CASE ~raced' /\ HasServer
  <2>1. Safe => Harmless
    BY <1>2, <1>4 DEF Safe, Harmless, IsAlive, ForceHosts
  <2>2. raced => raced'
    BY DEF ForceHosts, BecomesServer
  <2> QED
    BY <1>1, <2>1, <2>2, HarmlessSteps
<1>5. CASE ~raced' /\ ~HasServer
  <2>1. ~SomeoneBinds /\ Safe
    BY <1>5 DEF ForceHosts, BecomesServer, IInv
  <2>2. server' = None /\ th' = th
    BY <1>5 DEF HasServer, ForceHosts
  <2>3. Safe'
    BY <2>1, <2>2 DEF Safe, Binding, SomeoneBinds
  <2> QED
    BY <1>1, <2>3 DEF IInv
<1> QED
  BY <1>3, <1>4, <1>5

\* The bind by a main routine: alone between check and bind, it runs the server on a live
\* loop, or dies when there is none.
LEMMA MainBinds ==
    ASSUME IInv, NEW g \in Threads, Bind(g)
    PROVE  IInv'
<1>1. Typed'
  <2>1. g \in 0..MaxThreads /\ "main" \in Pcs /\ "dead" \in Pcs
    BY DEF Threads, Pcs, Alive
  <2>2. th' \in [Threads -> [pc : Pcs, peer : Peers, up : BOOLEAN]]
    BY <2>1, GotoType DEF Bind, IInv
  <2> QED
    BY <2>1, <2>2 DEF Bind, IInv, Typed
<1>2. CASE raced
  BY <1>1, <1>2 DEF IInv, Bind, ghostVars
<1>3. CASE ~raced
  <2>1. Safe /\ Binding(g)
    BY <1>3 DEF IInv, Bind, Binding
  <2>2. server = None
    BY <2>1 DEF Safe, SomeoneBinds, Binding
  <2>3. \A h \in Threads : h # g => th'[h].pc = th[h].pc
    BY DEF Bind, Goto, IInv, Typed
  <2>4. th'[g].pc = IF CanBind THEN "main" ELSE "dead"
    BY DEF Bind, Goto, IInv, Typed
  <2>5. \A h \in Threads : ~Binding(h)'
    BY <2>1, <2>3, <2>4 DEF Safe, Binding
  <2>6. ~SomeoneBinds'
    BY <2>1, <2>5 DEF Safe, Binding, SomeoneBinds, Bind
  <2>7. server' # None => IsAlive(server)'
    BY <2>2, <2>4 DEF Bind, IsAlive, Alive
  <2> QED
    BY <1>1, <2>5, <2>6, <2>7 DEF IInv, Safe
<1> QED
  BY <1>2, <1>3

LEMMA ForceBindsAlone ==
    ASSUME IInv, ForceBinds
    PROVE  IInv'
<1>1. Typed'
  BY DEF ForceBinds, IInv, Typed, Where, ForceStates
<1>2. CASE raced
  BY <1>1, <1>2 DEF IInv, ForceBinds, ghostVars
<1>3. CASE ~raced
  <2>1. Safe /\ SomeoneBinds
    BY <1>3 DEF IInv, ForceBinds, SomeoneBinds
  <2>2. server = None
    BY <2>1 DEF Safe
  <2>3. th' = th /\ force'.at # "binding"
    BY DEF ForceBinds, IInv, Typed, ForceStates
  <2>4. \A h \in Threads : ~Binding(h)'
    BY <2>1, <2>3 DEF Safe, Binding, ForceBinds
  <2>5. ~SomeoneBinds'
    BY <2>3, <2>4 DEF Binding, SomeoneBinds
  <2>6. server' # None => IsAlive(server)'
    BY <2>2, <2>3 DEF ForceBinds, IsAlive
  <2> QED
    BY <1>1, <2>4, <2>5, <2>6 DEF IInv, Safe
<1> QED
  BY <1>2, <1>3

\* The coroutine of force goes on, without a bind, and closes the worker's connection at most.
LEMMA ForceMoves ==
    ASSUME IInv, Typed', force'.at # "binding", UNCHANGED <<raced, server>>,
           \A h \in Threads : th'[h].pc = th[h].pc
    PROVE  IInv'
<1>1. Safe => Harmless
  BY DEF Safe, Harmless, IsAlive
<1> QED
  BY <1>1, HarmlessSteps

\* A failed attempt leads to another or makes the node host.
LEMMA Retries ==
    ASSUME IInv, NEW g \in Threads, ConnectFails(g)
    PROVE  IInv'
<1>1. th[g].pc # "binding"
  BY DEF ConnectFails, Unreachable, Raises
<1>0. sock' \in 0..MaxThreads /\ loop \in 0..MaxThreads
  BY DroppedType DEF ConnectFails, IInv, Typed
<1>2. CASE ShouldSelfHost(NextFailure)
  BY <1>0, <1>1, <1>2, MainStartsToHost DEF ConnectFails, Retry, shutVars
<1>3. CASE ~ShouldSelfHost(NextFailure)
  <2>1. "pause" \in Alive \ {"binding"}
    BY DEF Alive, Linked
  <2> QED
    BY <1>0, <1>3, <2>1, Moves DEF ConnectFails, Retry, shutVars
<1> QED
  BY <1>2, <1>3

\* Where a taken over, or not taken over, routine goes on.
LEMMA MovesUnlessTakenOver ==
    ASSUME IInv, NEW g \in Threads, UnlessTakenOver(g, "connect"),
           sock' \in 0..MaxThreads, UNCHANGED <<raced, server, force, loop, closed>>
    PROVE  IInv'
<1>1. "main" \in Alive \ {"binding"} /\ "connect" \in Alive \ {"binding"}
  BY DEF Alive, Linked
<1>2. CASE takeover
  BY <1>1, <1>2, Moves DEF UnlessTakenOver
<1>3. CASE ~takeover
  BY <1>1, <1>3, Moves DEF UnlessTakenOver
<1> QED
  BY <1>2, <1>3

\* The ends of a server: a shutdown moves no thread that runs one, and drops no bind.
LEMMA MainEnds ==
    ASSUME IInv, NEW g \in Threads, Ends(g)
    PROVE  IInv'
<1>1. th' = [Closed EXCEPT ![g].pc = AfterShutdown(g)]
  BY DEF Ends, ShutsDown
<1>2. AfterShutdown(g) \in {"closing", "ended"}
  BY DEF AfterShutdown
<1>3. /\ th' \in [Threads -> [pc : Pcs, peer : Peers, up : BOOLEAN]]
      /\ \A h \in Threads : th'[h].pc = IF h = g THEN AfterShutdown(g) ELSE th[h].pc
  BY <1>1, <1>2, ClosedMovesNone DEF IInv, Pcs, Alive
<1>4. Typed'
  <2>1. force' \in ForceStates
    BY ForceHalts DEF Ends, ShutsDown, IInv
  <2> QED
    BY <1>3, <2>1, NoneIsANode DEF Ends, ShutsDown, IInv, Typed
<1>5. force'.at = force.at
  BY DEF Ends, ShutsDown, IInv, Typed, ForceStates
<1>6. Safe => Harmless
  <2>1. server = g => AfterShutdown(g) = "closing"
    BY DEF AfterShutdown
  <2>2. "closing" \in Alive
    BY DEF Alive
  <2> QED
    BY <1>2, <1>3, <1>5, <2>1, <2>2 DEF Safe, Harmless, IsAlive, Ends, ghostVars
<1> QED
  BY <1>4, <1>6, HarmlessSteps DEF Ends, ghostVars

LEMMA ShutdownIsHarmless ==
    ASSUME IInv, NEW g \in Threads, Shutdown(g)
    PROVE  IInv'
<1>1. th' = Closed
  BY DEF Shutdown, ShutsDown
<1>2. /\ th' \in [Threads -> [pc : Pcs, peer : Peers, up : BOOLEAN]]
      /\ \A h \in Threads : th'[h].pc = th[h].pc
  BY <1>1, ClosedMovesNone DEF IInv
<1>3. Typed'
  <2>1. force' \in ForceStates
    BY ForceHalts DEF Shutdown, ShutsDown, IInv
  <2> QED
    BY <1>2, <2>1, NoneIsANode DEF Shutdown, ShutsDown, IInv, Typed
<1>4. force'.at = force.at
  BY DEF Shutdown, ShutsDown, IInv, Typed, ForceStates
<1>5. Safe => Harmless
  BY <1>2, <1>4 DEF Safe, Harmless, IsAlive, Shutdown, ghostVars
<1> QED
  BY <1>3, <1>5, HarmlessSteps DEF Shutdown, ghostVars

LEMMA ServerIsDropped ==
    ASSUME IInv, NEW g \in Threads, ServerEnds(g)
    PROVE  IInv'
<1>1. Typed'
  <2>1. force' \in ForceStates
    BY ForceHalts DEF ServerEnds, IInv
  <2>2. th' \in [Threads -> [pc : Pcs, peer : Peers, up : BOOLEAN]]
    BY DEF ServerEnds, IInv, Typed, Pcs
  <2> QED
    BY <2>1, <2>2, NoneIsANode DEF ServerEnds, IInv, Typed
<1>2. \A h \in Threads : th'[h].pc = "binding" => th[h].pc = "binding"
  BY DEF ServerEnds, IInv, Typed
<1>3. force'.at = force.at
  BY DEF ServerEnds, IInv, Typed, ForceStates
<1>4. Safe => Harmless
  BY <1>2, <1>3 DEF Harmless, ServerEnds, ghostVars
<1> QED
  BY <1>1, <1>4, HarmlessSteps DEF ServerEnds, ghostVars

-----------------------------------------------------------------------------

LEMMA InitIInv == Init => IInv
<1> SUFFICES ASSUME Init PROVE IInv
  OBVIOUS
<1>1. Typed
  <2>1. th \in [Threads -> [pc : Pcs, peer : Peers, up : BOOLEAN]]
    BY DEF Init, Fresh, Pcs, Peers
  <2>2. force \in ForceStates
    BY NoneIsANode DEF Init, NoForce, Where, ForceStates
  <2> QED
    BY <2>1, <2>2, NoneIsANode DEF Init, Typed
<1>2. Safe
  BY DEF Init, Safe, Fresh, NoForce, Binding, SomeoneBinds
<1> QED
  BY <1>1, <1>2 DEF IInv

LEMMA MainIInv == ASSUME IInv, MainStep PROVE IInv'
<1>1. CASE Start
  <2>0. PICK g \in Threads : th[g].pc = "none" /\ Goto(g, "begin")
    BY <1>1 DEF Start
  <2>3. "begin" \in Pcs /\ "none" \notin Alive
    BY DEF Pcs, Alive, Linked
  <2>4. \A h \in Threads : th'[h].pc = IF h = g THEN "begin" ELSE th[h].pc
    BY <2>0, <2>3, GotoType DEF IInv
  <2>1. Typed'
    BY <1>1, <2>0, <2>3, GotoKeepsTyped DEF Start, IInv, Typed, shutVars
  <2>2. Safe => Harmless
    BY <1>1, <2>0, <2>3, <2>4 DEF Start, Safe, Harmless, IsAlive
  <2> QED
    BY <1>1, <2>1, <2>2, HarmlessSteps DEF Start, ghostVars
<1>2. CASE Stop \/ TimerEnds \/ ResetRuntime
  BY <1>2, Elsewhere DEF Stop, TimerEnds, ResetRuntime, ghostVars, shutVars
<1>3. CASE ForceServer
  <2>1. force' = [at |-> "queued", on |-> loop, waits |-> TRUE, halted |-> closed]
    BY <1>3 DEF ForceServer
  <2>2. Typed'
    BY <1>3, <2>1 DEF ForceServer, IInv, Typed, Where, ForceStates, shutVars
  <2>3. force'.at # "binding" /\ th' = th
    BY <1>3, <2>1 DEF ForceServer
  <2> QED
    BY <1>3, <2>2, <2>3, ForceMoves DEF ForceServer, shutVars
<1>4. CASE ForceReturns
  <2>1. Typed'
    BY <1>4, LifecycleAssumption
    DEF ForceReturns, NoForce, IInv, Typed, Where, ForceStates, None, shutVars
  <2> QED
    BY <1>4, <2>1, ForceMoves DEF ForceReturns, NoForce, ghostVars, shutVars
<1>5. CASE ForceTimesOut
  <2>1. Typed' /\ force'.at = force.at
    BY <1>5 DEF ForceTimesOut, IInv, Typed, ForceStates, shutVars
  <2>2. Safe => Harmless
    BY <1>5, <2>1 DEF ForceTimesOut, Safe, Harmless, IsAlive
  <2> QED
    BY <1>5, <2>1, <2>2, HarmlessSteps DEF ForceTimesOut, ghostVars
<1> QED
  BY <1>1, <1>2, <1>3, <1>4, <1>5 DEF MainStep

LEMMA ForceIInv ==
    ASSUME IInv, ForceGivesUpServer \/ ForceHosts \/ ForceBinds \/ ForceEnds
    PROVE  IInv'
<1>1. CASE ForceGivesUpServer
  <2>1. /\ th' \in [Threads -> [pc : Pcs, peer : Peers, up : BOOLEAN]]
        /\ \A h \in Threads : th'[h].pc = th[h].pc
    BY <1>1, ClosedMovesNone DEF ForceGivesUpServer, IInv, shutVars
  <2>2. Typed' /\ force'.at = "released"
    BY <1>1, <2>1, LifecycleAssumption
    DEF ForceGivesUpServer, IInv, Typed, Where, ForceStates, None, shutVars
  <2> QED
    BY <1>1, <2>1, <2>2, ForceMoves DEF ForceGivesUpServer, ghostVars, shutVars
<1>2. CASE ForceEnds
  <2>1. Typed'
    BY <1>2, LifecycleAssumption
    DEF ForceEnds, NoForce, IInv, Typed, Where, ForceStates, None, shutVars
  <2> QED
    BY <1>2, <2>1, ForceMoves DEF ForceEnds, NoForce, ghostVars, shutVars
<1> QED
  BY <1>1, <1>2, ForceStartsToHost, ForceBindsAlone

LEMMA LoopIInv == ASSUME IInv, NEW g \in Threads, LoopStep(g) PROVE IInv'
<1>0. /\ "search" \in Alive \ {"binding"} /\ "main" \in Alive \ {"binding"}
      /\ "connect" \in Alive \ {"binding"} /\ "online" \in Alive \ {"binding"}
      /\ "pause" \in Alive \ {"binding"}
  BY DEF Alive, Linked
<1>16. sock \in 0..MaxThreads /\ Dropped(g) \in 0..MaxThreads
  BY DroppedType DEF IInv, Typed
<1>1. CASE Begin(g)
  <2>1. CASE mode = "master"
    <3>1. loop' \in 0..MaxThreads /\ sock' \in 0..MaxThreads
      BY <1>1 DEF Begin, Threads, IInv, Typed
    <3> QED
      BY <1>1, <2>1, <3>1, MainStartsToHost DEF Begin, shutVars
  <2>2. CASE mode # "master"
    <3>0. "search" \in Pcs
      BY DEF Pcs, Alive
    <3>1. \A h \in Threads : th'[h].pc = IF h = g THEN "search" ELSE th[h].pc
      BY <1>1, <2>2, <3>0, GotoType DEF Begin, IInv
    <3>3. loop' \in 0..MaxThreads /\ sock' \in 0..MaxThreads
      BY <1>1 DEF Begin, Threads, IInv, Typed
    <3>4. Typed'
      BY <1>1, <2>2, <3>0, <3>3, GotoKeepsTyped DEF Begin, IInv, shutVars
    <3>2. Safe => Harmless
      BY <1>0, <1>1, <2>2, <3>1 DEF Begin, Safe, Harmless, IsAlive
    <3> QED
      BY <1>1, <2>2, <3>2, <3>4, HarmlessSteps DEF Begin
  <2> QED
    BY <2>1, <2>2
<1>2. CASE Found(g)
  <2>1. /\ Typed'
        /\ \A h \in Threads : th'[h].pc = IF h = g THEN "connect" ELSE th[h].pc
    BY <1>0, <1>2 DEF Found, Answering, IInv, Typed, Pcs, Peers, shutVars
  <2>2. Safe => Harmless
    BY <1>0, <1>2, <2>1 DEF Found, Safe, Harmless, IsAlive
  <2> QED
    BY <1>2, <2>1, <2>2, HarmlessSteps DEF Found, ghostVars
<1>3. CASE SeesStop(g)
  BY <1>0, <1>3, <1>16, Moves DEF SeesStop, shutVars
<1>4. CASE Bind(g)
  BY <1>4, MainBinds
<1>5. CASE Shutdown(g)
  BY <1>5, ShutdownIsHarmless
<1>6. CASE Ends(g)
  BY <1>6, MainEnds
<1>7. CASE ServerEnds(g)
  BY <1>7, ServerIsDropped
<1>8. CASE Connects(g)
  <2>1. \A h \in Threads : th'[h].pc = IF h = g THEN "online" ELSE th[h].pc
    BY <1>8 DEF Connects, IInv, Typed, shutVars
  <2>3. th' \in [Threads -> [pc : Pcs, peer : Peers, up : BOOLEAN]]
    BY <1>0, <1>8 DEF Connects, IInv, Typed, Pcs, shutVars
  <2>4. Typed'
    BY <1>8, <2>3 DEF Connects, IInv, Typed, Threads, shutVars
  <2>2. Safe => Harmless
    BY <1>0, <1>8, <2>1 DEF Connects, Safe, Harmless, IsAlive
  <2> QED
    BY <1>8, <2>2, <2>4, HarmlessSteps DEF Connects, ghostVars
<1>9. CASE Disconnected(g)
  BY <1>9, <1>16, MovesUnlessTakenOver DEF Disconnected, ghostVars, shutVars
<1>10. CASE HandshakeFails(g)
  BY <1>10, <1>16, MovesUnlessTakenOver DEF HandshakeFails, ghostVars, shutVars
<1>11. CASE ConnectFails(g)
  BY <1>11, Retries
<1>12. CASE ConnectFailsAndRediscovers(g)
  <2>0. PICK p \in Peers : th' = [th EXCEPT ![g] = [pc |-> "pause", peer |-> p, up |-> FALSE]]
    BY <1>12 DEF ConnectFailsAndRediscovers, Answering, Peers
  <2>1. \A h \in Threads : th'[h].pc = IF h = g THEN "pause" ELSE th[h].pc
    BY <2>0 DEF IInv, Typed
  <2>3. th' \in [Threads -> [pc : Pcs, peer : Peers, up : BOOLEAN]]
    BY <1>0, <2>0 DEF IInv, Typed, Pcs
  <2>4. Typed'
    BY <1>12, <1>16, <2>3 DEF ConnectFailsAndRediscovers, IInv, Typed, shutVars
  <2>2. Safe => Harmless
    BY <1>0, <1>12, <2>1 DEF ConnectFailsAndRediscovers, Safe, Harmless, IsAlive
  <2> QED
    BY <1>12, <2>2, <2>4, HarmlessSteps DEF ConnectFailsAndRediscovers, ghostVars
<1>13. CASE GivesUp(g)
  BY <1>13, <1>16, MovesUnlessTakenOver DEF GivesUp, ghostVars, shutVars
<1>14. CASE PauseEnds(g)
  BY <1>0, <1>14, <1>16, Moves DEF PauseEnds, ghostVars, shutVars
<1>15. CASE force.on = g /\ (ForceGivesUpServer \/ ForceHosts \/ ForceBinds \/ ForceEnds)
  BY <1>15, ForceIInv
<1> QED
  BY <1>1, <1>2, <1>3, <1>4, <1>5, <1>6, <1>7, <1>8, <1>9, <1>10, <1>11, <1>12, <1>13, <1>14,
     <1>15 DEF LoopStep

LEMMA NextIInv == ASSUME IInv, [Next]_vars PROVE IInv'
<1>1. CASE OtherChanges
  <2>1. Typed' /\ \A h \in Threads : th'[h].pc = th[h].pc
    BY <1>1 DEF OtherChanges, IInv, Typed, shutVars
  <2>2. Safe => Harmless
    BY <1>1, <2>1 DEF OtherChanges, Safe, Harmless, IsAlive
  <2> QED
    BY <1>1, <2>1, <2>2, HarmlessSteps DEF OtherChanges
<1>2. CASE UNCHANGED vars
  BY <1>2, Elsewhere DEF vars, ghostVars, shutVars
<1> QED
  BY <1>1, <1>2, MainIInv, LoopIInv DEF Next

\* A server that is there runs on the event loop of a thread that lives, through start, stop,
\* force_start_server and self-hosting, unless two coroutines were between the check of
\* _server and the bind of the port (worker.py 706-731) at once.
THEOREM ServersAreServed == Spec => []ServerIsServed
<1>1. IInv => ServerIsServed
  BY DEF IInv, Safe, ServerIsServed
<1> QED
  BY <1>1, InitIInv, NextIInv, PTL DEF Spec
-----------------------------------------------------------------------------
(* Type correctness. The count of failures is shared by the threads, and each of them *)
(* may add one more when it is full: it hosts then, and never tries to connect again. *)

Trying == {"none", "begin", "search"} \cup Linked

\* The main routines that have come past the attempts to connect
Past(t) == {g \in Threads : t[g].pc \notin Trying}

Failures == failures \in Nat /\ failures <= SelfHostAfter + Cardinality(Past(th))

\* What Typed does not say
EnvType  == /\ mode \in {"master", "worker"} /\ busy \in BOOLEAN
            /\ other \in Others /\ changes \in 0..MaxChanges
MainType == /\ started \in BOOLEAN /\ stop \in BOOLEAN /\ flag \in BOOLEAN /\ timers \in Nat
            /\ takeover \in BOOLEAN /\ forces \in 0..MaxForces
LoopType == /\ shut \subseteq Threads /\ closing \subseteq Threads
            /\ role \in {"unassigned", "server", "worker"}
            /\ raced \in BOOLEAN /\ stray \in BOOLEAN

AllTyped == Typed /\ EnvType /\ MainType /\ LoopType /\ Failures

LEMMA PastIsFinite ==
    ASSUME NEW t
    PROVE  /\ IsFiniteSet(Past(t)) /\ Cardinality(Past(t)) \in Nat
           /\ Cardinality(Past(t)) <= MaxThreads
<1>1. IsFiniteSet(Threads) /\ Cardinality(Threads) = MaxThreads
  BY LifecycleAssumption, FS_Interval DEF Threads
<1>2. Past(t) \in SUBSET Threads
  BY DEF Past
<1> QED BY <1>1, <1>2, FS_Subset, FS_CardinalityType

\* A thread that comes past its attempts pays for the failure it adds.
LEMMA FailuresArePaid ==
    ASSUME Failures, Past(th) \subseteq Past(th'), failures' \in Nat,
           \/ failures' <= SelfHostAfter \/ failures' <= failures
           \/ failures' = failures + 1 /\ Past(th) # Past(th')
    PROVE  Failures'
<1> DEFINE c == Cardinality(Past(th))
           d == Cardinality(Past(th'))
<1>1. c \in Nat /\ d \in Nat
  BY PastIsFinite
<1>2. c <= d /\ (c = d => Past(th') = Past(th))
  BY PastIsFinite, FS_Subset
<1>3. Past(th) # Past(th') => c + 1 <= d
  <2> HIDE DEF c, d
  <2> QED BY <1>1, <1>2
<1>4. failures' <= SelfHostAfter + d
  <2>1. failures <= SelfHostAfter + c /\ failures \in Nat /\ SelfHostAfter \in Nat
    BY LifecycleAssumption DEF Failures
  <2> HIDE DEF c, d
  <2> QED BY <1>1, <1>2, <1>3, <2>1
<1> QED BY <1>4 DEF Failures

LEMMA SamePast ==
    ASSUME Failures, UNCHANGED failures, \A g \in Threads : th'[g].pc = th[g].pc
    PROVE  Failures'
<1>1. Past(th') = Past(th)
  BY DEF Past
<1> QED BY <1>1, FailuresArePaid DEF Failures

\* One main routine moves, not back to the attempts.
LEMMA OneMoves ==
    ASSUME Typed, Failures, NEW g \in Threads, failures' \in Nat,
           \A h \in Threads : h # g => th'[h].pc = th[h].pc,
           th[g].pc \in Trying \/ th'[g].pc \notin Trying,
           \/ failures' <= SelfHostAfter \/ failures' <= failures
           \/ failures' = failures + 1 /\ th[g].pc \in Trying /\ th'[g].pc \notin Trying
    PROVE  Failures'
<1>1. Past(th) \subseteq Past(th')
  BY DEF Past
<1>2. th[g].pc \in Trying /\ th'[g].pc \notin Trying => Past(th) # Past(th')
  BY DEF Past
<1> QED BY <1>1, <1>2, FailuresArePaid

LEMMA SameEnvType == ASSUME EnvType, UNCHANGED <<envVars, changes>> PROVE EnvType'
BY DEF EnvType, envVars

LEMMA SameLoopType ==
    ASSUME LoopType, UNCHANGED <<shut, closing, role, raced, stray>> PROVE LoopType'
BY DEF LoopType

LEMMA MainStepKeepsType ==
    ASSUME AllTyped, MainStep
    PROVE  EnvType' /\ MainType' /\ LoopType' /\ Failures'
<1> USE DEF AllTyped
<1>1. CASE Start
  <2>1. EnvType' /\ LoopType'
    BY <1>1, SameEnvType, SameLoopType DEF Start, shutVars, ghostVars
  <2>2. timers' \in Nat
    BY <1>1 DEF Start, TimersAfterStart, MainType
  <2>3. MainType'
    BY <1>1, <2>2 DEF Start, MainType, ghostVars
  <2>4. PICK g \in Threads : th[g].pc = "none" /\ Goto(g, "begin")
    BY <1>1 DEF Start
  <2>5. th[g].pc \in Trying /\ \A h \in Threads : h # g => th'[h].pc = th[h].pc
    BY <2>4 DEF Goto, Typed, Trying
  <2>6. failures' = failures /\ failures \in Nat /\ failures <= failures
    BY <1>1 DEF Start, Failures
  <2>7. Failures'
    BY <2>5, <2>6, OneMoves
  <2> QED BY <2>1, <2>3, <2>7
<1>2. CASE Stop
  <2>1. EnvType' /\ Failures'
    BY <1>2, SameEnvType, SamePast DEF Stop, ghostVars
  <2>2. MainType'
    BY <1>2 DEF Stop, MainType, ghostVars
  <2>3. shut' \subseteq Threads
    BY <1>2 DEF Stop, LoopType, Typed, Threads, None
  <2>4. LoopType'
    BY <1>2, <2>3 DEF Stop, LoopType, ghostVars
  <2> QED BY <2>1, <2>2, <2>4
<1>3. CASE TimerEnds
  <2>1. EnvType' /\ Failures' /\ LoopType'
    BY <1>3, SameEnvType, SameLoopType, SamePast DEF TimerEnds, shutVars, ghostVars
  <2>2. timers' \in Nat
    BY <1>3 DEF TimerEnds, MainType
  <2>3. MainType'
    BY <1>3, <2>2 DEF TimerEnds, MainType, ghostVars
  <2> QED BY <2>1, <2>3
<1>4. CASE ForceServer
  <2>1. EnvType' /\ Failures'
    BY <1>4, SameEnvType, SamePast DEF ForceServer
  <2>2. forces' \in 0..MaxForces
    BY <1>4, LifecycleAssumption DEF ForceServer, MainType
  <2>3. MainType'
    BY <1>4, <2>2 DEF ForceServer, MainType, mainVars
  <2>4. LoopType'
    BY <1>4 DEF ForceServer, LoopType, shutVars
  <2> QED BY <2>1, <2>3, <2>4
<1>5. CASE ForceReturns \/ ForceTimesOut
  BY <1>5, SamePast
  DEF ForceReturns, ForceTimesOut, EnvType, MainType, LoopType, envVars, mainVars, shutVars,
      ghostVars
<1>6. CASE ResetRuntime
  BY <1>6, SameEnvType, SameLoopType, SamePast
  DEF ResetRuntime, MainType, mainVars, shutVars, ghostVars
<1> QED BY <1>1, <1>2, <1>3, <1>4, <1>5, <1>6 DEF MainStep

LEMMA ForceKeepsType ==
    ASSUME AllTyped, ForceGivesUpServer \/ ForceHosts \/ ForceBinds \/ ForceEnds
    PROVE  EnvType' /\ MainType' /\ LoopType' /\ Failures'
<1> USE DEF AllTyped, EnvType, MainType, LoopType, envVars, mainVars, shutVars, ghostVars
<1>1. CASE ForceGivesUpServer
  BY <1>1, SamePast, ClosedMovesNone DEF ForceGivesUpServer
<1>2. CASE ForceHosts
  BY <1>2, SamePast DEF ForceHosts, BecomesServer
<1>3. CASE ForceBinds \/ ForceEnds
  BY <1>3, SamePast DEF ForceBinds, ForceEnds
<1> QED BY <1>1, <1>2, <1>3

\* Where a thread is when it fails to connect
LEMMA FailsWhileTrying ==
    ASSUME NEW g \in Threads, Unreachable(g) \/ Raises(g)
    PROVE  th[g].pc \in Trying
BY DEF Unreachable, Raises, Trying, Linked

LEMMA TakenOverKeepsType ==
    ASSUME AllTyped, NEW g \in Threads, UnlessTakenOver(g, "connect"), th[g].pc \in Trying,
           failures' \in Nat, failures' <= SelfHostAfter \/ failures' <= failures,
           UNCHANGED <<envVars, mainVars, shutVars, ghostVars, stop, role>>
    PROVE  EnvType' /\ MainType' /\ LoopType' /\ Failures'
<1>1. EnvType' /\ MainType' /\ LoopType'
  <2>1. EnvType' /\ LoopType'
    BY SameEnvType, SameLoopType DEF AllTyped, shutVars, ghostVars
  <2>2. MainType'
    <3>1. takeover' = FALSE
      BY DEF UnlessTakenOver
    <3> QED BY <3>1 DEF AllTyped, MainType, mainVars, ghostVars
  <2> QED BY <2>1, <2>2
<1>2. \A h \in Threads : h # g => th'[h].pc = th[h].pc
  BY DEF UnlessTakenOver, Goto, AllTyped, Typed
<1>3. Failures'
  BY <1>2, OneMoves DEF AllTyped
<1> QED BY <1>1, <1>3

LEMMA LoopStepKeepsType ==
    ASSUME AllTyped, NEW g \in Threads, LoopStep(g)
    PROVE  EnvType' /\ MainType' /\ LoopType' /\ Failures'
<1> USE DEF AllTyped
<1> USE DEF EnvType, MainType, LoopType, envVars, mainVars, shutVars, ghostVars
<1>0. failures \in Nat /\ 0 \in Nat /\ failures + 1 \in Nat
  BY DEF Failures
<1>1. CASE Begin(g)
  <2>1. LoopType'
    <3>1. CASE mode = "master"
      BY <1>1, <3>1 DEF Begin, BecomesServer
    <3>2. CASE mode # "master"
      BY <1>1, <3>2 DEF Begin
    <3> QED BY <3>1, <3>2
  <2>2. EnvType' /\ MainType' /\ LoopType'
    BY <1>1, <2>1 DEF Begin
  <2>3. /\ \A h \in Threads : h # g => th'[h].pc = th[h].pc
        /\ th[g].pc \in Trying
    BY <1>1 DEF Begin, Goto, Typed, Trying
  <2> QED BY <1>0, <1>1, <2>2, <2>3, OneMoves DEF Begin
<1>2. CASE Found(g)
  <2>1. EnvType' /\ MainType' /\ LoopType'
    BY <1>2 DEF Found
  <2>2. /\ \A h \in Threads : h # g => th'[h].pc = th[h].pc
        /\ th[g].pc \in Trying /\ failures' = 0 /\ 0 <= failures
    BY <1>2 DEF Found, Typed, Trying, Failures
  <2> QED BY <1>0, <2>1, <2>2, OneMoves
<1>3. CASE SeesStop(g)
  <2>1. EnvType' /\ MainType' /\ LoopType'
    BY <1>3 DEF SeesStop
  <2>2. /\ \A h \in Threads : h # g => th'[h].pc = th[h].pc
        /\ th[g].pc \in Trying /\ failures' = failures
    BY <1>3 DEF SeesStop, Goto, Typed, Trying, Linked
  <2> QED BY <1>0, <2>1, <2>2, OneMoves
<1>4. CASE Bind(g)
  <2>1. EnvType' /\ MainType' /\ LoopType'
    BY <1>4 DEF Bind
  <2>2. /\ \A h \in Threads : h # g => th'[h].pc = th[h].pc
        /\ th'[g].pc \in {"main", "dead"} /\ failures' = failures
    BY <1>4 DEF Bind, Goto, Typed
  <2>3. th'[g].pc \notin Trying
    BY <2>2 DEF Trying, Linked
  <2> QED BY <1>0, <2>1, <2>2, <2>3, OneMoves
<1>5. CASE Shutdown(g)
  <2>1. LoopType'
    BY <1>5 DEF Shutdown
  <2> QED BY <1>5, <2>1, SamePast, ClosedMovesNone DEF Shutdown, ShutsDown
<1>6. CASE Ends(g)
  <2>1. EnvType' /\ MainType' /\ LoopType'
    BY <1>6 DEF Ends
  <2>2. /\ \A h \in Threads : h # g => th'[h].pc = th[h].pc
        /\ th'[g].pc \in {"closing", "ended"} /\ failures' = failures
    BY <1>6, ClosedMovesNone DEF Ends, ShutsDown, AfterShutdown
  <2>3. th'[g].pc \notin Trying
    BY <2>2 DEF Trying, Linked
  <2> QED BY <1>0, <2>1, <2>2, <2>3, OneMoves
<1>7. CASE ServerEnds(g)
  <2>1. EnvType' /\ MainType' /\ LoopType'
    BY <1>7 DEF ServerEnds
  <2>2. /\ \A h \in Threads : h # g => th'[h].pc = th[h].pc
        /\ th'[g].pc = th[g].pc \/ th'[g].pc = "ended"
        /\ failures' = failures
    BY <1>7 DEF ServerEnds, Typed
  <2>3. th[g].pc \in Trying \/ th'[g].pc \notin Trying
    BY <2>2 DEF Trying, Linked
  <2> QED BY <1>0, <2>1, <2>2, <2>3, OneMoves
<1>8. CASE Connects(g)
  <2>1. EnvType' /\ MainType' /\ LoopType'
    BY <1>8 DEF Connects
  <2>2. /\ \A h \in Threads : h # g => th'[h].pc = th[h].pc
        /\ th[g].pc \in Trying /\ failures' = 0 /\ 0 <= failures
    BY <1>8 DEF Connects, Typed, Trying, Linked, Failures
  <2> QED BY <1>0, <2>1, <2>2, OneMoves
<1>9. CASE Disconnected(g)
  BY <1>0, <1>9, TakenOverKeepsType DEF Disconnected, Trying, Linked
<1>10. CASE HandshakeFails(g)
  <2>1. failures' \in Nat /\ (failures' <= SelfHostAfter \/ failures' <= failures)
    BY <1>0, <1>10, LifecycleAssumption DEF HandshakeFails
  <2> QED BY <1>10, <2>1, TakenOverKeepsType DEF HandshakeFails, Trying, Linked
<1>11. CASE ConnectFails(g)
  <2>1. EnvType' /\ MainType' /\ LoopType'
    BY <1>11 DEF ConnectFails, Retry, BecomesServer
  <2>2. /\ \A h \in Threads : h # g => th'[h].pc = th[h].pc
        /\ failures' = failures + 1 /\ th[g].pc \in Trying
    BY <1>11, FailsWhileTrying DEF ConnectFails, Retry, Goto, Typed, NextFailure
  <2>3. CASE ShouldSelfHost(NextFailure)
    <3>1. th'[g].pc \in {"main", "binding"}
      BY <1>11, <2>3 DEF ConnectFails, Retry, Goto, Typed, Hosting
    <3>2. th'[g].pc \notin Trying
      BY <3>1 DEF Trying, Linked
    <3> QED BY <1>0, <2>1, <2>2, <3>2, OneMoves
  <2>4. CASE ~ShouldSelfHost(NextFailure)
    <3>1. failures' <= SelfHostAfter
      BY <1>0, <2>2, <2>4, LifecycleAssumption DEF ShouldSelfHost, NextFailure
    <3> QED BY <1>0, <2>1, <2>2, <3>1, OneMoves
  <2> QED BY <2>3, <2>4
<1>12. CASE ConnectFailsAndRediscovers(g)
  <2>1. EnvType' /\ MainType' /\ LoopType'
    BY <1>12 DEF ConnectFailsAndRediscovers
  <2>2. /\ \A h \in Threads : h # g => th'[h].pc = th[h].pc
        /\ th[g].pc \in Trying /\ failures' = 0 /\ 0 <= failures
    BY <1>12, FailsWhileTrying DEF ConnectFailsAndRediscovers, Typed, Failures
  <2> QED BY <1>0, <2>1, <2>2, OneMoves
<1>13. CASE GivesUp(g)
  <2>1. th[g].pc \in Trying
    BY <1>13, FailsWhileTrying DEF GivesUp, Trying, Linked
  <2> QED BY <1>0, <1>13, <2>1, TakenOverKeepsType DEF GivesUp
<1>14. CASE PauseEnds(g)
  <2>1. EnvType' /\ MainType' /\ LoopType'
    BY <1>14 DEF PauseEnds
  <2>2. /\ \A h \in Threads : h # g => th'[h].pc = th[h].pc
        /\ th[g].pc \in Trying /\ failures' = failures
    BY <1>14 DEF PauseEnds, Goto, Typed, Trying, Linked
  <2> QED BY <1>0, <2>1, <2>2, OneMoves
<1>15. CASE force.on = g /\ (ForceGivesUpServer \/ ForceHosts \/ ForceBinds \/ ForceEnds)
  BY <1>15, ForceKeepsType
<1> QED
  BY <1>1, <1>2, <1>3, <1>4, <1>5, <1>6, <1>7, <1>8, <1>9, <1>10, <1>11, <1>12, <1>13, <1>14,
     <1>15 DEF LoopStep

\* Every variable of a node has its type. The bound on the failures says that the node hosts
\* a server itself in time (ReconnectPolicy.self_host_after): the threads of several starts
\* share the count, and each can overshoot it at most once.
THEOREM NodeTypeCorrect == Spec => []TypeOK
<1>1. Init => AllTyped
  <2> SUFFICES ASSUME Init PROVE AllTyped
    OBVIOUS
  <2>1. Typed
    BY InitIInv DEF IInv
  <2>2. EnvType /\ MainType /\ LoopType
    <3>1. EnvType
      BY LifecycleAssumption DEF Init, EnvType, Others
    <3>2. 0 \in Nat /\ 0 \in 0..MaxForces
      BY LifecycleAssumption
    <3>3. MainType /\ LoopType
      BY <3>2 DEF Init, MainType, LoopType
    <3> QED BY <3>1, <3>3
  <2>3. Failures
    BY LifecycleAssumption, PastIsFinite DEF Init, Failures
  <2> QED BY <2>1, <2>2, <2>3 DEF AllTyped
<1>2. IInv /\ AllTyped /\ [Next]_vars => AllTyped'
  <2> SUFFICES ASSUME IInv, AllTyped, [Next]_vars PROVE AllTyped'
    OBVIOUS
  <2>1. Typed'
    BY NextIInv DEF IInv
  <2>2. CASE OtherChanges
    <3>1. EnvType' /\ MainType' /\ LoopType'
      BY <2>2, LifecycleAssumption
      DEF OtherChanges, AllTyped, EnvType, MainType, LoopType, mainVars, shutVars
    <3>2. Failures'
      BY <2>2, SamePast DEF OtherChanges, AllTyped, Typed
    <3> QED BY <2>1, <3>1, <3>2 DEF AllTyped
  <2>3. CASE UNCHANGED vars
    BY <2>1, <2>3, SamePast
    DEF vars, AllTyped, EnvType, MainType, LoopType, envVars, mainVars, shutVars, ghostVars
  <2> QED BY <2>1, <2>2, <2>3, MainStepKeepsType, LoopStepKeepsType DEF Next, AllTyped
<1>3. AllTyped => TypeOK
  <2> SUFFICES ASSUME AllTyped PROVE TypeOK
    OBVIOUS
  <2>1. failures \in 0..(SelfHostAfter + MaxThreads)
    BY PastIsFinite, LifecycleAssumption DEF AllTyped, Failures
  <2> QED BY <2>1
          DEF AllTyped, Typed, ForceStates, Where, EnvType, MainType, LoopType, TypeOK
<1> QED BY <1>1, <1>2, <1>3, InitIInv, NextIInv, PTL DEF Spec

-----------------------------------------------------------------------------
\* When the coroutine of force_start_server is done the node has had a server since, and only
\* a shutdown drops it.
Delivered == force.at = "done" => server # None \/ force.halted

LEMMA ServerStays ==
    ASSUME Delivered, server' = server \/ server' # None,
           force' = force \/ force'.at # "done" \/ server' # None
                  \/ (force'.at = force.at /\ (force.halted => force'.halted))
    PROVE  Delivered'
BY DEF Delivered

\* force_start_server, worker.py 1305: when it returns True the node has a server, although
\* the server may have been started by the main routine before, and may be shut down by a
\* stop that comes between the two.
THEOREM ForceIsDelivered == Spec => ForceDelivers
<1>1. Init => Delivered
  BY DEF Init, Delivered, NoForce
<1>2. IInv /\ Delivered /\ [Next]_vars => Delivered'
  <2> SUFFICES ASSUME IInv, Delivered, [Next]_vars PROVE Delivered'
    OBVIOUS
  <2>0. force \in ForceStates
    BY DEF IInv, Typed
  <2> USE DEF mainVars, ghostVars, shutVars
  <2>1. CASE Start \/ Stop \/ TimerEnds \/ ResetRuntime
    BY <2>1, ServerStays DEF Start, Stop, TimerEnds, ResetRuntime
  <2>2. CASE ForceServer \/ ForceReturns \/ ForceTimesOut
    BY <2>0, <2>2, ServerStays
    DEF ForceServer, ForceReturns, ForceTimesOut, NoForce, ForceStates
  <2>3. CASE OtherChanges \/ UNCHANGED vars
    BY <2>3, ServerStays DEF OtherChanges, vars
  <2>4. ASSUME NEW g \in Threads, LoopStep(g) PROVE Delivered'
    <3>0. g # None
      BY DEF Threads, None
    <3>1. CASE Begin(g) \/ Found(g) \/ SeesStop(g) \/ Connects(g) \/ Disconnected(g)
      BY <3>1, ServerStays DEF Begin, Found, SeesStop, Connects, Disconnected
    <3>2. CASE \/ HandshakeFails(g) \/ ConnectFails(g) \/ ConnectFailsAndRediscovers(g)
               \/ GivesUp(g) \/ PauseEnds(g)
      BY <3>2, ServerStays
      DEF HandshakeFails, ConnectFails, ConnectFailsAndRediscovers, GivesUp, PauseEnds
    <3>3. CASE Bind(g)
      BY <3>0, <3>3, ServerStays DEF Bind
    <3>4. CASE Shutdown(g) \/ Ends(g)
      BY <2>0, <3>4, ServerStays DEF Shutdown, Ends, ShutsDown, ForceStates
    <3>5. CASE ServerEnds(g)
      BY <2>0, <3>5 DEF ServerEnds, ForceStates, Delivered
    <3>6. CASE ForceGivesUpServer \/ ForceEnds
      BY <2>0, <3>6, ServerStays DEF ForceGivesUpServer, ForceEnds, NoForce, ForceStates
    <3>7. CASE ForceHosts
      BY <2>0, <3>7, ServerStays DEF ForceHosts, HasServer, ForceStates
    <3>8. CASE ForceBinds /\ force.on = g
      BY <2>0, <3>0, <3>8, ServerStays DEF ForceBinds, ForceStates
    <3> QED BY <2>4, <3>1, <3>2, <3>3, <3>4, <3>5, <3>6, <3>7, <3>8 DEF LoopStep
  <2> QED BY <2>1, <2>2, <2>3, <2>4 DEF Next, MainStep
<1>3. Delivered =>
        [force.waits /\ force.at = "done" /\ ~force'.waits
            => server # None \/ force.halted]_vars
  BY DEF Delivered
<1> QED BY <1>1, <1>2, <1>3, InitIInv, NextIInv, PTL DEF Spec, ForceDelivers
=============================================================================
