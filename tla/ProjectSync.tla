---------------------------- MODULE ProjectSync ----------------------------
(* The rounds in which the server asks its workers for something and waits for *)
(* their answers (worker.py): sync sends a bundle, clean deletes the copies,   *)
(* integrity compares the scenes; a start with auto_sync_project does a sync   *)
(* and then an integrity round.                                                *)
(*                                                                             *)
(* The main thread blocks in a round; a coroutine on the asyncio loop sends,   *)
(* and for sync and clean also collects. A coroutine the main thread has given *)
(* up runs on. The answers carry a worker but no round: whatever comes in is   *)
(* written into the dictionary of the kind, which the next round replaces.     *)
EXTENDS Integers, FiniteSets, Sequences

CONSTANTS Workers,
          MaxRounds,     \* bound: rounds begun
          MaxLosses      \* bound: connections lost or taken over, and kicks

ASSUME SyncAssumption ==
    /\ IsFiniteSet(Workers)
    /\ MaxRounds \in Nat \ {0}
    /\ MaxLosses \in Nat

Rounds == 1..MaxRounds
Kinds  == {"sync", "clean", "integrity"}
None   == 0              \* no bundle, or a scene that is not the server's

VARIABLES
    registered,  \* keys of connected_workers
    open,        \* workers whose newest connection is open
    stale,       \* worker -> handlers of lost connections of it that still run
    closing,     \* workers off the registry whose connection has yet to be closed
    main,        \* main thread: the round it waits for; ghosts of how it began: quiet,
                 \* nothing earlier was under way; of a start also blank, the workers that had
                 \* yet to be reset, and behind, those its sync does not ask although they have
                 \* yet to load a bundle
    round,       \* ghost: rounds begun
    co,          \* round -> its coroutine
    results,     \* project_sync_results, clean_results or integrity_probe_results,
                 \* that of the last round: the others are replaced before they are read
    outbox,      \* worker -> answers on their way to the server
    worker,      \* worker -> bundle to be loaded, blank reset to be done, scene
    edition,     \* scene of the server, as far as collect_render_signature reads it: how
                 \* often the user has changed it
    verdict,     \* ghost: how the last round ended
    losses       \* ghost: connections lost or taken over, and kicks

netVars    == <<registered, open, stale, closing, losses>>
mainVars   == <<main, round, edition, verdict>>
vars == <<netVars, mainVars, co, results, outbox, worker>>

Idle      == [st |-> "idle", asked |-> {}, start |-> FALSE, quiet |-> TRUE, blank |-> {},
              behind |-> {}]
NoEntry   == [of |-> 0, ok |-> FALSE, why |-> "none"]
NoVerdict == [ok |-> FALSE, late |-> FALSE]

Entries == [of : 0..MaxRounds, ok : BOOLEAN, why : {"none", "answer", "gone", "silent"}]

Coroutine(k, ws) == [kind |-> k, st |-> "sending", asked |-> ws, todo |-> ws,
                     edition |-> edition']

\* Mutated: it leaves the workers it has not come to on its list.
EndedMidway(n) == [co[n] EXCEPT !.st = "done"]

\* It has ended; its answers may still be on their way.
Ended(n) == [kind |-> "sync", st |-> "done", asked |-> {}, todo |-> {},
             edition |-> co[n].edition]

\* Nothing of an earlier round is still under way.
Quiet == /\ \A n \in Rounds : co[n].st = "done"
         /\ \A w \in Workers : outbox[w] = << >>

Record(k, w, e) ==
    results' = IF results.kind = k THEN [results EXCEPT !.got[w] = e] ELSE results

\* The workers of ws that are not in the dictionary are entered as timed out.
Silenced(ws) ==
    [w \in Workers |-> IF w \in ws /\ results.got[w].why = "none"
                     THEN [of |-> 0, ok |-> FALSE, why |-> "silent"] ELSE results.got[w]]

\* len(results) >= len(workers), whoever is in results
Enough(f, ws) == Cardinality({w \in Workers : f[w].why # "none"}) >= Cardinality(ws)

-----------------------------------------------------------------------------
(* Main thread: a round begins *)

\* Mutated: the answers of the round before are kept.
KeptResults(k) == [kind |-> k, got |-> results.got]

EmptyResults(k) == [kind |-> k, got |-> [w \in Workers |-> NoEntry]]

Begin(k, ws, start, quiet) ==
    /\ round < MaxRounds
    /\ round' = round + 1
    /\ main' = [st |-> k, asked |-> ws, start |-> start, quiet |-> quiet,
                 blank |-> main.blank \cup {w \in Workers : start /\ worker[w].blank},
                 behind |-> IF k = "sync" /\ start
                            THEN {w \in Workers \ ws : worker[w].load # None}
                            ELSE main.behind]
    /\ results' = EmptyResults(k)
    /\ verdict' = NoVerdict

\* The user has changed the scene since the last call, and has saved it, or not.
Edit == edition' \in {edition} \cup (IF round > 0 THEN {edition + 1} ELSE {})

\* sync_project_files drops the workers with a closed socket, a start does not.
CallSync(start) ==
    /\ main.st = "idle"
    /\ start => round + 1 < MaxRounds
    /\ registered' = IF start THEN registered ELSE registered \cap open
    /\ registered' # {}
    /\ Edit
    /\ Begin("sync", registered', start, Quiet)
    /\ co' = [co EXCEPT ![round + 1] = Coroutine("sync", registered')]
    /\ UNCHANGED <<open, stale, closing, losses, outbox, worker>>

CallClean ==
    /\ main.st = "idle"
    /\ registered' = registered \cap open
    /\ registered' # {}
    /\ Begin("clean", registered', FALSE, Quiet)
    /\ UNCHANGED edition
    /\ co' = [co EXCEPT ![round + 1] = Coroutine("clean", registered')]
    /\ UNCHANGED <<open, stale, closing, losses, outbox, worker>>

\* run_integrity_check, by itself or after the sync of a start; with no worker
\* the round is over at once.
CallIntegrity ==
    /\ main.st \in {"idle", "synced"}
    /\ IF main.st = "synced" THEN UNCHANGED edition ELSE Edit
    /\ Begin("integrity", registered, main.start, main.quiet /\ Quiet)
    /\ co' = IF registered = {} THEN co
             ELSE [co EXCEPT ![round + 1] = Coroutine("integrity", registered)]
    /\ UNCHANGED <<netVars, outbox, worker>>

-----------------------------------------------------------------------------
(* What a worker does with a message of round n. It does it when the message is *)
(* sent: connections keep the order, so delay shows in the answers alone.       *)

Answer(w, k, n, ok) ==
    outbox' = [outbox EXCEPT ![w] = Append(@, [kind |-> k, of |-> n, ok |-> ok])]

\* _clear_sync_artifacts: the bundle that waits to be loaded is forgotten.
Cleared(w) == [worker[w] EXCEPT !.load = None]

\* The bundle is unpacked and acknowledged, to be loaded later, or is refused: how the
\* messages of overlapping bundles mix is ProjectLoad's.
TakeBundle(w, n) ==
    \E ok \in BOOLEAN :
       /\ worker' = [worker EXCEPT ![w] =
                       [Cleared(w) EXCEPT !.load = IF ok THEN co[n].edition ELSE None]]
       /\ Answer(w, "sync", n, ok)

\* Mutated: the bundle that waits to be loaded survives MSG_CLEAN_BLEND.
CleanedButPending(w) == [worker[w] EXCEPT !.blank = TRUE]

Cleaned(w) == [Cleared(w) EXCEPT !.blank = TRUE]

\* Mutated: the acknowledgement of a sync is an answer to the probe as well.
SameBundle(w, n) == co[n].edition \in {worker[w].scene, worker[w].load}

SameScene(w, n) == worker[w].scene = co[n].edition

\* When the deletion raises, nothing is cleared and the answer is no.
TakeClean(w, n) ==
    \/ worker' = [worker EXCEPT ![w] = Cleaned(w)] /\ Answer(w, "clean", n, TRUE)
    \/ UNCHANGED worker /\ Answer(w, "clean", n, FALSE)

TakeProbe(w, n) == Answer(w, "integrity", n, SameScene(w, n)) /\ UNCHANGED worker

-----------------------------------------------------------------------------
(* The coroutine of round n *)

\* The coroutine goes on to the next worker.
Onward(n, w) ==
    LET todo == co[n].todo \ {w}
        next == IF todo # {} THEN "sending" ELSE "collecting"
    IN /\ w \in co[n].todo
       /\ co' = [co EXCEPT ![n] = IF todo = {} /\ co[n].kind = "integrity" THEN Ended(n)
                                 ELSE [@ EXCEPT !.todo = todo, !.st = next]]

\* The socket in connected_workers, or the one read from it before w connected anew,
\* is not an open connection.
Unreachable(w) == w \notin open \/ stale[w] > 0

Send(n, w) ==
    /\ w \in registered \cap open
    /\ Onward(n, w)
    /\ CASE co[n].kind = "sync"      -> TakeBundle(w, n)
         [] co[n].kind = "clean"     -> TakeClean(w, n)
         [] co[n].kind = "integrity" -> TakeProbe(w, n)
    /\ UNCHANGED <<netVars, mainVars, results>>

\* It goes into a connection the worker has left and is lost.
SendIntoTheVoid(n, w) ==
    /\ w \in registered /\ Unreachable(w)
    /\ Onward(n, w)
    /\ UNCHANGED <<netVars, mainVars, results, outbox, worker>>

\* "worker missing", or the send raises.
SendFails(n, w) ==
    /\ IF w \in registered THEN Unreachable(w) ELSE co[n].kind # "clean"
    /\ Record(co[n].kind, w, [of |-> 0, ok |-> FALSE, why |-> "gone"])
    /\ Onward(n, w)
    /\ UNCHANGED <<netVars, mainVars, outbox, worker>>

\* The main thread takes up again with what came of its round.
Returns(ok, late) ==
    /\ main' = IF main.st = "sync" /\ main.start /\ ok
               THEN [main EXCEPT !.st = "synced"] ELSE Idle
    /\ verdict' = [ok |-> ok, late |-> late]

Awaited(n) == n = round /\ main.st = co[n].kind

\* clean_worker_blends: info is None, and info.get ends the coroutine.
CleanRaises(n, w) ==
    /\ w \in co[n].todo \ registered
    /\ co[n].kind = "clean"
    /\ co' = [co EXCEPT ![n] = Ended(n)]
    /\ IF Awaited(n) THEN Returns(FALSE, FALSE) ELSE UNCHANGED <<main, verdict>>
    /\ UNCHANGED <<netVars, round, edition, results, outbox, worker>>

\* Who has not answered is entered as timed out, then all entries are judged.
Collected(n, late) ==
    LET mine == results.kind = co[n].kind
        f == Silenced(co[n].asked)
    IN /\ co[n].st = "collecting"
       /\ late \/ (mine /\ Enough(results.got, co[n].asked))
       /\ results' = IF mine THEN [results EXCEPT !.got = f] ELSE results
       /\ co' = [co EXCEPT ![n] = Ended(n)]
       /\ IF Awaited(n)
          THEN Returns(\A w \in Workers : f[w].why = "none" \/ f[w].ok, late)
          ELSE UNCHANGED <<main, verdict>>
       /\ UNCHANGED <<netVars, round, edition, outbox, worker>>

AllCollected(n) == Collected(n, FALSE)

DeadlinePasses(n) == Collected(n, TRUE)

\* fut.result(timeout) raises: the sends took too long. The coroutine runs on.
FutureTimesOut ==
    /\ main.st \in {"sync", "clean"}
    /\ Returns(FALSE, TRUE)
    /\ UNCHANGED <<netVars, round, edition, co, results, outbox, worker>>

AllAgree(f) == \A w \in main.asked : f[w].ok

\* run_integrity_check polls by itself and judges only the workers it asked.
Polled(late) ==
    /\ main.st = "integrity"
    /\ late \/ Enough(results.got, main.asked)
    /\ results' = [results EXCEPT !.got = Silenced(main.asked)]
    /\ Returns(AllAgree(results'.got), late)
    /\ UNCHANGED <<netVars, round, edition, co, outbox, worker>>

AllPolled == Polled(FALSE)

PollTimesOut == Polled(TRUE)

-----------------------------------------------------------------------------
(* Socket handlers of the server *)

ServerReceives(w) ==
    /\ outbox[w] # << >>
    /\ outbox' = [outbox EXCEPT ![w] = Tail(@)]
    /\ LET a == Head(outbox[w])
       IN Record(a.kind, w, [of |-> a.of, ok |-> a.ok, why |-> "answer"])
    /\ UNCHANGED <<netVars, mainVars, co, worker>>

\* The finally clause of the handler of a lost connection deletes whatever is
\* registered under its worker's id.
HandlerEnds(w) ==
    /\ stale[w] > 0
    /\ stale' = [stale EXCEPT ![w] = @ - 1]
    /\ registered' = registered \ {w}
    /\ UNCHANGED <<open, closing, losses, mainVars, co, results, outbox, worker>>

-----------------------------------------------------------------------------
(* Connections and workers *)

\* What is under way is lost; the handler of the connection still runs.
Disconnected(w) ==
    /\ open' = open \ {w}
    /\ outbox' = [outbox EXCEPT ![w] = << >>]
    /\ stale' = [stale EXCEPT ![w] = @ + 1]
    /\ closing' = closing \ {w}
    /\ UNCHANGED <<mainVars, co, results, worker>>

\* The worker notices first.
Lose(w) ==
    /\ losses < MaxLosses
    /\ losses' = losses + 1
    /\ w \in open \ closing
    /\ Disconnected(w)
    /\ UNCHANGED registered

\* MSG_SERVER_TAKEOVER: the worker becomes a server itself. Its handler reads no more.
Takeover(w) ==
    /\ losses < MaxLosses
    /\ losses' = losses + 1
    /\ w \in open \ closing
    /\ Disconnected(w)
    /\ registered' = registered \ {w}

Emptied(kinds) == IF results.kind \in kinds THEN EmptyResults(results.kind) ELSE results

\* kick_all_workers: the registry is emptied at once, the sockets are closed later by the
\* asyncio loop. A coroutine the main thread has given up may still be asking.
KickAllWorkers ==
    /\ losses < MaxLosses
    /\ losses' = losses + 1
    /\ main.st = "idle" /\ registered # {}
    /\ registered' = {}
    /\ closing' = closing \cup (registered \cap open)
    /\ results' = Emptied({"sync", "clean"})
    /\ UNCHANGED <<open, stale, mainVars, co, outbox, worker>>

Close(w) ==
    /\ w \in closing
    /\ Disconnected(w)
    /\ UNCHANGED <<registered, losses>>

\* reset_runtime on the server; on a worker it is GiveUp.
ResetRuntime ==
    /\ main.st = "idle"
    /\ results' = Emptied({"sync", "integrity"})
    /\ UNCHANGED <<netVars, mainVars, co, outbox, worker>>

\* MSG_REGISTER_WORKER on a new connection
Reconnect(w) ==
    /\ w \notin open
    /\ open' = open \cup {w}
    /\ registered' = registered \cup {w}
    /\ UNCHANGED <<stale, closing, losses, mainVars, co, results, outbox, worker>>

\* The worker's main thread; ProjectLoad has its retries and races.
LoadProject(w) ==
    /\ worker[w].load # None
    /\ worker' = [worker EXCEPT ![w].scene = worker[w].load, ![w].load = None]
    /\ UNCHANGED <<netVars, mainVars, co, results, outbox>>

\* After the last attempt, or by a reset_runtime of the worker.
GiveUp(w) ==
    /\ worker[w].load # None
    /\ worker' = [worker EXCEPT ![w].load = None]
    /\ UNCHANGED <<netVars, mainVars, co, results, outbox>>

BlankReset(w) ==
    /\ worker[w].blank
    /\ worker' = [worker EXCEPT ![w].scene = None, ![w].blank = FALSE]
    /\ UNCHANGED <<netVars, mainVars, co, results, outbox>>

-----------------------------------------------------------------------------
Init ==
    /\ registered = Workers
    /\ open = Workers
    /\ stale = [w \in Workers |-> 0]
    /\ main = Idle
    /\ round = 0
    /\ co = [n \in Rounds |-> [kind |-> "sync", st |-> "done", asked |-> {}, todo |-> {},
                             edition |-> 0]]
    /\ results = [kind |-> "sync", got |-> [w \in Workers |-> NoEntry]]
    /\ outbox = [w \in Workers |-> << >>]
    /\ \E reset \in BOOLEAN :   \* cleaned once, and not yet blank?
          worker = [w \in Workers |-> [load |-> None, blank |-> reset, scene |-> None]]
    /\ edition = 1
    /\ verdict = NoVerdict
    /\ closing = {}
    /\ losses = 0

Call == \/ CallSync(TRUE) \/ CallSync(FALSE) \/ CallClean \/ CallIntegrity
        \/ KickAllWorkers \/ ResetRuntime

CoroutineStep(n) ==
    \/ \E w \in Workers : \/ Send(n, w) \/ SendIntoTheVoid(n, w)
                          \/ SendFails(n, w) \/ CleanRaises(n, w)
    \/ AllCollected(n)

ServerStep(w) == ServerReceives(w) \/ HandlerEnds(w) \/ Close(w) \/ Takeover(w)

WorkerStep(w) == LoadProject(w) \/ GiveUp(w) \/ BlankReset(w) \/ Reconnect(w)

\* Time passes.
Timeout == FutureTimesOut \/ PollTimesOut \/ \E n \in Rounds : DeadlinePasses(n)

Next == \/ Call \/ AllPolled \/ Timeout
        \/ \E n \in Rounds : CoroutineStep(n)
        \/ \E w \in Workers : ServerStep(w) \/ WorkerStep(w) \/ Lose(w)

Spec == Init /\ [][Next]_vars

-----------------------------------------------------------------------------
(* Properties *)

Answers  == [of : Rounds, kind : Kinds, ok : BOOLEAN]
Editions == 0..MaxRounds + 1

\* Every variable has its type; a coroutine that has ended has nobody left to ask.
TypeOK ==
    /\ registered \in SUBSET Workers /\ open \in SUBSET Workers
    /\ stale \in [Workers -> 0..MaxLosses]
    /\ closing \in SUBSET Workers
    /\ losses \in 0..MaxLosses
    /\ round \in 0..MaxRounds
    /\ edition \in Editions
    /\ main \in [st : Kinds \cup {"idle", "synced"}, asked : SUBSET Workers,
                 start : BOOLEAN, quiet : BOOLEAN, blank : SUBSET Workers,
                 behind : SUBSET Workers]
    /\ co \in [Rounds -> [kind : Kinds, st : {"sending", "collecting", "done"},
                         asked : SUBSET Workers, todo : SUBSET Workers, edition : Editions]]
    /\ \A n \in Rounds : /\ co[n].todo \subseteq co[n].asked
                         /\ co[n].st = "sending" <=> co[n].todo # {}
    /\ results \in [kind : Kinds, got : [Workers -> Entries]]
    /\ outbox \in [Workers -> Seq(Answers)]
    /\ worker \in [Workers -> [load : Editions, blank : BOOLEAN, scene : Editions]]
    /\ verdict \in [ok : BOOLEAN, late : BOOLEAN]

RoundReturns == main.st \in Kinds /\ main'.st # main.st

Given == results'.got

\* A round that begins when nothing of an earlier one is under way succeeds only if
\* each worker it asked has answered yes in this very round; it takes a worker for
\* silent only when its time is over, and fails only for a worker of its own list that
\* refused, was lost or kept silent. The answers name no round, and the round ends when
\* there are enough of them, whoever sent them (worker.py 1431, 1437, 1493, 2005).
VerdictIsOfThisRound ==
    [][RoundReturns /\ main.quiet =>
         /\ verdict'.ok => \A w \in main.asked :
                               Given[w] = [of |-> round, ok |-> TRUE, why |-> "answer"]
         /\ ~verdict'.late => \A w \in Workers : Given[w].why # "silent"
         /\ ~verdict'.ok => \/ verdict'.late
                            \/ \E w \in main.asked : w \notin registered \/ ~Given[w].ok
      ]_vars

\* When a start goes on to hand out tiles, every worker it asked shows the scene of the
\* server, unless an earlier clean had yet to blank it, and has no other to load: although a
\* bundle is acknowledged before it is loaded (worker.py 1073) and workers come and go
\* between the sync and the check. A worker that came after the sync with a bundle of an
\* earlier one yet to be loaded passes the check and loads that bundle later.
StartedOnTheSameScene ==
    [][RoundReturns /\ main.quiet /\ main.start /\ main.st = "integrity" /\ verdict'.ok =>
         \A w \in main.asked \ main.behind :
             /\ worker[w].load \in {None, edition}
             /\ (worker[w].scene = edition \/ w \in main.blank)]_vars

\* A clean round that succeeds leaves none of its workers a project to load, and
\* each is blank or about to be, if no earlier sync is under way.
CleanedMeansGone ==
    [][RoundReturns /\ main.quiet /\ main.st = "clean" /\ verdict'.ok =>
         \A w \in main.asked : /\ worker[w].load = None
                               /\ (worker[w].blank \/ worker[w].scene = None)]_vars
=============================================================================
