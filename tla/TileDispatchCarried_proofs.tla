--------------------- MODULE TileDispatchCarried_proofs ---------------------
(* A tile that is pending is on its way, and a target is busy with the tiles  *)
(* it is counted to have: what keeps a render from standing still, for any    *)
(* number of workers and tiles.                                               *)
EXTENDS TileDispatch_proofs, FiniteSetTheorems

-----------------------------------------------------------------------------
(* Who carries a tile *)

\* The tables name a carrier that the server itself will turn to.
InTables(d, t) ==
    \/ InQueue(d.queue, t)
    \/ d.owner[t] = MASTER /\ InQueue(d.tasks, t)
    \/ \E w \in Workers : d.owner[t] = w /\ InQueue(d.sends[w], t)
    \/ d.attempts[t] > MaxRetries

\* w has the tile and can still answer, or has lost its timer and never will.
Answering(w, t) ==
    /\ sock[w]
    /\ \/ InQueue(jobs[w], t)
       \/ \E r \in Results : r.job.tile = t /\ transit[w][r] > 0
       \/ w \in dead

\* The tile of w is still to be reassigned: the loss of w has not been handled, or
\* the snapshot of its tiles holds this one. A departing worker that is in no
\* snapshot is not enough: _reassign_jobs_from_worker may have passed.
LossPending(w, t) ==
    /\ w \in s.connected /\ ~sock[w]
    /\ \/ loop.pc = "idle"
       \/ loop.worker # w
       \/ loop.pc = "reassign" /\ t \in loop.tiles

OwnerCarries(t) ==
    \E w \in Workers : s.owner[t] = w /\ (Answering(w, t) \/ LossPending(w, t))

Carried(t) ==
    s.pending[t] # 0 => InTables(s, t) \/ ResultFor(result_queue, t) \/ OwnerCarries(t)

\* A worker with an open connection is registered, the one whose loss is being
\* handled has none, and nobody has been told to abort.
Attended ==
    /\ s.server_renders = TRUE /\ s.abort = FALSE
    /\ aborting = {} /\ \A w \in Workers : aborted[w] = FALSE
    /\ \A w \in Workers : sock[w] => w \in s.connected
    /\ loop.pc # "idle" => /\ loop.worker \in Workers
                           /\ loop.worker \in s.connected
                           /\ ~sock[loop.worker]

\* A tick of the server that raises drops the item it had taken off its queue.
CarriedInv == Attended /\ (MASTER \notin dead => \A t \in Tiles : Carried(t))

-----------------------------------------------------------------------------
(* What one call on the tables does to a tile *)

\* From d to e the tile is put down, is in the tables, or stays with the owner
\* that carried it outside them.
Settled(d, e, t) ==
    \/ e.pending[t] = 0
    \/ InTables(e, t)
    \/ d.pending[t] # 0 /\ ~InTables(d, t) /\ e.owner[t] = d.owner[t]

SameRegister(d, e) ==
    e.connected = d.connected /\ e.abort = d.abort /\ e.server_renders = d.server_renders

Moves(d, e) == SameRegister(d, e) /\ \A t \in Tiles : Settled(d, e, t)

LEMMA MovesTwice ==
    ASSUME NEW d, NEW e, NEW f, Moves(d, e), Moves(e, f)
    PROVE  Moves(d, f)
BY DEF Moves, Settled, SameRegister

LEMMA QueueAppended ==
    ASSUME NEW q \in Seq(Jobs), NEW job \in Jobs, NEW t
    PROVE  /\ InQueue(Append(q, job), job.tile)
           /\ InQueue(q, t) => InQueue(Append(q, job), t)
<1> DEFINE p == Append(q, job)
<1>1. Len(p) = Len(q) + 1 /\ p[Len(q) + 1] = job
    OBVIOUS
<1>2. \A i \in 1..Len(q) : i \in 1..Len(p) /\ p[i] = q[i]
    BY <1>1
<1>3. Len(q) + 1 \in 1..Len(p)
    BY <1>1
<1> QED BY <1>1, <1>2, <1>3 DEF InQueue

\* Tables in which at least what d carries is carried
Covers(d, e) ==
    /\ SameRegister(d, e)
    /\ e.pending = d.pending /\ e.owner = d.owner
    /\ \A t \in Tiles : InTables(d, t) => InTables(e, t)

LEMMA TransmitCovers ==
    ASSUME NEW d \in DispatchState, NEW x \in Targets, NEW job \in Jobs
    PROVE  /\ Covers(d, Transmit(d, x, job))
           /\ d.owner[job.tile] = x => InTables(Transmit(d, x, job), job.tile)
<1> DEFINE e == Transmit(d, x, job)
<1>1. CASE x = MASTER
    <2>1. /\ e.queue = d.queue /\ e.owner = d.owner /\ e.sends = d.sends
          /\ e.attempts = d.attempts /\ e.pending = d.pending
          /\ SameRegister(d, e)
          /\ e.tasks = Append(d.tasks, job) /\ d.tasks \in Seq(Jobs)
        BY <1>1 DEF Transmit, DispatchState, SameRegister
    <2> HIDE DEF e
    <2>2. InQueue(e.tasks, job.tile) /\ \A t : InQueue(d.tasks, t) => InQueue(e.tasks, t)
        BY <2>1, QueueAppended
    <2> QED BY <1>1, <2>1, <2>2 DEF Covers, InTables, e
<1>2. CASE x # MASTER
    <2>1. x \in Workers
        BY <1>2 DEF Targets
    <2>2. /\ e.queue = d.queue /\ e.owner = d.owner /\ e.tasks = d.tasks
          /\ e.attempts = d.attempts /\ e.pending = d.pending
          /\ SameRegister(d, e)
          /\ e.sends = [d.sends EXCEPT ![x] = Append(@, job)]
          /\ d.sends \in [Workers -> Seq(Jobs)]
        BY <1>2 DEF Transmit, DispatchState, SameRegister
    <2> HIDE DEF e
    <2>3. /\ InQueue(e.sends[x], job.tile)
          /\ \A w \in Workers, t \in Tiles : InQueue(d.sends[w], t) => InQueue(e.sends[w], t)
        BY <2>1, <2>2, QueueAppended
    <2> QED BY <2>1, <2>2, <2>3 DEF Covers, InTables, e
<1> QED BY <1>1, <1>2

LEMMA DispatchMoves ==
    ASSUME NEW d \in DispatchState, NEW x \in Targets
    PROVE  Moves(d, Dispatch(d, x))
<1> DEFINE u == [d EXCEPT !.defer = @ /\ x # MASTER]
           job == Head(d.queue)
           v == [u EXCEPT !.queue = Tail(@),
                          !.pending[job.tile] = job.render,
                          !.owner[job.tile] = x,
                          !.inflight[x] = @ + 1]
<1>1. /\ u \in DispatchState /\ Covers(d, u) /\ u.queue = d.queue
      /\ u.pending = d.pending /\ u.owner = d.owner /\ u.inflight = d.inflight
      /\ u.tasks = d.tasks /\ u.sends = d.sends /\ u.attempts = d.attempts
    BY DEF DispatchState, Covers, SameRegister, InTables
<1>2. ASSUME NEW e, Covers(d, e) PROVE Moves(d, e)
    BY <1>2 DEF Covers, Moves, Settled
<1>3. CASE d.queue # << >>
    <2> HIDE DEF u
    <2>1. job \in Jobs /\ job.tile \in Tiles /\ Tail(d.queue) \in Seq(Jobs)
          /\ job.render \in 0..MaxRenders
        <3>1. job \in Jobs /\ Tail(d.queue) \in Seq(Jobs)
            BY <1>3 DEF DispatchState
        <3> QED BY <3>1, DispatchAssumption DEF Jobs, Renders
    <2> HIDE DEF job
    <2>2. v \in DispatchState
        <3>1. /\ [u.pending EXCEPT ![job.tile] = job.render] \in [Tiles -> 0..MaxRenders]
              /\ [u.owner EXCEPT ![job.tile] = x] \in [Tiles -> Owners]
              /\ [u.inflight EXCEPT ![x] = @ + 1] \in [Targets -> Nat]
            BY <1>1, <2>1 DEF DispatchState, Owners
        <3> QED BY <1>1, <2>1, <3>1 DEF DispatchState
    <2>3. /\ v.owner = [d.owner EXCEPT ![job.tile] = x]
          /\ v.pending = [d.pending EXCEPT ![job.tile] = job.render]
          /\ v.queue = Tail(d.queue) /\ v.tasks = d.tasks /\ v.sends = d.sends
          /\ v.attempts = d.attempts /\ SameRegister(d, v)
        BY <1>1 DEF DispatchState, Covers, SameRegister
    <2>4. d.owner \in [Tiles -> Owners] /\ d.pending \in [Tiles -> 0..MaxRenders]
        BY DEF DispatchState
    <2> HIDE DEF v
    <2>5. v.owner[job.tile] = x
        BY <2>1, <2>3, <2>4
    <2>6. ASSUME NEW t \in Tiles, t # job.tile
          PROVE  v.pending[t] = d.pending[t] /\ v.owner[t] = d.owner[t]
                 /\ (InTables(d, t) => InTables(v, t))
        <3>1. v.pending[t] = d.pending[t] /\ v.owner[t] = d.owner[t]
            BY <2>1, <2>3, <2>4, <2>6
        <3>2. InQueue(d.queue, t) => InQueue(v.queue, t)
            BY <1>3, <2>3, <2>6, QueueTail DEF DispatchState, job
        <3> QED BY <2>3, <3>1, <3>2 DEF InTables
    <2> DEFINE e == Transmit(v, x, job)
    <2>7. Covers(v, e) /\ InTables(e, job.tile)
        BY <2>1, <2>2, <2>5, TransmitCovers
    <2> HIDE DEF e
    <2>8. Moves(d, e)
        BY <2>3, <2>6, <2>7 DEF Moves, Settled, Covers, SameRegister
    <2>9. e = HandOut(u, x, Head(d.queue))
        BY DEF HandOut, e, v, job
    <2> QED BY <1>1, <1>2, <1>3, <2>8, <2>9 DEF Dispatch, u, Covers, SameRegister
<1>4. CASE d.queue = << >>
    <2>1. Covers(d, d)
        BY DEF Covers, SameRegister
    <2> QED BY <1>1, <1>2, <1>4, <2>1 DEF Dispatch
<1> QED BY <1>3, <1>4

LEMMA NothingMoves == ASSUME NEW d PROVE Moves(d, d)
BY DEF Moves, Settled, SameRegister

LEMMA ReleasedKeeps ==
    ASSUME NEW d \in DispatchState, NEW t \in Tiles
    PROVE  LET r == Released(d, t)
           IN  /\ r \in DispatchState /\ SameRegister(d, r)
               /\ r.targets = d.targets /\ r.queue = d.queue /\ r.pending = d.pending
               /\ r.owner = d.owner /\ r.attempts = d.attempts
               /\ r.send_attempts = d.send_attempts
               /\ r.tasks = d.tasks /\ r.sends = d.sends
BY ReleasedType DEF Released, DispatchState, SameRegister

\* The library states well-foundedness of an operator; this is the relation it means.
LEMMA LessThan == OpToRel(<, Nat) = {pair \in Nat \X Nat : pair[1] < pair[2]}
BY Zenon DEF OpToRel

\* min() of a list that is not empty
LEMMA SmallestOf ==
    ASSUME NEW S \in SUBSET Nat, S # {}
    PROVE  \E k \in S : \A m \in S : k <= m
<1> DEFINE below == {pair \in Nat \X Nat : pair[1] < pair[2]}
<1>1. IsWellFoundedOn(below, Nat)
    BY Zenon, NatLessThanWellFounded, LessThan
<1>2. PICK k \in S : \A m \in S : ~(<<m, k>> \in below)
    <2> HIDE DEF below
    <2> QED BY <1>1, WFMin
<1>3. ASSUME NEW m \in S PROVE k <= m
    <2>1. k \in Nat /\ m \in Nat /\ <<m, k>>[1] = m /\ <<m, k>>[2] = k
        OBVIOUS
    <2>2. ~(m < k)
        BY <1>2, <2>1
    <2> QED BY <2>1, <2>2
<1> QED BY <1>3

LEMMA SomeoneIsLeastLoaded ==
    ASSUME NEW d \in DispatchState, NEW C \in SUBSET Targets, C # {}
    PROVE  LeastLoaded(d, C) # {}
<1> DEFINE loads == {d.inflight[x] : x \in C}
           least == {x \in C : \A y \in C : d.inflight[x] <= d.inflight[y]}
<1>1. loads \in SUBSET Nat /\ loads # {}
    BY DEF DispatchState
<1>2. PICK k \in loads : \A m \in loads : k <= m
    <2> HIDE DEF loads
    <2> QED BY <1>1, SmallestOf
<1>3. PICK x \in C : k = d.inflight[x]
    OBVIOUS
<1>4. x \in least
    BY <1>2, <1>3
<1> HIDE DEF least
<1> QED BY <1>4 DEF LeastLoaded, Foremost, least

\* _reassign_tile hands the tile to somebody or gives it up for good; the server is
\* there when nobody else is.
LEMMA ReassignMoves ==
    ASSUME NEW d \in DispatchState, d.server_renders = TRUE, NEW t \in Tiles,
           NEW e \in ReassignTile(d, t)
    PROVE  Moves(d, e) /\ (d.pending[t] # 0 => InTables(e, t))
<1> DEFINE r == Released(d, t)
           u == [r EXCEPT !.attempts[t] = @ + 1]
           C == Candidates(d, d.owner[t])
           best == LeastLoaded(u, C)
           Given(x) == [u EXCEPT !.owner[t] = x, !.inflight[x] = @ + 1]
           job == JobOf(d.pending[t], t)
<1>1. CASE d.pending[t] = 0
    <2>1. e = d
        BY <1>1 DEF ReassignTile
    <2> QED BY <1>1, <2>1, NothingMoves
<1>2. CASE d.pending[t] # 0
    <2>1. /\ r \in DispatchState /\ SameRegister(d, r)
          /\ r.queue = d.queue /\ r.pending = d.pending /\ r.owner = d.owner
          /\ r.attempts = d.attempts /\ r.tasks = d.tasks /\ r.sends = d.sends
        BY ReleasedKeeps
    <2>2. d.attempts \in [Tiles -> Nat] /\ d.owner \in [Tiles -> Owners]
        BY DEF DispatchState
    <2> HIDE DEF r
    <2>3. /\ u \in DispatchState /\ SameRegister(d, u)
          /\ u.queue = d.queue /\ u.pending = d.pending /\ u.owner = d.owner
          /\ u.tasks = d.tasks /\ u.sends = d.sends
          /\ u.attempts = [d.attempts EXCEPT ![t] = @ + 1]
        <3>1. [r.attempts EXCEPT ![t] = @ + 1] \in [Tiles -> Nat]
            BY <2>1, <2>2
        <3> QED BY <2>1, <3>1 DEF DispatchState, SameRegister
    <2> HIDE DEF u
    <2>4. ASSUME NEW k \in Tiles, k # t PROVE u.attempts[k] = d.attempts[k]
        BY <2>2, <2>3, <2>4
    <2>5. CASE e = u /\ StopsReassigning(u.attempts[t])
        <3>1. InTables(e, t)
            BY <2>5 DEF InTables, StopsReassigning
        <3>2. ASSUME NEW k \in Tiles, k # t, InTables(d, k) PROVE InTables(e, k)
            BY <2>3, <2>4, <2>5, <3>2 DEF InTables
        <3> QED BY <2>3, <2>5, <3>1, <3>2 DEF Moves, Settled
    <2>6. C # {} /\ C \in SUBSET Targets
        BY DEF Candidates, DispatchState, Targets
    <2> HIDE DEF C
    <2>7. best # {}
        BY <2>3, <2>6, SomeoneIsLeastLoaded
    <2>8. best \subseteq C
        BY DEF LeastLoaded, Foremost
    <2> HIDE DEF best
    <2>9. CASE \E x \in best : e = Transmit(Given(x), x, job)
        <3>1. PICK x \in best : e = Transmit(Given(x), x, job)
            BY <2>9
        <3>2. x \in Targets /\ job \in Jobs /\ job.tile = t
            BY <1>2, <2>6, <2>8, DispatchAssumption DEF DispatchState, Jobs, JobOf, Renders
        <3>3. /\ [u.owner EXCEPT ![t] = x] \in [Tiles -> Owners]
              /\ [u.inflight EXCEPT ![x] = @ + 1] \in [Targets -> Nat]
            BY <2>3, <3>2 DEF DispatchState, Owners
        <3> DEFINE g == Given(x)
        <3>4. /\ g \in DispatchState /\ SameRegister(d, g)
              /\ g.queue = d.queue /\ g.pending = d.pending
              /\ g.tasks = d.tasks /\ g.sends = d.sends /\ g.attempts = u.attempts
              /\ g.owner = [d.owner EXCEPT ![t] = x]
            BY <2>3, <3>3 DEF DispatchState, SameRegister
        <3>0. e = Transmit(g, x, job)
            BY <3>1
        <3> HIDE DEF g, job
        <3>5. g.owner[t] = x /\ \A k \in Tiles : k # t => g.owner[k] = d.owner[k]
            BY <2>2, <3>4
        <3>6. Covers(g, e) /\ InTables(e, t)
            BY <3>0, <3>2, <3>4, <3>5, TransmitCovers
        <3>7. ASSUME NEW k \in Tiles, k # t, InTables(d, k) PROVE InTables(g, k)
            BY <2>4, <3>4, <3>5, <3>7 DEF InTables
        <3>8. ASSUME NEW k \in Tiles PROVE Settled(d, e, k)
            <4>1. CASE k = t
                BY <3>6, <4>1 DEF Settled
            <4>2. CASE k # t
                BY <3>4, <3>5, <3>6, <3>7, <4>2 DEF Settled, Covers
            <4> QED BY <4>1, <4>2
        <3> QED BY <3>4, <3>6, <3>8 DEF Moves, Covers, SameRegister
    <2>10. \/ e = u /\ StopsReassigning(u.attempts[t])
           \/ \E x \in best : e = Transmit(Given(x), x, job)
        BY <1>2, <2>7 DEF ReassignTile, best, u, C, r
    <2> QED BY <2>5, <2>9, <2>10
<1> QED BY <1>1, <1>2

\* _retry_or_requeue_job takes the job off the failed send and puts it back into the
\* queue, or gives the tile up.
LEMMA RetryMoves ==
    ASSUME NEW c \in DispatchState, NEW b \in Workers, c.sends[b] # << >>,
           NEW e \in RetryOrRequeue([c EXCEPT !.sends[b] = Tail(@)], Head(c.sends[b]))
    PROVE  Moves(c, e)
<1> DEFINE d == [c EXCEPT !.sends[b] = Tail(@)]
           job == Head(c.sends[b])
           r == Released(d, job.tile)
           u == [r EXCEPT !.owner[job.tile] = NoOwner, !.send_attempts[job] = @ + 1]
           v == [u EXCEPT !.queue = <<job>> \o @]
           w == [u EXCEPT !.pending[job.tile] = 0]
           idle == {x \in v.targets : Idle(v, x)}
<1>1. job \in Jobs /\ job.tile \in Tiles /\ Tail(c.sends[b]) \in Seq(Jobs)
    <2>1. c.sends[b] \in Seq(Jobs)
        BY DEF DispatchState
    <2>2. job \in Jobs /\ Tail(c.sends[b]) \in Seq(Jobs)
        BY <2>1
    <2> QED BY <2>2 DEF Jobs
<1>2. /\ d \in DispatchState /\ SameRegister(c, d)
      /\ d.queue = c.queue /\ d.pending = c.pending /\ d.owner = c.owner
      /\ d.attempts = c.attempts /\ d.tasks = c.tasks
      /\ d.sends = [c.sends EXCEPT ![b] = Tail(@)]
    BY <1>1 DEF DispatchState, SameRegister
<1>3. ASSUME NEW k \in Tiles, k # job.tile, NEW a \in Workers, InQueue(c.sends[a], k)
      PROVE  InQueue(d.sends[a], k)
    <2>1. c.sends \in [Workers -> Seq(Jobs)]
        BY DEF DispatchState
    <2>2. CASE a = b
        BY <1>2, <1>3, <2>1, <2>2, QueueTail
    <2>3. CASE a # b
        BY <1>2, <1>3, <2>1, <2>3
    <2> QED BY <2>2, <2>3
<1> HIDE DEF d, job
<1>4. /\ r \in DispatchState /\ SameRegister(d, r)
      /\ r.queue = d.queue /\ r.pending = d.pending /\ r.owner = d.owner
      /\ r.attempts = d.attempts /\ r.tasks = d.tasks /\ r.sends = d.sends
    BY <1>1, <1>2, ReleasedKeeps
<1> HIDE DEF r
<1>5. /\ u \in DispatchState /\ SameRegister(c, u)
      /\ u.queue = c.queue /\ u.pending = c.pending
      /\ u.attempts = c.attempts /\ u.tasks = c.tasks /\ u.sends = d.sends
      /\ u.owner = [c.owner EXCEPT ![job.tile] = NoOwner]
    <2>0. r.owner \in [Tiles -> Owners] /\ r.send_attempts \in [Jobs -> Nat]
          /\ NoOwner \in Owners
        BY <1>4 DEF DispatchState, Owners
    <2>1. /\ [r.owner EXCEPT ![job.tile] = NoOwner] \in [Tiles -> Owners]
          /\ [r.send_attempts EXCEPT ![job] = @ + 1] \in [Jobs -> Nat]
        BY <1>1, <2>0
    <2> QED BY <1>2, <1>4, <2>1 DEF DispatchState, SameRegister
<1> HIDE DEF u
<1>6. c.owner \in [Tiles -> Owners] /\ c.pending \in [Tiles -> 0..MaxRenders]
    BY DEF DispatchState
<1>7. ASSUME NEW k \in Tiles, k # job.tile
      PROVE  u.owner[k] = c.owner[k] /\ (InTables(c, k) => InTables(u, k))
    <2>1. u.owner[k] = c.owner[k]
        BY <1>1, <1>5, <1>6, <1>7
    <2> QED BY <1>3, <1>5, <1>7, <2>1 DEF InTables
<1>8. w \in DispatchState /\ Moves(c, w)
    <2>1. w.pending = [u.pending EXCEPT ![job.tile] = 0] /\ SameRegister(c, w)
          /\ w.owner = u.owner /\ w.queue = u.queue /\ w.attempts = u.attempts
          /\ w.tasks = u.tasks /\ w.sends = u.sends
        BY <1>5 DEF DispatchState, SameRegister
    <2>2. [u.pending EXCEPT ![job.tile] = 0] \in [Tiles -> 0..MaxRenders]
        BY <1>1, <1>5, <1>6, DispatchAssumption
    <2>3. w \in DispatchState
        BY <1>5, <2>2 DEF DispatchState
    <2> HIDE DEF w
    <2>4. w.pending[job.tile] = 0 /\ \A k \in Tiles : k # job.tile => w.pending[k] = c.pending[k]
        BY <1>1, <1>5, <1>6, <2>1
    <2>5. ASSUME NEW k \in Tiles, k # job.tile PROVE Settled(c, w, k)
        <3>1. InTables(u, k) => InTables(w, k)
            BY <2>1 DEF InTables
        <3> QED BY <1>7, <2>1, <2>4, <2>5, <3>1 DEF Settled
    <2> QED BY <2>1, <2>3, <2>4, <2>5 DEF Moves, Settled
<1>9. v \in DispatchState /\ Moves(c, v)
    <2>1. u.queue \in Seq(Jobs) /\ <<job>> \in Seq(Jobs)
        BY <1>1, <1>5 DEF DispatchState
    <2>2. <<job>> \o u.queue \in Seq(Jobs)
        BY <2>1
    <2>3. v \in DispatchState /\ SameRegister(c, v)
          /\ v.queue = <<job>> \o u.queue /\ v.pending = u.pending /\ v.owner = u.owner
          /\ v.attempts = u.attempts /\ v.tasks = u.tasks /\ v.sends = u.sends
        BY <1>5, <2>2 DEF DispatchState, SameRegister
    <2> HIDE DEF v
    <2>4. InQueue(v.queue, job.tile) /\ \A k : InQueue(u.queue, k) => InQueue(v.queue, k)
        BY <1>1, <2>1, <2>3, QueuePrefixed
    <2>5. ASSUME NEW k \in Tiles, k # job.tile PROVE Settled(c, v, k)
        <3>1. InTables(u, k) => InTables(v, k)
            BY <2>3, <2>4 DEF InTables
        <3> QED BY <1>5, <1>7, <2>3, <2>5, <3>1 DEF Settled
    <2> QED BY <2>3, <2>4, <2>5 DEF Moves, Settled, InTables
<1>10. CASE e \in {v, w}
    BY <1>8, <1>9, <1>10
<1>11. CASE \E x \in Foremost(idle) : e = Dispatch(v, x)
    <2>1. PICK x \in Foremost(idle) : e = Dispatch(v, x)
        BY <1>11
    <2>2. x \in Targets
        BY <1>9 DEF Foremost, DispatchState
    <2> QED BY <1>9, <2>1, <2>2, DispatchMoves, MovesTwice
<1>12. e \in {v, w} \/ \E x \in Foremost(idle) : e = Dispatch(v, x)
    BY DEF RetryOrRequeue, d, job, r, u
<1> QED BY <1>10, <1>11, <1>12

-----------------------------------------------------------------------------
(* Who is there to carry it *)

\* The conditions under which no tile is left behind, each needed: without the server
\* as a target the last worker takes its tiles with it; a worker kicked, pruned or
\* taken over leaves the tables while it holds tiles; one that was told to abort
\* ignores what it is sent.
Tended ==
    /\ ServerRenders = {TRUE}
    /\ Events \subseteq EventNames \ {"takeover", "kick", "prune", "cancel"}

LEMMA AcceptedMoves ==
    ASSUME s \in DispatchState, NEW t \in Tiles
    PROVE  /\ Accepted(t) \in DispatchState /\ Moves(s, Accepted(t))
           /\ Accepted(t).pending = [s.pending EXCEPT ![t] = 0]
<1> DEFINE r == Released(s, t)
           a == [r EXCEPT !.pending[t] = 0, !.owner[t] = NoOwner]
<1>1. /\ r \in DispatchState /\ SameRegister(s, r)
      /\ r.queue = s.queue /\ r.pending = s.pending /\ r.owner = s.owner
      /\ r.attempts = s.attempts /\ r.tasks = s.tasks /\ r.sends = s.sends
    BY ReleasedKeeps
<1> HIDE DEF r
<1>2. s.owner \in [Tiles -> Owners] /\ s.pending \in [Tiles -> 0..MaxRenders]
    BY DEF DispatchState
<1>3. /\ [r.pending EXCEPT ![t] = 0] \in [Tiles -> 0..MaxRenders]
      /\ [r.owner EXCEPT ![t] = NoOwner] \in [Tiles -> Owners]
    BY <1>1, <1>2, DispatchAssumption DEF Owners
<1>4. /\ a \in DispatchState /\ SameRegister(s, a)
      /\ a.queue = s.queue /\ a.pending = [s.pending EXCEPT ![t] = 0]
      /\ a.owner = [s.owner EXCEPT ![t] = NoOwner]
      /\ a.attempts = s.attempts /\ a.tasks = s.tasks /\ a.sends = s.sends
    BY <1>1, <1>3 DEF DispatchState, SameRegister
<1> HIDE DEF a
<1>5. a.pending[t] = 0
    BY <1>2, <1>4
<1>6. ASSUME NEW k \in Tiles, k # t
      PROVE  a.pending[k] = s.pending[k] /\ a.owner[k] = s.owner[k]
             /\ (InTables(s, k) => InTables(a, k))
    <2>1. a.pending[k] = s.pending[k] /\ a.owner[k] = s.owner[k]
        BY <1>2, <1>4, <1>6
    <2> QED BY <1>4, <2>1 DEF InTables
<1>7. Moves(s, a)
    BY <1>4, <1>5, <1>6 DEF Moves, Settled
<1> QED BY <1>4, <1>7 DEF Accepted, a, r

\* What one call of the server does to its tables, where it does anything
LEMMA ConsumeMoves ==
    ASSUME TypeInv, Attended, ConsumeResult
    PROVE  LET t == Head(result_queue).job.tile
           IN  /\ t \in Tiles /\ Moves(s, s')
               /\ s'.pending[t] = 0 \/ InTables(s', t)
<1> DEFINE r == Head(result_queue)
           t == r.job.tile
           a == Accepted(t)
<1>1. s \in DispatchState /\ s.server_renders = TRUE
    BY DEF TypeInv, TypeOK, Attended
<1>2. t \in Tiles
    <2>1. r \in Results
        BY DEF ConsumeResult, TypeInv, TypeOK
    <2> QED BY <2>1 DEF Results, Jobs
<1>3. CASE s.pending[t] = 0 /\ s' = s
    BY <1>2, <1>3, NothingMoves
<1>4. CASE s.pending[t] # 0 /\ s' \in ReassignTile(s, t)
    <2>1. \A e \in ReassignTile(s, t) : Moves(s, e) /\ InTables(e, t)
        BY <1>1, <1>2, <1>4, ReassignMoves
    <2> QED BY <1>2, <1>4, <2>1
<1>5. CASE s' = IF s.owner[t] = NoOwner THEN a ELSE Dispatch(a, s.owner[t])
    <2>1. /\ a \in DispatchState /\ Moves(s, a)
          /\ a.pending = [s.pending EXCEPT ![t] = 0]
        BY <1>1, <1>2, AcceptedMoves
    <2>2. a.pending[t] = 0
        BY <1>1, <1>2, <2>1 DEF DispatchState
    <2> HIDE DEF a
    <2>3. CASE s.owner[t] = NoOwner
        BY <1>2, <1>5, <2>1, <2>2, <2>3
    <2>4. CASE s.owner[t] # NoOwner
        <3>1. s.owner[t] \in Targets
            BY <1>1, <1>2, <2>4 DEF DispatchState, Owners
        <3>2. Moves(a, s')
            BY <1>5, <2>1, <2>4, <3>1, DispatchMoves
        <3>3. Moves(s, s')
            BY <2>1, <3>2, MovesTwice
        <3>4. s'.pending[t] = 0 \/ InTables(s', t)
            BY <1>2, <2>2, <3>2 DEF Moves, Settled
        <3> QED BY <1>2, <3>3, <3>4
    <2> QED BY <2>3, <2>4
<1> HIDE DEF t, r, a
<1>6. \/ s.pending[t] = 0 /\ s' = s
      \/ s.pending[t] # 0 /\ s' \in ReassignTile(s, t)
      \/ s' = IF s.owner[t] = NoOwner THEN a ELSE Dispatch(a, s.owner[t])
    BY DEF ConsumeResult, t, r, a
<1> QED BY <1>3, <1>4, <1>5, <1>6 DEF t, r

LEMMA ServerMoves ==
    ASSUME TypeInv, Attended,
           \/ Prime \/ DispatchQueued \/ Redispatch \/ ReassignNext \/ ConsumeResult
           \/ \E w \in Workers : SendFails(w)
    PROVE  Moves(s, s')
<1>1. /\ s \in DispatchState /\ s.server_renders = TRUE
      /\ main.todo \subseteq Targets /\ loop.todo \subseteq Targets
      /\ loop.tiles \subseteq Tiles
    BY DEF TypeInv, TypeOK, Attended
<1>2. CASE Prime \/ DispatchQueued \/ Redispatch
    <2>1. \E x \in Targets : s' = Dispatch(s, x)
        BY <1>1, <1>2, ForemostSubset DEF Prime, DispatchQueued, Redispatch
    <2> QED BY <1>1, <2>1, DispatchMoves
<1>3. CASE ReassignNext
    <2>1. \E k \in Tiles : s' \in ReassignTile(s, k)
        BY <1>1, <1>3 DEF ReassignNext
    <2> QED BY <1>1, <2>1, ReassignMoves
<1>4. CASE ConsumeResult
    BY <1>4, ConsumeMoves
<1>5. ASSUME NEW w \in Workers, SendFails(w) PROVE Moves(s, s')
    BY <1>1, <1>5, RetryMoves DEF SendFails
<1> QED BY <1>2, <1>3, <1>4, <1>5

\* Nothing but the loss of a worker takes it out of the register, and only once its
\* connection is closed.
LEMMA AttendedStep ==
    ASSUME Tended, TypeInv, Attended, [Next]_vars
    PROVE  Attended'
<1>1. s \in DispatchState /\ sock \in [Workers -> BOOLEAN] /\ aborted \in [Workers -> BOOLEAN]
    BY DEF TypeInv, TypeOK
<1>2. CASE \/ Prime \/ DispatchQueued \/ Redispatch \/ ReassignNext \/ ConsumeResult
           \/ \E w \in Workers : SendFails(w)
    <2>1. SameRegister(s, s')
        BY <1>2, ServerMoves DEF Moves
    <2>2. /\ UNCHANGED <<sock, aborted, aborting>>
          /\ loop'.pc = loop.pc /\ loop'.worker = loop.worker
        BY <1>2 DEF Prime, DispatchQueued, Redispatch, ReassignNext, ConsumeResult, SendFails,
                    TypeInv, TypeOK, workerVars
    <2> QED BY <2>1, <2>2 DEF Attended, SameRegister
<1>3. CASE StartRender
    BY <1>1, <1>3 DEF StartRender, Attended, Tended, workerVars, DispatchState
<1>4. CASE StartChecked \/ ResetRuntime
    BY <1>1, <1>4 DEF StartChecked, ResetRuntime, ClearedTables, Attended, workerVars,
                      DispatchState
<1>5. CASE CancelRender \/ KickAllWorkers \/ PruneClosedSockets
           \/ \E w \in Workers : ServerTakeover(w)
    BY <1>5 DEF CancelRender, KickAllWorkers, PruneClosedSockets, ServerTakeover, Tended
<1>6. CASE StartRefused \/ Tick \/ RenderLocally \/ TasksDrained \/ ResultsDrained \/ ReassignDone
    BY <1>1, <1>6 DEF StartRefused, Tick, RenderLocally, TasksDrained, ResultsDrained,
                      ReassignDone, Attended, workerVars, DispatchState, TypeInv, TypeOK
<1>13. CASE Stop \/ Start
    BY <1>13 DEF Stop, Start, serverVars, Attended
<1>14. CASE LocalRenderRaises \/ ConsumeRaises
    BY <1>1, <1>14 DEF LocalRenderRaises, ConsumeRaises, TickRaises, Attended, DispatchState
<1>15. CASE StartServer
    BY <1>1, <1>15 DEF StartServer, LoopIdle, Attended, DispatchState
<1>7. CASE Forget
    BY <1>1, <1>7 DEF Forget, Attended, workerVars, DispatchState, TypeInv, TypeOK
<1>8. ASSUME NEW w \in Workers, Register(w) PROVE Attended'
    BY <1>1, <1>8 DEF Register, LoopIdle, Attended, DispatchState
<1>16. ASSUME NEW w \in Workers, Disconnect(w) PROVE Attended'
    BY <1>1, <1>16 DEF Disconnect, Attended, serverVars
<1>9. ASSUME NEW w \in Workers, SendJob(w) \/ ReceiveResult(w) PROVE Attended'
    BY <1>1, <1>9 DEF SendJob, ReceiveResult, Attended, DispatchState
<1>10. ASSUME NEW w \in Workers, HandlerExit(w) PROVE Attended'
    <2>1. s'.connected = s.connected /\ s'.abort = s.abort
          /\ s'.server_renders = s.server_renders
        BY <1>1, <1>10 DEF HandlerExit, BeginReassign, DispatchState
    <2> QED BY <2>1, <1>10 DEF HandlerExit, BeginReassign, Attended, workerVars
<1>11. ASSUME NEW w \in Workers, WorkerStep(w) \/ WorkerRestarts(w) PROVE Attended'
    BY <1>1, <1>11 DEF WorkerStep, WorkerRenders, WorkerRenderRaises, WorkerIgnores,
                       WorkerAborts, WorkerRestarts, Attended, serverVars
<1>12. CASE UNCHANGED vars
    BY <1>12 DEF vars, serverVars, workerVars, Attended
<1> QED BY <1>2, <1>3, <1>4, <1>5, <1>6, <1>7, <1>8, <1>9, <1>10, <1>11, <1>12,
           <1>13, <1>14, <1>15, <1>16
        DEF Next, UserStep, MainStep, LoopStep, EnvStep

-----------------------------------------------------------------------------
(* Every step leaves every pending tile with somebody. *)

LEMMA ResultAppended ==
    ASSUME NEW q \in Seq(Results), NEW r \in Results, NEW t
    PROVE  /\ ResultFor(Append(q, r), r.job.tile)
           /\ ResultFor(q, t) => ResultFor(Append(q, r), t)
<1> DEFINE p == Append(q, r)
<1>1. Len(p) = Len(q) + 1 /\ p[Len(q) + 1] = r
    OBVIOUS
<1>2. \A i \in 1..Len(q) : i \in 1..Len(p) /\ p[i] = q[i]
    BY <1>1
<1>3. Len(q) + 1 \in 1..Len(p)
    BY <1>1
<1> QED BY <1>1, <1>2, <1>3 DEF ResultFor

LEMMA ResultTail ==
    ASSUME NEW q \in Seq(Results), q # << >>, NEW t, ResultFor(q, t), Head(q).job.tile # t
    PROVE  ResultFor(Tail(q), t)
<1>1. PICK i \in 1..Len(q) : q[i].job.tile = t
    BY DEF ResultFor
<1>2. i # 1
    BY <1>1
<1>3. i - 1 \in 1..Len(Tail(q)) /\ Tail(q)[i - 1] = q[i]
    BY <1>2
<1> QED BY <1>1, <1>3 DEF ResultFor

\* The owner still has what it had while its link and the loss of it stand as before.
LEMMA OwnerStays ==
    ASSUME NEW t, OwnerCarries(t), s'.owner[t] = s.owner[t], s'.connected = s.connected,
           UNCHANGED <<sock, jobs, transit>>, dead \subseteq dead',
           loop'.pc = loop.pc, loop'.worker = loop.worker,
           t \in loop.tiles => t \in loop'.tiles
    PROVE  OwnerCarries(t)'
BY DEF OwnerCarries, Answering, LossPending

\* A call of the server on its tables
LEMMA ServerKeepsCarried ==
    ASSUME TypeInv, Attended, NEW t \in Tiles, Carried(t),
           \/ Prime \/ DispatchQueued \/ Redispatch \/ ReassignNext \/ ConsumeResult
           \/ \E w \in Workers : SendFails(w)
    PROVE  Carried(t)'
<1>1. Moves(s, s')
    BY ServerMoves
<1>2. UNCHANGED <<sock, jobs, transit, dead>> /\ s'.connected = s.connected
      /\ loop'.pc = loop.pc /\ loop'.worker = loop.worker
    BY <1>1 DEF Prime, DispatchQueued, Redispatch, ReassignNext, ConsumeResult, SendFails,
                TypeInv, TypeOK, workerVars, Moves, SameRegister
<1>3. CASE s'.pending[t] = 0 \/ InTables(s', t)
    BY <1>3 DEF Carried, InTables
<1>4. CASE s.pending[t] # 0 /\ ~InTables(s, t) /\ s'.owner[t] = s.owner[t]
           /\ ~(s'.pending[t] = 0 \/ InTables(s', t))
    <2>1. CASE t \in loop.tiles => t \in loop'.tiles
        <3>1. ResultFor(result_queue, t) => ResultFor(result_queue', t)
            <4>1. CASE ConsumeResult
                <5>1. Head(result_queue).job.tile # t
                    BY <1>4, <4>1, ConsumeMoves
                <5> QED BY <4>1, <5>1, ResultTail DEF ConsumeResult, TypeInv, TypeOK
            <4>2. CASE ~ConsumeResult
                BY <4>2 DEF Prime, DispatchQueued, Redispatch, ReassignNext, SendFails
            <4> QED BY <4>1, <4>2
        <3>2. OwnerCarries(t) => OwnerCarries(t)'
            BY <1>2, <1>4, <2>1, OwnerStays
        <3>3. ResultFor(result_queue, t) \/ OwnerCarries(t)
            BY <1>4 DEF Carried
        <3>4. ResultFor(result_queue', t) \/ OwnerCarries(t)'
            BY <3>1, <3>2, <3>3
        <3> QED BY <3>4 DEF Carried
    <2>2. CASE t \in loop.tiles /\ t \notin loop'.tiles
        <3>1. ReassignNext /\ loop'.tiles # loop.tiles
            BY <2>2 DEF Prime, DispatchQueued, Redispatch, ReassignNext, ConsumeResult,
                        SendFails, TypeInv, TypeOK
        <3>2. s' \in ReassignTile(s, t)
            BY <2>2, <3>1 DEF ReassignNext, TypeInv, TypeOK
        <3>3. InTables(s', t)
            BY <1>4, <3>2, ReassignMoves DEF Attended, TypeInv, TypeOK
        <3> QED BY <1>4, <3>3
    <2> QED BY <2>1, <2>2
<1> QED BY <1>1, <1>3, <1>4 DEF Moves, Settled

\* A step that leaves the owner of a pending tile as it was
LEMMA CarriedSame ==
    ASSUME NEW t \in Tiles, Carried(t),
           s'.pending = s.pending, s'.owner = s.owner,
           InTables(s, t) => InTables(s', t) \/ ResultFor(result_queue', t) \/ OwnerCarries(t)',
           ResultFor(result_queue, t) => ResultFor(result_queue', t),
           OwnerCarries(t) => OwnerCarries(t)' \/ ResultFor(result_queue', t)
    PROVE  Carried(t)'
<1>1. s'.pending[t] # 0 => \/ InTables(s', t) \/ ResultFor(result_queue', t) \/ OwnerCarries(t)'
    BY DEF Carried
<1> QED BY <1>1 DEF Carried

\* Of the tables only what the property does not look at changes.
LEMMA BookkeepingKeepsCarried ==
    ASSUME TypeInv, Attended, NEW t \in Tiles, Carried(t),
           \/ StartRender \/ StartRefused \/ Tick \/ TasksDrained \/ ResultsDrained
           \/ Stop \/ Start \/ UNCHANGED vars
    PROVE  Carried(t)'
<1>1. s \in DispatchState
    BY DEF TypeInv, TypeOK
<1>2. /\ s'.pending = s.pending /\ s'.owner = s.owner /\ s'.attempts = s.attempts
      /\ s'.queue = s.queue /\ s'.tasks = s.tasks /\ s'.sends = s.sends
      /\ s'.connected = s.connected
    BY <1>1 DEF StartRender, StartRefused, Tick, TasksDrained, ResultsDrained, Stop, Start, vars,
                serverVars, DispatchState
<1>3. UNCHANGED <<result_queue, loop, sock, jobs, transit>> /\ dead \subseteq dead'
    BY DEF StartRender, StartRefused, Tick, TasksDrained, ResultsDrained, Stop, Start, vars,
           serverVars, workerVars
<1>4. InTables(s, t) => InTables(s', t)
    BY <1>2 DEF InTables
<1>5. OwnerCarries(t) => OwnerCarries(t)'
    BY <1>2, <1>3, OwnerStays
<1> QED BY <1>2, <1>3, <1>4, <1>5, CarriedSame

\* The server renders a tile of its own: the result takes the place of the task.
LEMMA RenderLocallyKeepsCarried ==
    ASSUME TypeInv, Attended, NEW t \in Tiles, Carried(t), RenderLocally
    PROVE  Carried(t)'
<1>1. /\ s \in DispatchState /\ s.abort = FALSE
      /\ result_queue \in Seq(Results)
    BY DEF TypeInv, TypeOK, Attended
<1>2. /\ s'.pending = s.pending /\ s'.owner = s.owner /\ s'.attempts = s.attempts
      /\ s'.queue = s.queue /\ s'.tasks = Tail(s.tasks) /\ s'.sends = s.sends
      /\ s'.connected = s.connected
      /\ s.tasks \in Seq(Jobs) /\ s.tasks # << >>
    BY <1>1 DEF RenderLocally, DispatchState
<1>3. UNCHANGED <<loop, sock, jobs, transit, dead>>
    BY DEF RenderLocally, workerVars
<1>4. PICK ok \in BOOLEAN :
        result_queue' = Append(result_queue, [job |-> Head(s.tasks), ok |-> ok])
    BY <1>1 DEF RenderLocally, Outcomes
<1> DEFINE r == [job |-> Head(s.tasks), ok |-> ok]
<1>5. r \in Results
    <2>1. Head(s.tasks) \in Jobs
        BY <1>2
    <2> QED BY <2>1 DEF Results
<1>6. ResultFor(result_queue', Head(s.tasks).tile)
      /\ (ResultFor(result_queue, t) => ResultFor(result_queue', t))
    <2>1. r.job.tile = Head(s.tasks).tile
        OBVIOUS
    <2> HIDE DEF r
    <2>2. result_queue' = Append(result_queue, r)
        BY <1>4 DEF r
    <2>3. ResultFor(result_queue', r.job.tile)
          /\ (ResultFor(result_queue, t) => ResultFor(result_queue', t))
        BY <1>1, <1>5, <2>2, ResultAppended
    <2> QED BY <2>1, <2>3
<1>7. InQueue(s.tasks, t) => InQueue(s'.tasks, t) \/ ResultFor(result_queue', t)
    BY <1>2, <1>6, QueueTail
<1>8. InTables(s, t) => InTables(s', t) \/ ResultFor(result_queue', t)
    BY <1>2, <1>7 DEF InTables
<1>9. OwnerCarries(t) => OwnerCarries(t)'
    BY <1>2, <1>3, OwnerStays
<1> QED BY <1>1, <1>2, <1>6, <1>8, <1>9, CarriedSame

\* MSG_RENDER_TILE reaches the worker; a result reaches the server.
LEMMA NetworkKeepsCarried ==
    ASSUME TypeInv, Attended, NEW t \in Tiles, Carried(t), NEW w \in Workers,
           SendJob(w) \/ ReceiveResult(w)
    PROVE  Carried(t)'
<1>1. /\ s \in DispatchState /\ result_queue \in Seq(Results)
      /\ jobs \in [Workers -> Seq(Jobs)] /\ transit \in [Workers -> [Results -> Nat]]
    BY DEF TypeInv, TypeOK
<1>2. CASE SendJob(w)
    <2>1. /\ s'.pending = s.pending /\ s'.owner = s.owner /\ s'.attempts = s.attempts
          /\ s'.queue = s.queue /\ s'.tasks = s.tasks /\ s'.connected = s.connected
          /\ s'.sends = [s.sends EXCEPT ![w] = Tail(@)]
          /\ s.sends \in [Workers -> Seq(Jobs)] /\ s.sends[w] # << >>
          /\ sock[w] /\ sock' = sock /\ transit' = transit /\ loop' = loop /\ dead' = dead
          /\ result_queue' = result_queue
          /\ jobs' = [jobs EXCEPT ![w] = Append(@, Head(s.sends[w]))]
        BY <1>1, <1>2 DEF SendJob, DispatchState
    <2>2. Head(s.sends[w]) \in Jobs
        BY <2>1
    <2>3. InQueue(jobs'[w], Head(s.sends[w]).tile)
          /\ (\A v \in Workers : InQueue(jobs[v], t) => InQueue(jobs'[v], t))
        BY <1>1, <2>1, <2>2, QueueAppended
    <2>4. ASSUME NEW v \in Workers, InQueue(s.sends[v], t)
          PROVE  InQueue(s'.sends[v], t) \/ (v = w /\ Answering(w, t)')
        BY <2>1, <2>3, <2>4, QueueTail DEF Answering
    <2>5. InTables(s, t) => InTables(s', t) \/ OwnerCarries(t)'
        BY <2>1, <2>4 DEF InTables, OwnerCarries
    <2>6. OwnerCarries(t) => OwnerCarries(t)'
        BY <2>1, <2>3 DEF OwnerCarries, Answering, LossPending
    <2> QED BY <1>1, <2>1, <2>5, <2>6, CarriedSame
<1>3. CASE ReceiveResult(w)
    <2>1. PICK r \in Results : /\ transit' = [transit EXCEPT ![w][r] = @ - 1]
                               /\ result_queue' = Append(result_queue, r)
        BY <1>3 DEF ReceiveResult
    <2>2. UNCHANGED <<s, loop, sock, jobs, dead>>
        BY <1>3 DEF ReceiveResult
    <2>3. ResultFor(result_queue', r.job.tile)
          /\ (ResultFor(result_queue, t) => ResultFor(result_queue', t))
        BY <1>1, <2>1, ResultAppended
    <2>4. ASSUME NEW v \in Workers, NEW q \in Results, <<v, q>> # <<w, r>>
          PROVE  transit'[v][q] = transit[v][q]
        BY <1>1, <2>1, <2>4
    <2>5. ASSUME r.job.tile # t PROVE OwnerCarries(t) => OwnerCarries(t)'
        BY <2>2, <2>4, <2>5 DEF OwnerCarries, Answering, LossPending
    <2> QED BY <1>1, <2>2, <2>3, <2>5, CarriedSame
<1> QED BY <1>2, <1>3

\* A worker renders a tile, is started anew, joins, or is lost.
LEMMA WorkersKeepCarried ==
    ASSUME TypeInv, Attended, NEW t \in Tiles, Carried(t), NEW w \in Workers,
           WorkerStep(w) \/ WorkerRestarts(w) \/ Disconnect(w) \/ Register(w)
    PROVE  Carried(t)'
<1>1. /\ s \in DispatchState
      /\ jobs \in [Workers -> Seq(Jobs)] /\ transit \in [Workers -> [Results -> Nat]]
      /\ sock \in [Workers -> BOOLEAN]
    BY DEF TypeInv, TypeOK
<1>2. CASE WorkerRenders(w)
    <2>1. /\ UNCHANGED <<s, loop, sock, result_queue, dead>>
          /\ jobs[w] # << >> /\ jobs' = [jobs EXCEPT ![w] = Tail(@)]
        BY <1>2 DEF WorkerRenders, serverVars
    <2>2. PICK ok \in BOOLEAN :
            transit' = IF sock[w]
                       THEN [transit EXCEPT ![w][[job |-> Head(jobs[w]), ok |-> ok]] = @ + 1]
                       ELSE transit
        BY <1>2 DEF WorkerRenders, Outcomes
    <2> DEFINE r == [job |-> Head(jobs[w]), ok |-> ok]
    <2>3. r \in Results /\ r.job.tile = Head(jobs[w]).tile
        <3>1. Head(jobs[w]) \in Jobs
            BY <1>1, <2>1
        <3> QED BY <3>1 DEF Results
    <2>4. transit' = IF sock[w] THEN [transit EXCEPT ![w][r] = @ + 1] ELSE transit
        BY <2>2
    <2> HIDE DEF r
    <2>5. ASSUME sock[w] PROVE transit'[w][r] > 0
        BY <1>1, <2>3, <2>4, <2>5
    <2>6. ASSUME NEW v \in Workers, NEW q \in Results PROVE transit'[v][q] >= transit[v][q]
        BY <1>1, <2>3, <2>4
    <2>7. ASSUME NEW v \in Workers, NEW q \in Results, transit[v][q] > 0
          PROVE  transit'[v][q] > 0
        <3>1. transit[v][q] \in Nat /\ transit'[v][q] \in Int
            BY <1>1, <2>3, <2>4
        <3> QED BY <2>6, <2>7, <3>1
    <2>8. ASSUME NEW v \in Workers, Answering(v, t) PROVE Answering(v, t)'
        <3>1. CASE InQueue(jobs[v], t) /\ v = w
            BY <1>1, <2>1, <2>3, <2>5, <2>8, <3>1, QueueTail DEF Answering
        <3>2. CASE InQueue(jobs[v], t) /\ v # w
            BY <1>1, <2>1, <2>8, <3>2 DEF Answering
        <3>3. CASE ~InQueue(jobs[v], t)
            BY <2>1, <2>7, <2>8, <3>3 DEF Answering
        <3> QED BY <3>1, <3>2, <3>3
    <2>9. OwnerCarries(t) => OwnerCarries(t)'
        BY <2>1, <2>8 DEF OwnerCarries, LossPending
    <2> QED BY <1>1, <2>1, <2>9, CarriedSame
<1>3. CASE WorkerIgnores(w) \/ WorkerAborts(w)
    BY <1>1, <1>3 DEF WorkerIgnores, WorkerAborts, Attended
<1>7. CASE WorkerRenderRaises(w)
    <2>1. /\ UNCHANGED <<s, loop, sock, result_queue, transit>>
          /\ jobs' = [jobs EXCEPT ![w] = Tail(@)] /\ dead' = dead \cup {w}
        BY <1>7 DEF WorkerRenderRaises, serverVars
    <2>2. ASSUME NEW v \in Workers, Answering(v, t) PROVE Answering(v, t)'
        BY <1>1, <2>1, <2>2 DEF Answering
    <2>3. OwnerCarries(t) => OwnerCarries(t)'
        BY <2>1, <2>2 DEF OwnerCarries, LossPending
    <2> QED BY <1>1, <2>1, <2>3, CarriedSame
<1>4. CASE WorkerRestarts(w)
    <2>1. /\ UNCHANGED <<s, loop, sock, result_queue, transit>>
          /\ ~sock[w] /\ jobs' = [jobs EXCEPT ![w] = << >>] /\ dead' = dead \ {w}
        BY <1>4 DEF WorkerRestarts, serverVars
    <2>2. ASSUME NEW v \in Workers, Answering(v, t) PROVE Answering(v, t)'
        BY <1>1, <2>1, <2>2 DEF Answering
    <2>3. OwnerCarries(t) => OwnerCarries(t)'
        BY <2>1, <2>2 DEF OwnerCarries, LossPending
    <2> QED BY <1>1, <2>1, <2>3, CarriedSame
<1>5. CASE Disconnect(w)
    <2>1. /\ UNCHANGED <<s, loop, result_queue, dead>>
          /\ sock[w] /\ sock' = [sock EXCEPT ![w] = FALSE]
          /\ \A v \in Workers : v # w => jobs'[v] = jobs[v] /\ transit'[v] = transit[v]
        BY <1>1, <1>5 DEF Disconnect, serverVars
    <2>2. LossPending(w, t)'
        BY <1>1, <2>1 DEF LossPending, Attended
    <2>3. ASSUME NEW v \in Workers, v # w
          PROVE  (Answering(v, t) => Answering(v, t)') /\ (LossPending(v, t) => LossPending(v, t)')
        BY <1>1, <2>1, <2>3 DEF Answering, LossPending
    <2>4. OwnerCarries(t) => OwnerCarries(t)'
        BY <2>1, <2>2, <2>3 DEF OwnerCarries
    <2> QED BY <1>1, <2>1, <2>4, CarriedSame
<1>6. CASE Register(w)
    <2>1. /\ s'.pending = s.pending /\ s'.owner = s.owner /\ s'.attempts = s.attempts
          /\ s'.queue = s.queue /\ s'.tasks = s.tasks /\ s'.sends = s.sends
          /\ s'.connected = s.connected \cup {w} /\ w \notin s.connected
          /\ ~sock[w] /\ sock' = [sock EXCEPT ![w] = TRUE]
          /\ UNCHANGED <<result_queue, loop, jobs, transit, dead>>
        BY <1>1, <1>6 DEF Register, DispatchState
    <2>2. InTables(s, t) => InTables(s', t)
        BY <2>1 DEF InTables
    <2>3. ASSUME NEW v \in Workers, v # w
          PROVE  (Answering(v, t) => Answering(v, t)') /\ (LossPending(v, t) => LossPending(v, t)')
        BY <1>1, <2>1, <2>3 DEF Answering, LossPending
    <2>4. ~Answering(w, t) /\ ~LossPending(w, t)
        BY <2>1 DEF Answering, LossPending
    <2>5. OwnerCarries(t) => OwnerCarries(t)'
        BY <2>1, <2>3, <2>4 DEF OwnerCarries
    <2> QED BY <1>1, <2>1, <2>2, <2>5, CarriedSame
<1> QED BY <1>2, <1>3, <1>4, <1>5, <1>6, <1>7 DEF WorkerStep

\* The handler of a lost worker goes through its tiles: none it leaves behind.
LEMMA LossKeepsCarried ==
    ASSUME TypeInv, Attended, NEW t \in Tiles, Carried(t),
           ReassignDone \/ Forget \/ \E w \in Workers : HandlerExit(w)
    PROVE  Carried(t)'
<1>1. /\ s \in DispatchState
      /\ loop \in [pc : LoopPcs, worker : Workers \cup {NoOwner},
                   tiles : SUBSET Tiles, todo : SUBSET Targets]
    BY DEF TypeInv, TypeOK
<1>2. CASE ReassignDone
    <2>1. /\ UNCHANGED <<s, result_queue, sock, jobs, transit, dead>>
          /\ loop.pc = "reassign" /\ loop.tiles = {}
          /\ loop'.worker = loop.worker
        BY <1>1, <1>2 DEF ReassignDone, workerVars
    <2>2. OwnerCarries(t) => OwnerCarries(t)'
        BY <2>1 DEF OwnerCarries, Answering, LossPending
    <2> QED BY <1>1, <2>1, <2>2, CarriedSame
<1>3. CASE Forget
    <2>1. /\ s'.pending = s.pending /\ s'.owner = s.owner /\ s'.attempts = s.attempts
          /\ s'.queue = s.queue /\ s'.tasks = s.tasks /\ s'.sends = s.sends
          /\ s'.connected = s.connected \ {loop.worker}
          /\ UNCHANGED <<result_queue, sock, jobs, transit, dead>>
          /\ loop.pc = "redispatch" /\ loop'.pc = "idle"
        BY <1>1, <1>3 DEF Forget, DispatchState, workerVars
    <2>2. InTables(s, t) => InTables(s', t)
        BY <2>1 DEF InTables
    <2>3. OwnerCarries(t) => OwnerCarries(t)'
        BY <2>1 DEF OwnerCarries, Answering, LossPending
    <2> QED BY <1>1, <2>1, <2>2, <2>3, CarriedSame
<1>4. ASSUME NEW w \in Workers, HandlerExit(w) PROVE Carried(t)'
    <2>1. /\ s'.pending = s.pending /\ s'.owner = s.owner /\ s'.attempts = s.attempts
          /\ s'.queue = s.queue /\ s'.tasks = s.tasks /\ s'.sends = s.sends
          /\ s'.connected = s.connected
          /\ UNCHANGED <<result_queue, sock, jobs, transit, dead>>
        BY <1>1, <1>4 DEF HandlerExit, BeginReassign, DispatchState, workerVars
    <2>2. loop' = [pc |-> "reassign", worker |-> w, tiles |-> OwnedBy(w), todo |-> {}]
          /\ loop.pc = "idle"
        BY <1>4 DEF HandlerExit, BeginReassign, LoopIdle
    <2>3. InTables(s, t) => InTables(s', t)
        BY <2>1 DEF InTables
    <2>4. ASSUME NEW v \in Workers, s.owner[t] = v, LossPending(v, t)
          PROVE  LossPending(v, t)'
        BY <2>1, <2>2, <2>4 DEF LossPending, OwnedBy
    <2>5. OwnerCarries(t) => OwnerCarries(t)'
        BY <2>1, <2>4 DEF OwnerCarries, Answering
    <2> QED BY <1>1, <2>1, <2>3, <2>5, CarriedSame
<1> QED BY <1>2, <1>3, <1>4

\* The steps that start or end a timer
LEMMA NextDead ==
    ASSUME [Next]_vars
    PROVE  \/ UNCHANGED dead
           \/ Tick \/ LocalRenderRaises \/ ConsumeRaises
           \/ \E w \in Workers : WorkerRenderRaises(w) \/ WorkerRestarts(w)
<1>1. CASE UNCHANGED vars
    BY <1>1 DEF vars, workerVars
<1>2. CASE UserStep
    BY <1>2 DEF UserStep, StartRender, CancelRender, ResetRuntime, KickAllWorkers,
                PruneClosedSockets, Stop, Start, workerVars
<1>3. CASE MainStep
    BY <1>3 DEF MainStep, StartRefused, StartChecked, Prime, RenderLocally, TasksDrained,
                ConsumeResult, ResultsDrained, DispatchQueued, workerVars
<1>4. CASE LoopStep
    BY <1>4 DEF LoopStep, ReassignNext, ReassignDone, Redispatch, Forget, StartServer, SendJob,
                SendFails, ReceiveResult, HandlerExit, BeginReassign, workerVars
<1>5. CASE EnvStep
    BY <1>5 DEF EnvStep, Register, ServerTakeover, BeginReassign, Disconnect, workerVars
<1>6. CASE \E w \in Workers : WorkerStep(w)
    BY <1>6 DEF WorkerStep, WorkerRenders, WorkerIgnores, WorkerAborts
<1> QED BY <1>1, <1>2, <1>3, <1>4, <1>5, <1>6 DEF Next

\* Only a worker is started anew in this model: the server whose timer is gone keeps
\* its tables, and has no tick any more.
LEMMA DeadServerStays ==
    ASSUME [Next]_vars, MASTER \in dead
    PROVE  MASTER \in dead'
<1>1. CASE UNCHANGED dead
    BY <1>1
<1>2. CASE Tick \/ LocalRenderRaises \/ ConsumeRaises
    BY <1>2 DEF Tick, LocalRenderRaises, ConsumeRaises, TickRaises
<1>3. ASSUME NEW w \in Workers, WorkerRenderRaises(w) \/ WorkerRestarts(w)
      PROVE  MASTER \in dead'
    BY <1>3, DispatchAssumption DEF WorkerRenderRaises, WorkerRestarts
<1>4. \/ UNCHANGED dead
      \/ Tick \/ LocalRenderRaises \/ ConsumeRaises
      \/ \E w \in Workers : WorkerRenderRaises(w) \/ WorkerRestarts(w)
    BY NextDead
<1> QED BY <1>1, <1>2, <1>3, <1>4

LEMMA CarriedStep ==
    ASSUME Tended, TypeInv, CarriedInv, [Next]_vars
    PROVE  CarriedInv'
<1>1. Attended'
    BY AttendedStep DEF CarriedInv
<1>2. ASSUME NEW t \in Tiles, MASTER \notin dead' PROVE Carried(t)'
    <2>0. Attended /\ Carried(t)
        <3>1. MASTER \in dead => MASTER \in dead'
            BY DispatchAssumption, DeadServerStays
        <3> QED BY <1>2, <3>1 DEF CarriedInv
    <2>1. CASE \/ Prime \/ DispatchQueued \/ Redispatch \/ ReassignNext \/ ConsumeResult
               \/ \E w \in Workers : SendFails(w)
        BY <2>0, <2>1, ServerKeepsCarried
    <2>2. CASE \/ StartRender \/ StartRefused \/ Tick \/ TasksDrained \/ ResultsDrained
               \/ Stop \/ Start \/ UNCHANGED vars
        BY <2>0, <2>2, BookkeepingKeepsCarried
    <2>3. CASE StartChecked \/ ResetRuntime \/ StartServer
        <3>1. s'.pending = [k \in Tiles |-> 0]
            BY <2>3 DEF StartChecked, ResetRuntime, StartServer, ClearedTables, TypeInv, TypeOK,
                        DispatchState
        <3> QED BY <3>1 DEF Carried
    <2>4. CASE RenderLocally
        BY <2>0, <2>4, RenderLocallyKeepsCarried
    <2>5. CASE \E w \in Workers : SendJob(w) \/ ReceiveResult(w)
        BY <2>0, <2>5, NetworkKeepsCarried
    <2>6. CASE \E w \in Workers : WorkerStep(w) \/ WorkerRestarts(w) \/ Disconnect(w) \/ Register(w)
        BY <2>0, <2>6, WorkersKeepCarried
    <2>7. CASE ReassignDone \/ Forget \/ \E w \in Workers : HandlerExit(w)
        BY <2>0, <2>7, LossKeepsCarried
    <2>8. CASE CancelRender \/ KickAllWorkers \/ PruneClosedSockets
               \/ \E w \in Workers : ServerTakeover(w)
        BY <2>8 DEF CancelRender, KickAllWorkers, PruneClosedSockets, ServerTakeover, Tended
    <2>9. CASE LocalRenderRaises \/ ConsumeRaises
        BY <1>2, <2>9 DEF LocalRenderRaises, ConsumeRaises, TickRaises
    <2> QED BY <2>1, <2>2, <2>3, <2>4, <2>5, <2>6, <2>7, <2>8, <2>9
            DEF Next, UserStep, MainStep, LoopStep, EnvStep
<1> QED BY <1>1, <1>2 DEF CarriedInv

LEMMA InitCarried == Tended /\ Init => CarriedInv
<1> SUFFICES ASSUME Init PROVE CarriedInv
    OBVIOUS
<1>1. Attended
    BY DEF Init, Attended
<1>2. \A t \in Tiles : s.pending[t] = 0
    BY DEF Init
<1> QED BY <1>1, <1>2 DEF CarriedInv, Carried

\* However many workers are lost and come back, fail or answer late, however often the
\* server is stopped and started, and however its two threads interleave: while its timer
\* runs, a pending tile is on its way until it has been reassigned more than max_retries
\* times. Of a lost worker, handler exit, failed sends and snapshot together leave no tile
\* behind. Two ways to strand a tile are left, and the theorem says that there is no third:
\* a worker whose render raised keeps its connection and its tiles but ticks no more
\* (Silent), and a tick of the server itself raised (MASTER in dead).
THEOREM NoTileIsStranded == ASSUME Tended PROVE Spec => []PendingTileIsCarried
<1>1. TypeInv /\ CarriedInv => PendingTileIsCarried
    <2> SUFFICES ASSUME CarriedInv, MASTER \notin dead, NEW t \in Tiles, s.pending[t] # 0
                 PROVE  \/ InQueue(s.queue, t)
                        \/ ResultFor(result_queue, t)
                        \/ s.owner[t] = MASTER /\ InQueue(s.tasks, t)
                        \/ \E w \in Workers :
                              s.owner[t] = w /\ (HeldBy(w, t) \/ Departing(w, t) \/ Silent(w))
                        \/ s.attempts[t] > MaxRetries
        BY DEF PendingTileIsCarried
    <2>1. \A w \in Workers : InQueue(s.sends[w], t) \/ Answering(w, t)
                                 => HeldBy(w, t) \/ Silent(w)
        BY DEF CarriedInv, Attended, Answering, HeldBy, Silent
    <2>2. \A w \in Workers : LossPending(w, t) => Departing(w, t)
        BY DEF LossPending, Departing
    <2>3. InTables(s, t) \/ ResultFor(result_queue, t) \/ OwnerCarries(t)
        BY DEF CarriedInv, Carried
    <2> QED BY <2>1, <2>2, <2>3 DEF InTables, OwnerCarries
<1>2. Init => CarriedInv
    BY InitCarried
<1>3. TypeInv /\ CarriedInv /\ [Next]_vars => CarriedInv'
    BY CarriedStep
<1> QED BY <1>1, <1>2, <1>3, InitType, TypeStep, PTL DEF Spec

-----------------------------------------------------------------------------
(* What a target is counted to be busy with *)

\* No tile twice
Distinct(q) == \A i, j \in 1..Len(q) : q[i].tile = q[j].tile => i = j

\* The tiles x owns and may still answer
Busy(d, x) == {t \in Tiles : d.pending[t] # 0 /\ d.owner[t] = x /\ d.attempts[t] <= MaxRetries}

\* The tables balance: only a tile that is pending has an owner, one that is queued has
\* none, is queued once and may still be tried, and one given up is of no target.
Balanced(d) ==
    /\ \A t \in Tiles : d.pending[t] = 0 => d.owner[t] = NoOwner
    /\ \A t \in Tiles : InQueue(d.queue, t) => d.owner[t] = NoOwner /\ d.attempts[t] <= MaxRetries
    /\ Distinct(d.queue)
    /\ \A t \in Tiles : d.attempts[t] > MaxRetries => MaxRetries = 0 /\ d.owner[t] \notin d.targets
    /\ \A x \in d.targets : d.inflight[x] = Cardinality(Busy(d, x))

\* A send that fails puts its tile back: it must not be in the queue already.
Returnable(d, F) ==
    \A w \in F : Distinct(d.sends[w]) /\ \A t \in Tiles : InQueue(d.sends[w], t) => ~InQueue(d.queue, t)

LEMMA Tailed ==
    ASSUME NEW q \in Seq(Jobs), q # << >>, Distinct(q)
    PROVE  /\ Tail(q) \in Seq(Jobs) /\ Head(q) \in Jobs /\ Distinct(Tail(q))
           /\ ~InQueue(Tail(q), Head(q).tile) /\ InQueue(q, Head(q).tile)
           /\ \A t : InQueue(Tail(q), t) => InQueue(q, t)
<1>1. Tail(q) \in Seq(Jobs) /\ Head(q) = q[1] /\ 1 \in 1..Len(q)
    OBVIOUS
<1>2. \A i \in 1..Len(Tail(q)) : i + 1 \in 1..Len(q) /\ Tail(q)[i] = q[i + 1] /\ i + 1 # 1
    OBVIOUS
<1>3. Distinct(Tail(q))
    BY <1>2 DEF Distinct
<1>4. ~InQueue(Tail(q), Head(q).tile)
    BY <1>1, <1>2 DEF Distinct, InQueue
<1>5. \A t : InQueue(Tail(q), t) => InQueue(q, t)
    BY <1>2 DEF InQueue
<1> QED BY <1>1, <1>3, <1>4, <1>5 DEF InQueue

LEMMA Appended ==
    ASSUME NEW q \in Seq(Jobs), NEW job \in Jobs, Distinct(q), ~InQueue(q, job.tile)
    PROVE  /\ Append(q, job) \in Seq(Jobs) /\ Distinct(Append(q, job))
           /\ \A t : InQueue(Append(q, job), t) => InQueue(q, t) \/ t = job.tile
<1> DEFINE p == Append(q, job)
<1>1. p \in Seq(Jobs) /\ Len(p) = Len(q) + 1 /\ p[Len(q) + 1] = job
    OBVIOUS
<1>2. \A i \in 1..Len(p) : i = Len(q) + 1 \/ (i \in 1..Len(q) /\ p[i] = q[i])
    BY <1>1
<1> HIDE DEF p
<1>3. Distinct(p)
    BY <1>1, <1>2 DEF Distinct, InQueue
<1>4. \A t : InQueue(p, t) => InQueue(q, t) \/ t = job.tile
    BY <1>1, <1>2 DEF InQueue
<1> QED BY <1>1, <1>3, <1>4 DEF p

LEMMA Prefixed ==
    ASSUME NEW q \in Seq(Jobs), NEW job \in Jobs, Distinct(q), ~InQueue(q, job.tile)
    PROVE  /\ <<job>> \o q \in Seq(Jobs) /\ Distinct(<<job>> \o q)
           /\ \A t : InQueue(<<job>> \o q, t) => InQueue(q, t) \/ t = job.tile
<1> DEFINE p == <<job>> \o q
<1>0. <<job>> \in Seq(Jobs)
    OBVIOUS
<1>1. p \in Seq(Jobs) /\ Len(p) = Len(q) + 1 /\ p[1] = job
    BY <1>0
<1>2. \A i \in 1..Len(p) : i = 1 \/ (i - 1 \in 1..Len(q) /\ p[i] = q[i - 1])
    BY <1>0, <1>1
<1> HIDE DEF p
<1>3. Distinct(p)
    <2> SUFFICES ASSUME NEW i \in 1..Len(p), NEW j \in 1..Len(p), p[i].tile = p[j].tile
                 PROVE  i = j
        BY DEF Distinct
    <2>1. CASE i = 1 \/ j = 1
        BY <1>1, <1>2, <2>1 DEF InQueue
    <2>2. CASE i # 1 /\ j # 1
        <3>1. i - 1 \in 1..Len(q) /\ j - 1 \in 1..Len(q) /\ q[i - 1].tile = q[j - 1].tile
            BY <1>2, <2>2
        <3>2. i - 1 = j - 1
            BY <3>1 DEF Distinct
        <3> QED BY <3>2
    <2> QED BY <2>1, <2>2
<1>4. \A t : InQueue(p, t) => InQueue(q, t) \/ t = job.tile
    BY <1>1, <1>2 DEF InQueue
<1> QED BY <1>1, <1>3, <1>4 DEF p

LEMMA BusyIsFinite ==
    ASSUME NEW d, NEW x
    PROVE  IsFiniteSet(Busy(d, x)) /\ Cardinality(Busy(d, x)) \in Nat
<1>1. IsFiniteSet(Tiles)
    BY DispatchAssumption, FS_Interval DEF Tiles
<1>2. Busy(d, x) \in SUBSET Tiles
    BY DEF Busy
<1> QED BY <1>1, <1>2, FS_Subset, FS_CardinalityType

LEMMA OneMore ==
    ASSUME NEW d, NEW e, NEW x, NEW t, t \notin Busy(d, x), Busy(e, x) = Busy(d, x) \cup {t}
    PROVE  Cardinality(Busy(e, x)) = Cardinality(Busy(d, x)) + 1
BY BusyIsFinite, FS_AddElement

LEMMA OneLess ==
    ASSUME NEW d, NEW e, NEW x, NEW t, t \in Busy(d, x), Busy(e, x) = Busy(d, x) \ {t}
    PROVE  /\ Cardinality(Busy(d, x)) > 0
           /\ Cardinality(Busy(e, x)) = Cardinality(Busy(d, x)) - 1
<1>1. IsFiniteSet(Busy(d, x)) /\ Cardinality(Busy(d, x)) \in Nat
    BY BusyIsFinite
<1>2. Cardinality(Busy(d, x)) # 0
    BY <1>1, FS_EmptySet
<1>3. Cardinality(Busy(d, x) \ {t}) = Cardinality(Busy(d, x)) - 1
    BY <1>1, FS_RemoveElement
<1> QED BY <1>1, <1>2, <1>3

\* Tables with the same entries, as far as the balance goes
SameBooks(d, e) ==
    /\ e.targets = d.targets /\ e.connected = d.connected
    /\ e.queue = d.queue /\ e.pending = d.pending /\ e.owner = d.owner
    /\ e.attempts = d.attempts /\ e.inflight = d.inflight /\ e.sends = d.sends

LEMMA SameBooksBalance ==
    ASSUME NEW d, NEW e, NEW F, SameBooks(d, e), Balanced(d), Returnable(d, F)
    PROVE  Balanced(e) /\ Returnable(e, F)
<1>1. \A x : Busy(e, x) = Busy(d, x)
    BY DEF SameBooks, Busy
<1>2. Balanced(e)
    BY <1>1 DEF SameBooks, Balanced
<1>3. Returnable(e, F)
    BY DEF SameBooks, Returnable
<1> QED BY <1>2, <1>3

\* x gets the head of the queue.
TakesHead(d, e, x) ==
    /\ d.queue # << >> /\ x \in d.targets /\ (x \in Workers => x \in d.connected)
    /\ e.targets = d.targets /\ e.connected = d.connected
    /\ e.queue = Tail(d.queue) /\ e.attempts = d.attempts
    /\ e.pending = [d.pending EXCEPT ![Head(d.queue).tile] = Head(d.queue).render]
    /\ e.owner = [d.owner EXCEPT ![Head(d.queue).tile] = x]
    /\ e.inflight = [d.inflight EXCEPT ![x] = @ + 1]
    /\ e.sends = IF x = MASTER THEN d.sends
                 ELSE [d.sends EXCEPT ![x] = Append(@, Head(d.queue))]

LEMMA DispatchBooks ==
    ASSUME NEW d \in DispatchState, NEW x \in Targets
    PROVE  SameBooks(d, Dispatch(d, x)) \/ TakesHead(d, Dispatch(d, x), x)
<1> DEFINE u == [d EXCEPT !.defer = @ /\ x # MASTER]
           job == Head(d.queue)
           e == HandOut(u, x, job)
<1>1. SameBooks(d, u) /\ SameBooks(d, d)
    BY DEF DispatchState, SameBooks
<1>2. ASSUME d.queue # << >>, Dispatchable(d, x) PROVE TakesHead(d, e, x)
    <2>1. x \in d.targets /\ (x \in Workers => x \in d.connected)
        BY <1>2 DEF Dispatchable
    <2>2. /\ e.targets = d.targets /\ e.connected = d.connected
          /\ e.queue = Tail(d.queue) /\ e.attempts = d.attempts
          /\ e.pending = [d.pending EXCEPT ![job.tile] = job.render]
          /\ e.owner = [d.owner EXCEPT ![job.tile] = x]
          /\ e.inflight = [d.inflight EXCEPT ![x] = @ + 1]
        BY DEF HandOut, Transmit, DispatchState
    <2>3. e.sends = IF x = MASTER THEN d.sends ELSE [d.sends EXCEPT ![x] = Append(@, job)]
        BY DEF HandOut, Transmit, DispatchState
    <2> HIDE DEF e
    <2> QED BY <1>2, <2>1, <2>2, <2>3 DEF TakesHead
<1> HIDE DEF e
<1> QED BY <1>1, <1>2 DEF Dispatch, e

LEMMA TakesHeadBalance ==
    ASSUME NEW d \in DispatchState, NEW e, NEW x \in Targets, NEW F \in SUBSET Workers,
           TakesHead(d, e, x), Balanced(d), Returnable(d, F)
    PROVE  Balanced(e) /\ Returnable(e, F)
<1> DEFINE job == Head(d.queue)
           t == job.tile
<1>1. /\ d.queue \in Seq(Jobs) /\ d.queue # << >> /\ Distinct(d.queue)
      /\ d.pending \in [Tiles -> 0..MaxRenders] /\ d.owner \in [Tiles -> Owners]
      /\ d.attempts \in [Tiles -> Nat] /\ d.inflight \in [Targets -> Nat]
      /\ d.sends \in [Workers -> Seq(Jobs)]
    BY DEF TakesHead, Balanced, DispatchState
<1>2. /\ job \in Jobs /\ Distinct(Tail(d.queue)) /\ InQueue(d.queue, t)
      /\ ~InQueue(Tail(d.queue), t)
      /\ \A k : InQueue(Tail(d.queue), k) => InQueue(d.queue, k)
    BY <1>1, Tailed
<1>3. t \in Tiles /\ job.render # 0
    BY <1>2, DispatchAssumption DEF Jobs, Renders
<1> HIDE DEF job
<1>4. d.owner[t] = NoOwner /\ d.attempts[t] <= MaxRetries
    BY <1>2, <1>3 DEF Balanced
<1>5. e.pending[t] # 0 /\ e.owner[t] = x
    BY <1>1, <1>3 DEF TakesHead, job
<1>6. ASSUME NEW k \in Tiles, k # t
      PROVE  e.pending[k] = d.pending[k] /\ e.owner[k] = d.owner[k]
    BY <1>1, <1>3, <1>6 DEF TakesHead, job
<1>7. NoOwner \notin Targets /\ d.targets \subseteq Targets
    BY DispatchAssumption DEF DispatchState, Targets
<1>8. ASSUME NEW y \in e.targets PROVE e.inflight[y] = Cardinality(Busy(e, y))
    <2>1. y \in d.targets /\ y \in Targets
        BY <1>7, <1>8 DEF TakesHead
    <2>2. d.inflight[y] = Cardinality(Busy(d, y)) /\ t \notin Busy(d, y)
        BY <1>4, <1>7, <2>1 DEF Balanced, Busy
    <2>3. CASE y = x
        <3>1. Busy(e, y) = Busy(d, y) \cup {t}
            BY <1>3, <1>4, <1>5, <1>6, <2>3 DEF Busy, TakesHead
        <3>2. e.inflight[y] = d.inflight[y] + 1
            BY <1>1, <2>1, <2>3 DEF TakesHead
        <3> QED BY <2>2, <3>1, <3>2, OneMore
    <2>4. CASE y # x
        <3>1. Busy(e, y) = Busy(d, y)
            BY <1>5, <1>6, <2>2, <2>4 DEF Busy, TakesHead
        <3>2. e.inflight[y] = d.inflight[y]
            BY <1>1, <2>1, <2>4 DEF TakesHead
        <3> QED BY <2>2, <3>1, <3>2
    <2> QED BY <2>3, <2>4
<1>9. Balanced(e)
    <2>1. ASSUME NEW k \in Tiles
          PROVE  e.pending[k] = 0 => e.owner[k] = NoOwner
        BY <1>5, <1>6 DEF Balanced
    <2>2. ASSUME NEW k \in Tiles, InQueue(e.queue, k)
          PROVE  e.owner[k] = NoOwner /\ e.attempts[k] <= MaxRetries
        <3>1. k # t /\ InQueue(d.queue, k)
            BY <1>2, <2>2 DEF TakesHead
        <3> QED BY <1>6, <3>1 DEF Balanced, TakesHead
    <2>3. ASSUME NEW k \in Tiles, e.attempts[k] > MaxRetries
          PROVE  MaxRetries = 0 /\ e.owner[k] \notin e.targets
        <3>1. d.attempts[k] > MaxRetries
            BY <2>3 DEF TakesHead
        <3>2. k # t
            BY <1>1, <1>3, <1>4, <3>1, DispatchAssumption
        <3> QED BY <1>6, <3>1, <3>2 DEF Balanced, TakesHead
    <2>4. Distinct(e.queue)
        BY <1>2 DEF TakesHead
    <2> QED BY <1>8, <2>1, <2>2, <2>3, <2>4 DEF Balanced
<1>10. Returnable(e, F)
    <2> SUFFICES ASSUME NEW w \in F
                 PROVE  /\ Distinct(e.sends[w])
                        /\ \A k \in Tiles : InQueue(e.sends[w], k) => ~InQueue(e.queue, k)
        BY DEF Returnable
    <2>1. /\ Distinct(d.sends[w]) /\ d.sends[w] \in Seq(Jobs)
          /\ \A k \in Tiles : InQueue(d.sends[w], k) => ~InQueue(d.queue, k)
        BY <1>1 DEF Returnable
    <2>2. e.queue = Tail(d.queue)
        BY DEF TakesHead
    <2>3. CASE w = x
        <3>1. e.sends[w] = Append(d.sends[w], job)
            BY <1>1, <2>3, DispatchAssumption DEF TakesHead, job
        <3>2. ~InQueue(d.sends[w], t)
            BY <1>2, <1>3, <2>1
        <3> QED BY <1>2, <2>1, <2>2, <3>1, <3>2, Appended
    <2>4. CASE w # x
        <3>1. e.sends[w] = d.sends[w]
            BY <1>1, <2>4 DEF TakesHead
        <3> QED BY <1>2, <2>1, <2>2, <3>1
    <2> QED BY <2>3, <2>4
<1> QED BY <1>9, <1>10

LEMMA DispatchBalance ==
    ASSUME NEW d \in DispatchState, NEW x \in Targets, NEW F \in SUBSET Workers,
           Balanced(d), Returnable(d, F)
    PROVE  Balanced(Dispatch(d, x)) /\ Returnable(Dispatch(d, x), F)
BY DispatchBooks, SameBooksBalance, TakesHeadBalance

-----------------------------------------------------------------------------
(* The other calls keep the balance. *)

LEMMA AcceptedBalance ==
    ASSUME s \in DispatchState, NEW t \in Tiles, NEW F \in SUBSET Workers,
           Balanced(s), Returnable(s, F)
    PROVE  /\ Balanced(Accepted(t)) /\ Returnable(Accepted(t), F)
           /\ Accepted(t).targets = s.targets /\ Accepted(t).connected = s.connected
           /\ Accepted(t).queue = s.queue /\ Accepted(t).sends = s.sends
           /\ Accepted(t).attempts = s.attempts
           /\ Accepted(t).pending = [s.pending EXCEPT ![t] = 0]
           /\ Accepted(t).owner = [s.owner EXCEPT ![t] = NoOwner]
<1> DEFINE e == Accepted(t)
<1>1. /\ s.pending \in [Tiles -> 0..MaxRenders] /\ s.owner \in [Tiles -> Owners]
      /\ s.attempts \in [Tiles -> Nat] /\ s.inflight \in [Targets -> Nat]
      /\ s.targets \subseteq Targets
    BY DEF DispatchState
<1>2. /\ e.targets = s.targets /\ e.connected = s.connected /\ e.queue = s.queue
      /\ e.attempts = s.attempts /\ e.sends = s.sends
      /\ e.pending = [s.pending EXCEPT ![t] = 0]
      /\ e.owner = [s.owner EXCEPT ![t] = NoOwner]
      /\ e.inflight = IF s.owner[t] = NoOwner THEN s.inflight
                      ELSE [s.inflight EXCEPT ![s.owner[t]] = Dec(@)]
    BY DEF Accepted, Released, DispatchState
<1> HIDE DEF e
<1>3. e.pending[t] = 0 /\ e.owner[t] = NoOwner
    BY <1>1, <1>2
<1>4. ASSUME NEW k \in Tiles, k # t
      PROVE  e.pending[k] = s.pending[k] /\ e.owner[k] = s.owner[k]
    BY <1>1, <1>2, <1>4
<1>5. NoOwner \notin Targets
    BY DispatchAssumption DEF Targets
<1>6. ASSUME NEW x \in s.targets PROVE e.inflight[x] = Cardinality(Busy(e, x))
    <2>1. x \in Targets /\ s.inflight[x] = Cardinality(Busy(s, x)) /\ s.inflight[x] \in Nat
        BY <1>1 DEF Balanced
    <2>2. CASE s.owner[t] = x
        <3>1. t \in Busy(s, x)
            <4>1. s.pending[t] # 0
                BY <1>5, <2>1, <2>2 DEF Balanced
            <4>2. s.attempts[t] <= MaxRetries
                BY <1>1, <2>2, DispatchAssumption DEF Balanced
            <4> QED BY <2>2, <4>1, <4>2 DEF Busy
        <3>2. Busy(e, x) = Busy(s, x) \ {t}
            BY <1>2, <1>3, <1>4 DEF Busy
        <3>3. e.inflight[x] = Dec(s.inflight[x])
            BY <1>1, <1>2, <1>5, <2>1, <2>2
        <3>4. Cardinality(Busy(s, x)) > 0
              /\ Cardinality(Busy(e, x)) = Cardinality(Busy(s, x)) - 1
            BY <3>1, <3>2, OneLess
        <3> QED BY <2>1, <3>3, <3>4 DEF Dec
    <2>3. CASE s.owner[t] # x
        <3>1. Busy(e, x) = Busy(s, x)
            BY <1>2, <1>3, <1>4, <2>3 DEF Busy
        <3>2. e.inflight[x] = s.inflight[x]
            BY <1>1, <1>2, <2>1, <2>3
        <3> QED BY <2>1, <3>1, <3>2
    <2> QED BY <2>2, <2>3
<1>7. ASSUME NEW k \in Tiles
      PROVE  /\ e.pending[k] = 0 => e.owner[k] = NoOwner
             /\ InQueue(e.queue, k) => e.owner[k] = NoOwner /\ e.attempts[k] <= MaxRetries
             /\ e.attempts[k] > MaxRetries => MaxRetries = 0 /\ e.owner[k] \notin e.targets
    <2>1. /\ s.pending[k] = 0 => s.owner[k] = NoOwner
          /\ InQueue(s.queue, k) => s.owner[k] = NoOwner /\ s.attempts[k] <= MaxRetries
          /\ s.attempts[k] > MaxRetries => MaxRetries = 0 /\ s.owner[k] \notin s.targets
        BY DEF Balanced
    <2>2. CASE k = t
        BY <1>1, <1>2, <1>3, <1>5, <2>1, <2>2
    <2>3. CASE k # t
        BY <1>2, <1>4, <2>1, <2>3
    <2> QED BY <2>2, <2>3
<1>8. Balanced(e)
    BY <1>2, <1>6, <1>7 DEF Balanced
<1>9. Returnable(e, F)
    BY <1>2 DEF Returnable
<1> QED BY <1>2, <1>8, <1>9 DEF e

LEMMA NobodyBusy ==
    ASSUME NEW d, NEW x, \A t \in Tiles : d.pending[t] = 0
    PROVE  Cardinality(Busy(d, x)) = 0
<1>1. Busy(d, x) = {}
    BY DEF Busy
<1> QED BY <1>1, FS_EmptySet

\* Tables as start_distributed_render, cancel_render and reset_runtime_state leave them
Blank(d) ==
    /\ \A t \in Tiles : d.pending[t] = 0 /\ d.owner[t] = NoOwner /\ d.attempts[t] = 0
    /\ \A x \in Targets : d.inflight[x] = 0

LEMMA ClearedIsBlank ==
    ASSUME s \in DispatchState, NEW T \in SUBSET Targets, NEW q \in Seq(Jobs)
    PROVE  LET c == ClearedTables(T, q)
           IN  /\ Blank(c) /\ c.targets = T /\ c.queue = q /\ c.sends = s.sends
               /\ c.connected = s.connected
BY DEF ClearedTables, DispatchState, Blank

LEMMA BlankBalance ==
    ASSUME NEW d \in DispatchState, Blank(d), Distinct(d.queue)
    PROVE  Balanced(d)
<1>1. ASSUME NEW x \in d.targets PROVE d.inflight[x] = Cardinality(Busy(d, x))
    BY NobodyBusy DEF Blank, DispatchState
<1> QED BY <1>1, DispatchAssumption DEF Blank, Balanced

\* From d to e tables change as in one or more calls of _dispatch_next_job_for_target.
Dispatches(d, e) ==
    /\ e.targets = d.targets /\ e.connected = d.connected /\ e.attempts = d.attempts
    /\ \A t \in Tiles : InQueue(e.queue, t) => InQueue(d.queue, t)
    /\ \A t \in Tiles : ~InQueue(d.queue, t)
                            => e.pending[t] = d.pending[t] /\ e.owner[t] = d.owner[t]
    /\ \A w \in Workers : w \notin d.connected => e.sends[w] = d.sends[w]
    /\ d.targets = {} => SameBooks(d, e)

LEMMA DispatchFrame ==
    ASSUME NEW d \in DispatchState, NEW x \in Targets, Balanced(d)
    PROVE  Dispatches(d, Dispatch(d, x))
<1> DEFINE e == Dispatch(d, x)
<1>1. /\ d.queue \in Seq(Jobs) /\ Distinct(d.queue)
      /\ d.pending \in [Tiles -> 0..MaxRenders] /\ d.owner \in [Tiles -> Owners]
      /\ d.sends \in [Workers -> Seq(Jobs)]
    BY DEF Balanced, DispatchState
<1>2. SameBooks(d, e) \/ TakesHead(d, e, x)
    BY DispatchBooks
<1> HIDE DEF e
<1>3. SameBooks(d, e) => Dispatches(d, e)
    BY DEF SameBooks, Dispatches
<1>4. ASSUME TakesHead(d, e, x) PROVE Dispatches(d, e)
    <2> DEFINE job == Head(d.queue)
    <2>1. /\ job \in Jobs /\ InQueue(d.queue, job.tile)
          /\ \A t : InQueue(Tail(d.queue), t) => InQueue(d.queue, t)
        BY <1>1, <1>4, Tailed DEF TakesHead
    <2>2. job.tile \in Tiles
        BY <2>1 DEF Jobs
    <2>3. e.pending = [d.pending EXCEPT ![job.tile] = job.render]
          /\ e.owner = [d.owner EXCEPT ![job.tile] = x]
        BY <1>4 DEF TakesHead
    <2> HIDE DEF job
    <2>4. ASSUME NEW t \in Tiles, ~InQueue(d.queue, t)
          PROVE  e.pending[t] = d.pending[t] /\ e.owner[t] = d.owner[t]
        <3>1. t # job.tile
            BY <2>1, <2>4
        <3> QED BY <1>1, <2>2, <2>3, <3>1
    <2>5. ASSUME NEW w \in Workers, w \notin d.connected PROVE e.sends[w] = d.sends[w]
        BY <1>1, <1>4, <2>5 DEF TakesHead
    <2>6. d.targets # {}
        BY <1>4 DEF TakesHead
    <2> QED BY <1>4, <2>1, <2>4, <2>5, <2>6 DEF Dispatches, TakesHead
<1> QED BY <1>2, <1>3, <1>4 DEF e

LEMMA AcceptedDispatches ==
    ASSUME s \in DispatchState, NEW t \in Tiles, NEW F \in SUBSET Workers,
           Balanced(s), Returnable(s, F),
           s' = IF s.owner[t] = NoOwner THEN Accepted(t)
                ELSE Dispatch(Accepted(t), s.owner[t])
    PROVE  /\ Balanced(s') /\ Returnable(s', F)
           /\ s'.targets = s.targets /\ s'.connected = s.connected
           /\ s'.attempts = s.attempts
           /\ \A k \in Tiles : InQueue(s'.queue, k) => InQueue(s.queue, k)
           /\ \A k \in Tiles : ~InQueue(s.queue, k) => s'.owner[k] \in {NoOwner, s.owner[k]}
           /\ \A w \in Workers : w \notin s.connected => s'.sends[w] = s.sends[w]
           /\ \A k \in Tiles : s'.pending[k] # 0 => s.pending[k] # 0 \/ InQueue(s.queue, k)
<1> DEFINE a == Accepted(t)
<1>1. /\ Balanced(a) /\ Returnable(a, F) /\ a \in DispatchState
      /\ a.targets = s.targets /\ a.connected = s.connected
      /\ a.queue = s.queue /\ a.sends = s.sends /\ a.attempts = s.attempts
      /\ a.pending = [s.pending EXCEPT ![t] = 0]
      /\ a.owner = [s.owner EXCEPT ![t] = NoOwner]
    BY AcceptedBalance, AcceptedMoves
<1> HIDE DEF a
<1>2. s.owner \in [Tiles -> Owners] /\ s.pending \in [Tiles -> 0..MaxRenders]
    BY DEF DispatchState
<1>3. ASSUME NEW k \in Tiles
      PROVE  a.owner[k] \in {NoOwner, s.owner[k]} /\ a.pending[k] \in {0, s.pending[k]}
    BY <1>1, <1>2
<1>4. CASE s.owner[t] = NoOwner
    <2>1. s' = a
        BY <1>4 DEF a
    <2> QED BY <1>1, <1>3, <2>1
<1>5. CASE s.owner[t] # NoOwner
    <2>1. s.owner[t] \in Targets
        BY <1>2, <1>5 DEF Owners
    <2>2. s' = Dispatch(a, s.owner[t])
        BY <1>5 DEF a
    <2>3. Balanced(s') /\ Returnable(s', F)
        BY <1>1, <2>1, <2>2, DispatchBalance
    <2>4. Dispatches(a, s')
        BY <1>1, <2>1, <2>2, DispatchFrame
    <2> QED BY <1>1, <1>3, <2>3, <2>4 DEF Dispatches
<1> QED BY <1>4, <1>5

\* A failed send takes the tile off its owner and puts it back into the queue, where it
\* was not, or gives it up.
LEMMA RequeueBalance ==
    ASSUME NEW d \in DispatchState, NEW job \in Jobs, NEW F \in SUBSET Workers,
           Balanced(d), Returnable(d, F), ~InQueue(d.queue, job.tile),
           \A w \in F : ~InQueue(d.sends[w], job.tile),
           NEW e \in RetryOrRequeue(d, job)
    PROVE  /\ Balanced(e) /\ Returnable(e, F)
           /\ e.targets = d.targets /\ e.connected = d.connected /\ e.attempts = d.attempts
           /\ \A w \in Workers : w \notin d.connected => e.sends[w] = d.sends[w]
<1> DEFINE t == job.tile
           r == Released(d, t)
           u == [r EXCEPT !.owner[t] = NoOwner, !.send_attempts[job] = @ + 1]
           v == [u EXCEPT !.queue = <<job>> \o @]
           g == [u EXCEPT !.pending[t] = 0]
           idle == {x \in v.targets : Idle(v, x)}
<1>1. /\ d.pending \in [Tiles -> 0..MaxRenders] /\ d.owner \in [Tiles -> Owners]
      /\ d.attempts \in [Tiles -> Nat] /\ d.inflight \in [Targets -> Nat]
      /\ d.targets \subseteq Targets /\ d.sends \in [Workers -> Seq(Jobs)]
      /\ d.queue \in Seq(Jobs) /\ NoOwner \notin Targets
      /\ d.send_attempts \in [Jobs -> Nat]
    BY DispatchAssumption DEF DispatchState, Targets
<1>2. t \in Tiles
    BY DEF Jobs
<1>4. /\ r \in DispatchState /\ r.targets = d.targets /\ r.connected = d.connected
      /\ r.queue = d.queue /\ r.pending = d.pending /\ r.owner = d.owner
      /\ r.attempts = d.attempts /\ r.send_attempts = d.send_attempts /\ r.sends = d.sends
      /\ r.inflight = IF d.owner[t] = NoOwner THEN d.inflight
                      ELSE [d.inflight EXCEPT ![d.owner[t]] = Dec(@)]
    <2>1. r \in DispatchState
        BY <1>2, ReleasedType
    <2> QED BY <2>1 DEF Released, DispatchState
<1> HIDE DEF r
<1>5. /\ u \in DispatchState /\ u.targets = d.targets /\ u.connected = d.connected
      /\ u.queue = d.queue /\ u.pending = d.pending /\ u.attempts = d.attempts
      /\ u.sends = d.sends /\ u.inflight = r.inflight
      /\ u.owner = [d.owner EXCEPT ![t] = NoOwner]
      /\ u.send_attempts[job] > 0
    <2>1. NoOwner \in Owners
        BY DEF Owners
    <2>2. /\ [r.owner EXCEPT ![t] = NoOwner] \in [Tiles -> Owners]
          /\ [r.send_attempts EXCEPT ![job] = @ + 1] \in [Jobs -> Nat]
          /\ [r.send_attempts EXCEPT ![job] = @ + 1][job] > 0
        BY <1>1, <1>2, <1>4, <2>1
    <2> QED BY <1>4, <2>2 DEF DispatchState
<1> HIDE DEF u
<1>6. u.owner[t] = NoOwner /\ \A k \in Tiles : k # t => u.owner[k] = d.owner[k]
    BY <1>1, <1>2, <1>5
<1>7. ASSUME NEW x \in d.targets PROVE u.inflight[x] = Cardinality(Busy(u, x))
    <2>1. x \in Targets /\ d.inflight[x] = Cardinality(Busy(d, x)) /\ d.inflight[x] \in Nat
        BY <1>1 DEF Balanced
    <2>2. CASE d.owner[t] = x
        <3>1. t \in Busy(d, x)
            <4>1. d.pending[t] # 0
                BY <1>1, <1>2, <2>1, <2>2 DEF Balanced
            <4>2. d.attempts[t] <= MaxRetries
                BY <1>1, <1>2, <2>2, DispatchAssumption DEF Balanced
            <4> QED BY <1>2, <2>2, <4>1, <4>2 DEF Busy
        <3>2. Busy(u, x) = Busy(d, x) \ {t}
            BY <1>1, <1>5, <1>6, <2>1 DEF Busy
        <3>3. u.inflight[x] = Dec(d.inflight[x])
            BY <1>1, <1>4, <1>5, <2>1, <2>2
        <3>4. Cardinality(Busy(d, x)) > 0
              /\ Cardinality(Busy(u, x)) = Cardinality(Busy(d, x)) - 1
            BY <3>1, <3>2, OneLess
        <3> QED BY <2>1, <3>3, <3>4 DEF Dec
    <2>3. CASE d.owner[t] # x
        <3>1. Busy(u, x) = Busy(d, x)
            BY <1>1, <1>5, <1>6, <2>1, <2>3 DEF Busy
        <3>2. u.inflight[x] = d.inflight[x]
            BY <1>1, <1>4, <1>5, <2>1, <2>3
        <3> QED BY <2>1, <3>1, <3>2
    <2> QED BY <2>2, <2>3
<1>8. ASSUME NEW k \in Tiles
      PROVE  /\ u.pending[k] = 0 => u.owner[k] = NoOwner
             /\ InQueue(u.queue, k) => u.owner[k] = NoOwner /\ u.attempts[k] <= MaxRetries
             /\ u.attempts[k] > MaxRetries => MaxRetries = 0 /\ u.owner[k] \notin u.targets
    <2>1. /\ d.pending[k] = 0 => d.owner[k] = NoOwner
          /\ InQueue(d.queue, k) => d.owner[k] = NoOwner /\ d.attempts[k] <= MaxRetries
          /\ d.attempts[k] > MaxRetries => MaxRetries = 0 /\ d.owner[k] \notin d.targets
        BY DEF Balanced
    <2> QED BY <1>1, <1>5, <1>6, <2>1
<1>9. ASSUME NEW w \in F
      PROVE  /\ Distinct(u.sends[w]) /\ ~InQueue(u.sends[w], t)
             /\ \A k \in Tiles : InQueue(u.sends[w], k) => ~InQueue(u.queue, k)
    BY <1>5, <1>9 DEF Returnable
<1>11. CASE e = g
    <2>1. /\ g.targets = u.targets /\ g.connected = u.connected /\ g.queue = u.queue
          /\ g.attempts = u.attempts /\ g.sends = u.sends /\ g.owner = u.owner
          /\ g.inflight = u.inflight /\ g.pending = [u.pending EXCEPT ![t] = 0]
        BY <1>5 DEF DispatchState
    <2> HIDE DEF g
    <2>2. g.pending[t] = 0 /\ \A k \in Tiles : k # t => g.pending[k] = u.pending[k]
        BY <1>1, <1>2, <1>5, <2>1
    <2>3. ASSUME NEW x \in g.targets PROVE g.inflight[x] = Cardinality(Busy(g, x))
        <3>1. Busy(g, x) = Busy(u, x)
            BY <1>1, <1>5, <1>6, <2>1, <2>2 DEF Busy
        <3> QED BY <1>5, <1>7, <2>1, <3>1
    <2>4. Balanced(g)
        BY <1>5, <1>6, <1>8, <2>1, <2>2, <2>3 DEF Balanced
    <2>5. Returnable(g, F)
        BY <1>9, <2>1 DEF Returnable
    <2> QED BY <1>5, <1>11, <2>1, <2>4, <2>5
<1>12. CASE ~StopsResending(u.send_attempts[job])
            /\ (e = v \/ \E x \in Foremost(idle) : e = Dispatch(v, x))
    <2>1. MaxRetries # 0
        BY <1>5, <1>12 DEF StopsResending
    <2>2. v \in DispatchState
        <3>1. <<job>> \in Seq(Jobs) /\ u.queue \in Seq(Jobs)
            BY <1>2, <1>5 DEF DispatchState
        <3>2. <<job>> \o u.queue \in Seq(Jobs)
            BY <3>1
        <3> QED BY <1>5, <3>2 DEF DispatchState
    <2>3. /\ v.targets = u.targets /\ v.connected = u.connected /\ v.pending = u.pending
          /\ v.attempts = u.attempts /\ v.sends = u.sends /\ v.owner = u.owner
          /\ v.inflight = u.inflight /\ v.queue = <<job>> \o u.queue
        BY <1>5 DEF DispatchState
    <2> HIDE DEF v
    <2>5. /\ Distinct(v.queue)
          /\ \A k : InQueue(v.queue, k) => InQueue(u.queue, k) \/ k = t
        BY <1>1, <1>5, <2>3, Prefixed DEF Balanced
    <2>6. \A x : Busy(v, x) = Busy(u, x)
        BY <2>3 DEF Busy
    <2>7. ASSUME NEW k \in Tiles
          PROVE  /\ v.pending[k] = 0 => v.owner[k] = NoOwner
                 /\ InQueue(v.queue, k) => v.owner[k] = NoOwner /\ v.attempts[k] <= MaxRetries
                 /\ v.attempts[k] > MaxRetries => MaxRetries = 0 /\ v.owner[k] \notin v.targets
        <3>1. v.attempts[k] \in Nat
            BY <2>2 DEF DispatchState
        <3> QED BY <1>6, <1>8, <2>1, <2>3, <2>5, <3>1, DispatchAssumption
    <2>8. Balanced(v)
        BY <1>5, <1>7, <2>3, <2>5, <2>6, <2>7 DEF Balanced
    <2>9. Returnable(v, F)
        BY <1>9, <2>3, <2>5 DEF Returnable
    <2>10. CASE e = v
        BY <1>5, <2>3, <2>8, <2>9, <2>10
    <2>11. CASE \E x \in Foremost(idle) : e = Dispatch(v, x)
        <3>1. PICK x \in Foremost(idle) : e = Dispatch(v, x)
            BY <2>11
        <3>2. x \in Targets
            BY <2>2 DEF Foremost, DispatchState
        <3>3. Balanced(e) /\ Returnable(e, F)
            BY <2>2, <2>8, <2>9, <3>1, <3>2, DispatchBalance
        <3>4. Dispatches(v, e)
            BY <2>2, <2>8, <3>1, <3>2, DispatchFrame
        <3> QED BY <1>5, <2>3, <3>3, <3>4 DEF Dispatches
    <2> QED BY <1>12, <2>10, <2>11
<1>13. ASSUME StopsResending(u.send_attempts[job]) PROVE e = g
    BY <1>13 DEF RetryOrRequeue, u, r
<1>14. ASSUME ~StopsResending(u.send_attempts[job])
       PROVE  e = v \/ \E x \in Foremost(idle) : e = Dispatch(v, x)
    BY <1>14 DEF RetryOrRequeue, u, r
<1> QED BY <1>11, <1>12, <1>13, <1>14

\* The send at the head of those of b has been taken off.
SendTaken(c, d, b) ==
    /\ d.targets = c.targets /\ d.connected = c.connected
    /\ d.queue = c.queue /\ d.pending = c.pending /\ d.owner = c.owner
    /\ d.attempts = c.attempts /\ d.inflight = c.inflight
    /\ d.sends = [c.sends EXCEPT ![b] = Tail(@)]

\* b is the only worker whose sends can fail that still has any.
LEMMA RetryBalance ==
    ASSUME NEW c \in DispatchState, NEW F \in SUBSET Workers, NEW b \in F,
           c.sends[b] # << >>, \A w \in F : w # b => c.sends[w] = << >>,
           Balanced(c), Returnable(c, F),
           NEW d \in DispatchState, SendTaken(c, d, b),
           NEW job, job = Head(c.sends[b]), NEW e, e \in RetryOrRequeue(d, job)
    PROVE  /\ Balanced(e) /\ Returnable(e, F)
           /\ e.targets = c.targets /\ e.connected = c.connected /\ e.attempts = c.attempts
           /\ \A w \in Workers : w \notin c.connected /\ w # b => e.sends[w] = c.sends[w]
<1>1. c.sends \in [Workers -> Seq(Jobs)]
    BY DEF DispatchState
<1>2. /\ job \in Jobs /\ InQueue(c.sends[b], job.tile)
      /\ Distinct(Tail(c.sends[b])) /\ Tail(c.sends[b]) \in Seq(Jobs)
      /\ ~InQueue(Tail(c.sends[b]), job.tile)
      /\ \A k : InQueue(Tail(c.sends[b]), k) => InQueue(c.sends[b], k)
    <2> DEFINE q == c.sends[b]
    <2>1. q \in Seq(Jobs) /\ q # << >> /\ Distinct(q)
        BY <1>1 DEF Returnable
    <2> HIDE DEF q
    <2>2. /\ Head(q) \in Jobs /\ InQueue(q, Head(q).tile)
          /\ Distinct(Tail(q)) /\ Tail(q) \in Seq(Jobs) /\ ~InQueue(Tail(q), Head(q).tile)
          /\ \A k : InQueue(Tail(q), k) => InQueue(q, k)
        BY <2>1, Tailed
    <2> QED BY <2>2 DEF q
<1>3. /\ d.targets = c.targets /\ d.connected = c.connected
      /\ d.queue = c.queue /\ d.pending = c.pending /\ d.owner = c.owner
      /\ d.attempts = c.attempts /\ d.inflight = c.inflight
      /\ d.sends = [c.sends EXCEPT ![b] = Tail(@)]
    BY DEF SendTaken
<1>5. Balanced(d)
    <2>1. \A x : Busy(d, x) = Busy(c, x)
        BY <1>3 DEF Busy
    <2> QED BY <1>3, <2>1 DEF Balanced
<1>6. ASSUME NEW w \in F
      PROVE  /\ Distinct(d.sends[w]) /\ ~InQueue(d.sends[w], job.tile)
             /\ \A k \in Tiles : InQueue(d.sends[w], k) => ~InQueue(d.queue, k)
    <2>1. CASE w = b
        BY <1>1, <1>2, <1>3, <2>1 DEF Returnable
    <2>2. CASE w # b
        <3>1. d.sends[w] = << >>
            BY <1>1, <1>3, <2>2
        <3> QED BY <3>1 DEF Distinct, InQueue
    <2> QED BY <2>1, <2>2
<1>7. Returnable(d, F)
    BY <1>6 DEF Returnable
<1>8. ~InQueue(d.queue, job.tile)
    BY <1>2, <1>3 DEF Returnable, Jobs
<1>9. \A w \in Workers : w # b => d.sends[w] = c.sends[w]
    BY <1>1, <1>3
<1>10. \A w \in F : ~InQueue(d.sends[w], job.tile)
    BY <1>6
<1>11. /\ Balanced(e) /\ Returnable(e, F)
       /\ e.targets = d.targets /\ e.connected = d.connected /\ e.attempts = d.attempts
       /\ \A w \in Workers : w \notin d.connected => e.sends[w] = d.sends[w]
    <2>1. job \in Jobs
        BY <1>2
    <2> QED BY <2>1, <1>5, <1>7, <1>8, <1>10, RequeueBalance
<1> QED BY <1>3, <1>9, <1>11

\* The tile of a lost worker goes to another one: it was in no target's count, and is in
\* one count at most from now on.
LEMMA ReassignBalance ==
    ASSUME NEW d \in DispatchState, NEW t \in Tiles, NEW F \in SUBSET Workers,
           Balanced(d), Returnable(d, F),
           ~InQueue(d.queue, t), d.attempts[t] = 0, d.owner[t] \notin d.targets,
           \A w \in F : w \notin d.connected \cap d.targets,
           NEW e \in ReassignTile(d, t)
    PROVE  /\ Balanced(e) /\ Returnable(e, F)
           /\ e.targets = d.targets /\ e.connected = d.connected /\ e.queue = d.queue
           /\ \A k \in Tiles : k # t => e.attempts[k] = d.attempts[k] /\ e.owner[k] = d.owner[k]
           /\ \A w \in Workers : w \notin d.connected => e.sends[w] = d.sends[w]
<1> DEFINE r == Released(d, t)
           u == [r EXCEPT !.attempts[t] = @ + 1]
           C == Candidates(d, d.owner[t])
           best == LeastLoaded(u, C)
           Given(x) == [u EXCEPT !.owner[t] = x, !.inflight[x] = @ + 1]
           job == JobOf(d.pending[t], t)
<1>1. CASE e = d
    BY <1>1
<1> HIDE DEF r, u, C, best, Given, job
<1>2. ASSUME d.pending[t] # 0,
             \/ e = u
             \/ /\ ~StopsReassigning(u.attempts[t])
                /\ \E x \in best : e = Transmit(Given(x), x, job)
      PROVE  /\ Balanced(e) /\ Returnable(e, F)
             /\ e.targets = d.targets /\ e.connected = d.connected /\ e.queue = d.queue
             /\ \A k \in Tiles : k # t => e.attempts[k] = d.attempts[k] /\ e.owner[k] = d.owner[k]
             /\ \A w \in Workers : w \notin d.connected => e.sends[w] = d.sends[w]
    <2>1. /\ d.pending \in [Tiles -> 0..MaxRenders] /\ d.owner \in [Tiles -> Owners]
          /\ d.attempts \in [Tiles -> Nat] /\ d.inflight \in [Targets -> Nat]
          /\ d.targets \subseteq Targets /\ d.sends \in [Workers -> Seq(Jobs)]
          /\ MASTER \notin Workers
        BY DispatchAssumption DEF DispatchState
    <2>0. d.pending[t] # 0
        BY <1>2
    <2>2. /\ r \in DispatchState /\ r.targets = d.targets /\ r.connected = d.connected
          /\ r.queue = d.queue /\ r.pending = d.pending /\ r.owner = d.owner
          /\ r.attempts = d.attempts /\ r.sends = d.sends
          /\ r.inflight = IF d.owner[t] = NoOwner THEN d.inflight
                          ELSE [d.inflight EXCEPT ![d.owner[t]] = Dec(@)]
        <3>1. r \in DispatchState
            BY ReleasedType DEF r
        <3> QED BY <3>1 DEF Released, DispatchState, r
    <2>3. \A y \in d.targets : r.inflight[y] = d.inflight[y]
        BY <2>1, <2>2
    <2>4. /\ u \in DispatchState /\ u.targets = d.targets /\ u.connected = d.connected
          /\ u.queue = d.queue /\ u.pending = d.pending /\ u.owner = d.owner
          /\ u.sends = d.sends /\ u.inflight = r.inflight
          /\ u.attempts = [d.attempts EXCEPT ![t] = @ + 1]
        <3>1. [r.attempts EXCEPT ![t] = @ + 1] \in [Tiles -> Nat]
            BY <2>1, <2>2
        <3> QED BY <2>2, <3>1 DEF DispatchState, u
    <2>5. u.attempts[t] = 1 /\ \A k \in Tiles : k # t => u.attempts[k] = d.attempts[k]
        BY <2>1, <2>4
    <2>6. ASSUME NEW f, f.targets = d.targets, f.queue = d.queue, f.pending = d.pending,
                 f.attempts = u.attempts, f.owner[t] \notin d.targets \/ MaxRetries # 0,
                 \A k \in Tiles : k # t => f.owner[k] = d.owner[k],
                 \A y \in d.targets : f.inflight[y] = Cardinality(Busy(f, y))
          PROVE  Balanced(f)
        <3>1. ASSUME NEW k \in Tiles
              PROVE  /\ f.pending[k] = 0 => f.owner[k] = NoOwner
                     /\ InQueue(f.queue, k)
                            => f.owner[k] = NoOwner /\ f.attempts[k] <= MaxRetries
                     /\ f.attempts[k] > MaxRetries
                            => MaxRetries = 0 /\ f.owner[k] \notin f.targets
            <4>1. /\ d.pending[k] = 0 => d.owner[k] = NoOwner
                  /\ InQueue(d.queue, k) => d.owner[k] = NoOwner /\ d.attempts[k] <= MaxRetries
                  /\ d.attempts[k] > MaxRetries => MaxRetries = 0 /\ d.owner[k] \notin d.targets
                BY DEF Balanced
            <4>2. CASE k = t
                <5>1. f.pending[t] # 0 /\ ~InQueue(f.queue, t) /\ f.attempts[t] = 1
                    BY <2>0, <2>5, <2>6
                <5>2. 1 > MaxRetries => MaxRetries = 0
                    BY DispatchAssumption
                <5> QED BY <2>6, <4>2, <5>1, <5>2
            <4>3. CASE k # t
                BY <2>5, <2>6, <4>1, <4>3
            <4> QED BY <4>2, <4>3
        <3> QED BY <2>6, <3>1 DEF Balanced
    <2>7. CASE e = u
        <3>1. ASSUME NEW y \in d.targets PROVE u.inflight[y] = Cardinality(Busy(u, y))
            <4>1. Busy(u, y) = Busy(d, y)
                BY <2>4, <2>5 DEF Busy
            <4> QED BY <2>3, <2>4, <4>1 DEF Balanced
        <3>2. Balanced(u)
            BY <2>4, <2>6, <3>1
        <3>3. Returnable(u, F)
            BY <2>4 DEF Returnable
        <3> QED BY <2>4, <2>5, <2>7, <3>2, <3>3
    <2>8. ASSUME NEW x \in best, e = Transmit(Given(x), x, job), ~StopsReassigning(u.attempts[t])
          PROVE  /\ Balanced(e) /\ Returnable(e, F)
                 /\ e.targets = d.targets /\ e.connected = d.connected /\ e.queue = d.queue
                 /\ \A k \in Tiles : k # t => e.attempts[k] = d.attempts[k]
                                              /\ e.owner[k] = d.owner[k]
                 /\ \A w \in Workers : w \notin d.connected => e.sends[w] = d.sends[w]
        <3>1. x \in C
            BY DEF LeastLoaded, Foremost, best
        <3>2. x = MASTER \/ (x \in Workers /\ x \in d.connected /\ x \in d.targets)
            BY <3>1 DEF Candidates, DispatchState, C
        <3>3. x \in Targets
            BY <3>2 DEF Targets
        <3>4. /\ e.targets = u.targets /\ e.connected = u.connected /\ e.queue = u.queue
              /\ e.pending = u.pending /\ e.attempts = u.attempts
              /\ e.owner = [u.owner EXCEPT ![t] = x]
              /\ e.inflight = [u.inflight EXCEPT ![x] = @ + 1]
              /\ e.sends = IF x = MASTER THEN u.sends
                           ELSE [u.sends EXCEPT ![x] = Append(@, job)]
            BY <2>4, <2>8 DEF Transmit, DispatchState, Given
        <3>5. e.owner[t] = x /\ \A k \in Tiles : k # t => e.owner[k] = d.owner[k]
            BY <2>1, <2>4, <3>4
        <3>6. MaxRetries # 0 /\ 1 <= MaxRetries
            BY <2>5, <2>8, DispatchAssumption DEF StopsReassigning
        <3>7. ASSUME NEW y \in d.targets PROVE e.inflight[y] = Cardinality(Busy(e, y))
            <4>1. y \in Targets /\ d.inflight[y] = Cardinality(Busy(d, y))
                  /\ u.inflight[y] = d.inflight[y] /\ d.inflight[y] \in Nat
                BY <2>1, <2>3, <2>4 DEF Balanced
            <4>2. t \notin Busy(d, y)
                BY DEF Busy
            <4>3. CASE y = x
                <5>1. t \in Busy(e, y)
                    BY <2>0, <2>4, <2>5, <3>4, <3>5, <3>6, <4>3 DEF Busy
                <5>3. ASSUME NEW k \in Tiles, k # t
                      PROVE  k \in Busy(e, y) <=> k \in Busy(d, y)
                    BY <2>4, <2>5, <3>4, <3>5, <5>3 DEF Busy
                <5>4. Busy(e, y) \subseteq Tiles /\ Busy(d, y) \subseteq Tiles
                    BY DEF Busy
                <5>5. Busy(e, y) = Busy(d, y) \cup {t}
                    BY <5>1, <5>3, <5>4
                <5>2. e.inflight[y] = d.inflight[y] + 1
                    BY <2>4, <3>3, <3>4, <4>1, <4>3 DEF DispatchState
                <5>6. Cardinality(Busy(e, y)) = Cardinality(Busy(d, y)) + 1
                    BY <4>2, <5>5, OneMore
                <5> QED BY <4>1, <5>2, <5>6
            <4>4. CASE y # x
                <5>1. Busy(e, y) = Busy(d, y)
                    BY <2>4, <2>5, <3>4, <3>5, <4>2, <4>4 DEF Busy
                <5>2. e.inflight[y] = d.inflight[y]
                    BY <2>4, <3>4, <4>1, <4>4 DEF DispatchState
                <5> QED BY <4>1, <5>1, <5>2
            <4> QED BY <4>3, <4>4
        <3>8. Balanced(e)
            BY <2>4, <2>6, <3>4, <3>5, <3>6, <3>7
        <3>9. \A w \in Workers : w \notin d.connected \/ w \in F => e.sends[w] = d.sends[w]
            BY <2>1, <2>4, <3>2, <3>4
        <3>10. Returnable(e, F)
            BY <2>4, <3>4, <3>9 DEF Returnable
        <3> QED BY <2>4, <2>5, <3>4, <3>5, <3>8, <3>9, <3>10
    <2> QED BY <1>2, <2>7, <2>8
<1>3. d.pending[t] = 0 => e = d
    BY DEF ReassignTile
<1>4. ASSUME d.pending[t] # 0, StopsReassigning(u.attempts[t]) \/ best = {} PROVE e = u
    BY <1>4 DEF ReassignTile, r, u, C, best
<1>5. ASSUME d.pending[t] # 0, best # {}
      PROVE  \/ e = u /\ StopsReassigning(u.attempts[t])
             \/ \E x \in best : e = Transmit(Given(x), x, job)
    BY <1>5 DEF ReassignTile, r, u, C, best, Given, job
<1> QED BY <1>1, <1>2, <1>3, <1>4, <1>5

-----------------------------------------------------------------------------
(* Two losses in one render, a kick being one too, or one that the next render meets  *)
(* make the same tile queued twice: two sends of it fail. A render that fails on a    *)
(* node makes a tile reassigned that is queued. A new start of the server empties the *)
(* tables and leaves the counts. The count is right short of that.                    *)

AtMostOneLoss ==
    /\ Events \subseteq EventNames \ {"kick", "render_failure", "restart"}
    /\ MaxDrops <= 1
    /\ MaxDrops = 1 => MaxRenders = 1

\* w is lost or has taken over, and something of it is left to handle: it is connected
\* without a socket or has a socket without being connected, sends to it are left, or its
\* departure is being handled.
Gone(w) ==
    \/ sock[w] /\ w \notin s.connected
    \/ ~sock[w] /\ (w \in s.connected \/ s.sends[w] # << >>)
    \/ loop.pc # "idle" /\ loop.worker = w

\* Workers whose sends fail or may come to fail
Failing == {w \in Workers : drops < MaxDrops \/ Gone(w)}

OneGone ==
    /\ drops <= MaxDrops
    /\ drops = 0 => \A w \in Workers : ~Gone(w)
    /\ \A v, w \in Workers : Gone(v) /\ Gone(w) => v = w
    /\ loop.pc # "idle" => loop.worker \in Workers

\* A tile is reassigned once, by the handler of the one lost worker: it is in no count and
\* not in the queue when its turn comes.
Once ==
    /\ loop.pc # "reassign" => loop.tiles = {}
    /\ loop.tiles # {} => loop.worker \notin s.targets
    /\ \A t \in loop.tiles : /\ ~InQueue(s.queue, t)
                             /\ s.owner[t] \in {NoOwner, loop.worker}
                             /\ s.attempts[t] = 0
    /\ drops = 0 \/ (loop.pc = "idle" /\ \E w \in s.connected : ~sock[w])
            => \A t \in Tiles : s.attempts[t] = 0

Counting == Balanced(s) /\ Returnable(s, Failing) /\ OneGone /\ Once

AllSucceed ==
    /\ \A i \in 1..Len(result_queue) : result_queue[i].ok = TRUE
    /\ \A w \in Workers, r \in Results : transit[w][r] > 0 => r.ok = TRUE

\* Before the first render the tables are empty.
Fresh ==
    render = 0 => /\ s.targets = {} /\ s.queue = << >> /\ loop.tiles = {}
                  /\ \A t \in Tiles : s.pending[t] = 0
                  /\ \A w \in Workers : s.sends[w] = << >>

CountInv == Counting /\ AllSucceed /\ Fresh /\ server = "up"

LEMMA FewerFail ==
    ASSUME TypeInv, UNCHANGED drops, NEW e, Returnable(e, Failing),
           \A w \in Workers : Gone(w)' => Gone(w)
    PROVE  Returnable(e, Failing') /\ (OneGone /\ (loop'.pc # "idle" => loop'.worker \in Workers)
                                          => OneGone')
<1>1. Failing' \subseteq Failing
    BY DEF Failing
<1>2. Returnable(e, Failing')
    BY <1>1 DEF Returnable
<1>3. OneGone /\ (loop'.pc # "idle" => loop'.worker \in Workers) => OneGone'
    BY DEF OneGone
<1> QED BY <1>2, <1>3

\* A step in which no connection and no departure changes
LEMMA QuietStep ==
    ASSUME TypeInv, Counting, Balanced(s'), Returnable(s', Failing),
           UNCHANGED <<sock, drops>>,
           loop'.pc = loop.pc, loop'.worker = loop.worker, loop'.tiles = loop.tiles,
           s'.connected = s.connected, s'.targets \subseteq s.targets,
           \A k \in Tiles : s'.attempts[k] \in {0, s.attempts[k]},
           \A k \in loop.tiles : /\ ~InQueue(s'.queue, k)
                                 /\ s'.owner[k] \in {NoOwner, s.owner[k]},
           \A w \in Workers : s'.sends[w] # << >> => s.sends[w] # << >> \/ w \in s.connected
    PROVE  Counting'
<1>1. loop.tiles \subseteq Tiles
    BY DEF TypeInv, TypeOK
<1>2. \A w \in Workers : Gone(w)' => Gone(w)
    BY DEF Gone
<1>3. loop.pc # "idle" => loop.worker \in Workers
    BY DEF OneGone, Counting
<1>4. OneGone' /\ Returnable(s', Failing')
    BY <1>2, <1>3, FewerFail DEF Counting
<1>5. Once'
    BY <1>1 DEF Once, Counting
<1> QED BY <1>4, <1>5 DEF Counting

LEMMA SameBooksStep ==
    ASSUME TypeInv, Counting, SameBooks(s, s'), UNCHANGED <<sock, drops>>,
           loop'.pc = loop.pc, loop'.worker = loop.worker, loop'.tiles = loop.tiles
    PROVE  Counting' /\ (Fresh /\ render' = render => Fresh')
<1>1. Balanced(s') /\ Returnable(s', Failing)
    BY SameBooksBalance DEF Counting
<1>2. loop.tiles \subseteq Tiles
    BY DEF TypeInv, TypeOK
<1>3. Counting'
    BY <1>1, <1>2, QuietStep DEF SameBooks, Counting, Once
<1>4. Fresh /\ render' = render => Fresh'
    BY DEF SameBooks, Fresh
<1> QED BY <1>3, <1>4

\* A call of _dispatch_next_job_for_target
LEMMA DispatchStep ==
    ASSUME TypeInv, Counting, Fresh, NEW x \in Targets, s' = Dispatch(s, x),
           UNCHANGED <<sock, drops, render>>,
           loop'.pc = loop.pc, loop'.worker = loop.worker, loop'.tiles = loop.tiles
    PROVE  Counting' /\ Fresh'
<1>1. s \in DispatchState /\ loop.tiles \subseteq Tiles /\ Failing \in SUBSET Workers
    BY DEF TypeInv, TypeOK, Failing
<1>2. Balanced(s) /\ Returnable(s, Failing)
    BY DEF Counting
<1>3. Balanced(s') /\ Returnable(s', Failing)
    BY <1>1, <1>2, DispatchBalance
<1>4. Dispatches(s, s')
    BY <1>1, <1>2, DispatchFrame
<1>5. \A k \in loop.tiles : ~InQueue(s.queue, k)
    BY DEF Counting, Once
<1>6. Counting'
    BY <1>1, <1>3, <1>4, <1>5, QuietStep DEF Dispatches
<1>7. Fresh'
    <2>1. CASE s.targets = {}
        BY <1>4, <2>1 DEF Dispatches, SameBooks, Fresh
    <2>2. CASE s.targets # {}
        BY <2>2 DEF Fresh
    <2> QED BY <2>1, <2>2
<1> QED BY <1>6, <1>7

LEMMA ConsumeStep ==
    ASSUME TypeInv, CountInv, ConsumeResult
    PROVE  Counting' /\ Fresh'
<1> DEFINE r == Head(result_queue)
           t == r.job.tile
<1>1. /\ s \in DispatchState /\ result_queue \in Seq(Results) /\ result_queue # << >>
      /\ loop.tiles \subseteq Tiles /\ Failing \in SUBSET Workers
      /\ UNCHANGED <<sock, drops, render, loop>>
    BY DEF ConsumeResult, TypeInv, TypeOK, workerVars, Failing
<1>2. r \in Results /\ r.ok = TRUE
    BY <1>1 DEF CountInv, AllSucceed
<1>3. t \in Tiles
    BY <1>2 DEF Results, Jobs
<1>4. Counting /\ Fresh /\ Balanced(s) /\ Returnable(s, Failing)
    BY DEF CountInv, Counting
<1>5. CASE s' = s
    <2>1. SameBooks(s, s')
        BY <1>5 DEF SameBooks
    <2> QED BY <1>1, <1>4, <2>1, SameBooksStep
<1>6. ASSUME s.pending[t] # 0,
             s' = IF s.owner[t] = NoOwner THEN Accepted(t) ELSE Dispatch(Accepted(t), s.owner[t])
      PROVE  Counting' /\ Fresh'
    <2>1. /\ Balanced(s') /\ Returnable(s', Failing)
          /\ s'.targets = s.targets /\ s'.connected = s.connected
          /\ s'.attempts = s.attempts
          /\ \A k \in Tiles : InQueue(s'.queue, k) => InQueue(s.queue, k)
          /\ \A k \in Tiles : ~InQueue(s.queue, k) => s'.owner[k] \in {NoOwner, s.owner[k]}
          /\ \A w \in Workers : w \notin s.connected => s'.sends[w] = s.sends[w]
        BY <1>1, <1>3, <1>4, <1>6, AcceptedDispatches
    <2>2. \A k \in loop.tiles : ~InQueue(s.queue, k)
        BY <1>4 DEF Counting, Once
    <2>3. Counting'
        BY <1>1, <1>4, <2>1, <2>2, QuietStep
    <2>4. render # 0
        BY <1>3, <1>4, <1>6 DEF Fresh
    <2> QED BY <1>1, <2>3, <2>4 DEF Fresh
<1> HIDE DEF r, t
<1>7. \/ s' = s
      \/ /\ s.pending[t] # 0
         /\ s' = IF s.owner[t] = NoOwner THEN Accepted(t) ELSE Dispatch(Accepted(t), s.owner[t])
    BY <1>2 DEF ConsumeResult, r, t
<1> QED BY <1>5, <1>6, <1>7

\* cancel_render and reset_runtime_state
LEMMA ClearStep ==
    ASSUME TypeInv, CountInv, CancelRender \/ ResetRuntime
    PROVE  Counting' /\ Fresh'
<1>1. /\ s \in DispatchState /\ Failing \in SUBSET Workers
      /\ loop.tiles \subseteq Tiles
      /\ UNCHANGED <<sock, drops, render, loop>>
    BY DEF CancelRender, ResetRuntime, TypeInv, TypeOK, workerVars, Failing
<1>2. Counting /\ Fresh /\ Returnable(s, Failing)
    BY DEF CountInv, Counting
<1>3. s.targets \in SUBSET Targets /\ << >> \in Seq(Jobs) /\ s' \in DispatchState
    <2>1. TypeOK'
        BY TypeStep DEF Next, UserStep, TypeInv
    <2> QED BY <1>1, <2>1 DEF DispatchState, TypeOK
<1>4. PICK T \in SUBSET Targets : /\ T \subseteq s.targets
                                  /\ SameBooks(ClearedTables(T, << >>), s')
    <2>1. \A T \in SUBSET Targets : ClearedTables(T, << >>) \in DispatchState
        BY <1>1, <1>3, ClearedTablesType
    <2>2. CASE CancelRender
        <3>1. SameBooks(ClearedTables(s.targets, << >>), s')
            <4> DEFINE c == ClearedTables(s.targets, << >>)
            <4>1. c \in DispatchState /\ s' = [c EXCEPT !.abort = TRUE]
                BY <1>3, <2>1, <2>2 DEF CancelRender
            <4> HIDE DEF c
            <4>2. SameBooks(c, s')
                BY <4>1 DEF SameBooks, DispatchState
            <4> QED BY <4>2 DEF c
        <3> QED BY <1>3, <3>1
    <2>3. CASE ResetRuntime
        <3>1. SameBooks(ClearedTables({}, << >>), s')
            <4> DEFINE c == ClearedTables({}, << >>)
            <4>1. c \in DispatchState /\ s' = [c EXCEPT !.defer = FALSE]
                BY <2>1, <2>3 DEF ResetRuntime
            <4> HIDE DEF c
            <4>2. SameBooks(c, s')
                BY <4>1 DEF SameBooks, DispatchState
            <4> QED BY <4>2 DEF c
        <3> QED BY <3>1
    <2> QED BY <2>2, <2>3
<1>5. /\ Blank(s') /\ s'.targets \subseteq s.targets /\ s'.queue = << >>
      /\ s'.sends = s.sends /\ s'.connected = s.connected
    <2> DEFINE c == ClearedTables(T, << >>)
    <2>1. /\ Blank(c) /\ c.targets = T /\ c.queue = << >> /\ c.sends = s.sends
          /\ c.connected = s.connected
        BY <1>1, <1>3, ClearedIsBlank
    <2> HIDE DEF c
    <2>2. SameBooks(c, s')
        BY <1>4 DEF c
    <2> QED BY <1>4, <2>1, <2>2 DEF SameBooks, Blank
<1>6. Balanced(s')
    <2>1. Distinct(s'.queue)
        BY <1>5 DEF Distinct
    <2> QED BY <1>3, <1>5, <2>1, BlankBalance
<1>7. Returnable(s', Failing)
    BY <1>2, <1>5 DEF Returnable, InQueue
<1>8. \A k \in Tiles : ~InQueue(s'.queue, k)
    BY <1>5 DEF InQueue
<1>9. Counting'
    BY <1>1, <1>2, <1>5, <1>6, <1>7, <1>8, QuietStep DEF Blank
<1>10. Fresh'
    BY <1>1, <1>2, <1>5 DEF Fresh, Blank
<1> QED BY <1>9, <1>10

\* start_distributed_render: sends under way are of an earlier render, and none of them can
\* fail.
LEMMA StartStep ==
    ASSUME AtMostOneLoss, TypeInv, CountInv, StartChecked
    PROVE  Counting' /\ Fresh'
<1> DEFINE q == IF main.todo = {} THEN << >> ELSE [t \in Tiles |-> JobOf(render', t)]
           c == ClearedTables(main.todo, q)
<1>1. /\ s \in DispatchState /\ main.todo \in SUBSET Targets /\ render \in 0..MaxRenders
      /\ loop.tiles \subseteq Tiles /\ drops \in Nat
      /\ render' = render + 1 /\ render < MaxRenders
      /\ UNCHANGED <<sock, drops, loop>>
    BY DEF StartChecked, TypeInv, TypeOK, StartBound, workerVars
<1>2. render' \in Renders /\ render' # 0
    BY <1>1, DispatchAssumption DEF Renders
<1>3. [t \in Tiles |-> JobOf(render', t)] \in [1..NumTiles -> Jobs]
    BY <1>2 DEF JobOf, Jobs, Tiles
<1>4. q \in Seq(Jobs)
    BY <1>3, DispatchAssumption
<1>5. Distinct(q)
    <2>1. CASE main.todo = {}
        BY <2>1 DEF Distinct
    <2>2. CASE main.todo # {}
        <3> DEFINE p == [t \in Tiles |-> JobOf(render', t)]
        <3>1. Len(p) = NumTiles
            BY <1>3, DispatchAssumption DEF Tiles
        <3>2. \A i \in 1..NumTiles : p[i].tile = i
            BY DEF Tiles, JobOf
        <3> HIDE DEF p
        <3>3. Distinct(p)
            BY <3>1, <3>2 DEF Distinct
        <3> QED BY <2>2, <3>3 DEF p
    <2> QED BY <2>1, <2>2
<1> HIDE DEF q
<1>6. c \in DispatchState
    BY <1>1, <1>4, ClearedTablesType
<1>7. /\ Blank(c) /\ c.targets = main.todo /\ c.queue = q /\ c.sends = s.sends
      /\ c.connected = s.connected
    BY <1>1, <1>4, ClearedIsBlank
<1>8. s' = [c EXCEPT !.defer = IF main.todo = {} THEN @
                               ELSE s.server_renders /\ main.todo # {MASTER}]
    BY DEF StartChecked, q
<1> HIDE DEF c
<1>9. SameBooks(c, s')
    BY <1>6, <1>8 DEF SameBooks, DispatchState
<1>10. Balanced(s')
    <2>1. Balanced(c)
        BY <1>5, <1>6, <1>7, BlankBalance
    <2>2. Returnable(c, {})
        BY DEF Returnable
    <2> QED BY <1>9, <2>1, <2>2, SameBooksBalance
<1>11. ASSUME NEW w \in Failing PROVE w \in Workers /\ s.sends[w] = << >>
    <2>1. w \in Workers /\ (drops < MaxDrops \/ Gone(w))
        BY DEF Failing
    <2>2. CASE MaxDrops = 0
        BY <1>1, <2>1, <2>2 DEF CountInv, Counting, OneGone
    <2>3. CASE MaxDrops # 0
        <3>1. MaxDrops = 1
            BY <2>3, DispatchAssumption DEF AtMostOneLoss
        <3>2. render = 0
            BY <1>1, <3>1 DEF AtMostOneLoss
        <3> QED BY <2>1, <3>2 DEF CountInv, Fresh
    <2> QED BY <2>2, <2>3
<1>12. loop.tiles = {}
    <2>1. CASE MaxDrops = 0
        <3>1. drops = 0
            BY <1>1, <2>1 DEF CountInv, Counting, OneGone
        <3>2. loop.pc = "idle"
            BY <3>1 DEF CountInv, Counting, OneGone, Gone
        <3> QED BY <3>2 DEF CountInv, Counting, Once
    <2>2. CASE MaxDrops # 0
        <3>1. MaxDrops = 1
            BY <2>2, DispatchAssumption DEF AtMostOneLoss
        <3>2. render = 0
            BY <1>1, <3>1 DEF AtMostOneLoss
        <3> QED BY <3>2 DEF CountInv, Fresh
    <2> QED BY <2>1, <2>2
<1>13. s'.sends = s.sends /\ s'.connected = s.connected /\ \A k \in Tiles : s'.attempts[k] = 0
    BY <1>7, <1>9 DEF SameBooks, Blank
<1>14. Returnable(s', Failing)
    BY <1>11, <1>13 DEF Returnable, Distinct, InQueue
<1>15. \A w \in Workers : Gone(w)' => Gone(w)
    BY <1>1, <1>13 DEF Gone
<1>16. OneGone /\ (loop.pc # "idle" => loop.worker \in Workers)
    BY DEF CountInv, Counting, OneGone
<1>17. OneGone' /\ Returnable(s', Failing')
    BY <1>1, <1>14, <1>15, <1>16, FewerFail
<1>18. Once'
    BY <1>1, <1>12, <1>13 DEF Once
<1>19. Counting'
    BY <1>10, <1>17, <1>18 DEF Counting
<1> QED BY <1>2, <1>19 DEF Fresh

\* The send at the head of the queue of w reaches it.
LEMMA SendStep ==
    ASSUME TypeInv, CountInv, NEW w \in Workers, SendJob(w)
    PROVE  Counting' /\ Fresh'
<1>1. /\ s \in DispatchState /\ s.sends \in [Workers -> Seq(Jobs)] /\ s.sends[w] # << >>
      /\ loop.tiles \subseteq Tiles
      /\ UNCHANGED <<sock, drops, render, loop>>
      /\ Counting /\ Fresh /\ Balanced(s) /\ Returnable(s, Failing)
    <2>1. s \in DispatchState /\ loop.tiles \subseteq Tiles
        BY DEF TypeInv, TypeOK
    <2>2. s.sends \in [Workers -> Seq(Jobs)]
        BY <2>1 DEF DispatchState
    <2>3. s.sends[w] # << >> /\ UNCHANGED <<sock, drops, render, loop>>
        BY DEF SendJob, ghostVars
    <2>4. Counting /\ Fresh /\ Balanced(s) /\ Returnable(s, Failing)
        BY DEF CountInv, Counting
    <2> QED BY <2>1, <2>2, <2>3, <2>4
<1>2. SendTaken(s, s', w)
    BY <1>1 DEF SendJob, DispatchState, SendTaken
<1>3. Balanced(s')
    <2>1. \A x : Busy(s', x) = Busy(s, x)
        BY <1>2 DEF Busy, SendTaken
    <2> QED BY <1>1, <1>2, <2>1 DEF Balanced, SendTaken
<1>4. ASSUME NEW v \in Failing
      PROVE  /\ Distinct(s'.sends[v])
             /\ \A k \in Tiles : InQueue(s'.sends[v], k) => ~InQueue(s'.queue, k)
    <2>1. /\ Distinct(s.sends[v])
          /\ \A k \in Tiles : InQueue(s.sends[v], k) => ~InQueue(s.queue, k)
        BY <1>1 DEF Returnable
    <2>2. s'.queue = s.queue
        BY <1>2 DEF SendTaken
    <2>3. CASE v = w
        <3> DEFINE q == s.sends[w]
        <3>1. q \in Seq(Jobs) /\ q # << >> /\ Distinct(q) /\ s'.sends[v] = Tail(q)
            BY <1>1, <1>2, <2>1, <2>3 DEF SendTaken
        <3> HIDE DEF q
        <3>2. Distinct(Tail(q)) /\ \A k : InQueue(Tail(q), k) => InQueue(q, k)
            BY <3>1, Tailed
        <3> QED BY <2>1, <2>2, <2>3, <3>1, <3>2 DEF q
    <2>4. CASE v # w
        <3>1. s'.sends[v] = s.sends[v]
            BY <1>1, <1>2, <2>4 DEF SendTaken, Failing
        <3> QED BY <2>1, <2>2, <3>1
    <2> QED BY <2>3, <2>4
<1>5. Returnable(s', Failing)
    BY <1>4 DEF Returnable
<1>6. \A k \in loop.tiles : ~InQueue(s.queue, k)
    BY <1>1 DEF Counting, Once
<1>7. \A v \in Workers : s'.sends[v] # << >> => s.sends[v] # << >>
    BY <1>1, <1>2 DEF SendTaken
<1>8. Counting'
    BY <1>1, <1>2, <1>3, <1>5, <1>6, <1>7, QuietStep DEF SendTaken
<1>9. render # 0
    BY <1>1 DEF Fresh
<1> QED BY <1>1, <1>8, <1>9 DEF Fresh

\* It does not: w is the one lost worker.
LEMMA SendFailsStep ==
    ASSUME AtMostOneLoss, TypeInv, CountInv, NEW w \in Workers, SendFails(w)
    PROVE  Counting' /\ Fresh'
<1> DEFINE d == [s EXCEPT !.sends[w] = Tail(@)]
           job == Head(s.sends[w])
<1>1. /\ s \in DispatchState /\ s.sends \in [Workers -> Seq(Jobs)] /\ s.sends[w] # << >>
      /\ ~sock[w] /\ loop.pc = "idle" /\ drops \in Nat
      /\ UNCHANGED <<sock, drops, render, loop>>
      /\ Counting /\ Fresh /\ OneGone /\ Once /\ Balanced(s) /\ Returnable(s, Failing)
    <2>1. s \in DispatchState /\ drops \in Nat
        BY DEF TypeInv, TypeOK
    <2>2. s.sends \in [Workers -> Seq(Jobs)]
        BY <2>1 DEF DispatchState
    <2>3. /\ s.sends[w] # << >> /\ ~sock[w] /\ loop.pc = "idle"
          /\ UNCHANGED <<sock, drops, render, loop>>
        BY DEF SendFails, LoopIdle, ghostVars
    <2>4. Counting /\ Fresh /\ OneGone /\ Once /\ Balanced(s) /\ Returnable(s, Failing)
        BY DEF CountInv, Counting
    <2> QED BY <2>1, <2>2, <2>3, <2>4
<1>2. Tail(s.sends[w]) \in Seq(Jobs)
    BY <1>1
<1>3. d \in DispatchState /\ SendTaken(s, d, w)
    BY <1>1, <1>2 DEF DispatchState, SendTaken
<1>4. s' \in RetryOrRequeue(d, job)
    BY DEF SendFails
<1> HIDE DEF d
<1>5. Gone(w) /\ w \in Failing /\ Failing \in SUBSET Workers
    BY <1>1 DEF Gone, Failing
<1>6. ASSUME NEW v \in Failing, v # w PROVE s.sends[v] = << >>
    <2>1. drops # 0
        BY <1>1, <1>5 DEF OneGone
    <2>2. ~(drops < MaxDrops)
        BY <1>1, <2>1, DispatchAssumption DEF AtMostOneLoss
    <2> QED BY <1>1, <1>5, <1>6, <2>2 DEF Failing, OneGone
<1>7. /\ Balanced(s') /\ Returnable(s', Failing)
      /\ s'.targets = s.targets /\ s'.connected = s.connected /\ s'.attempts = s.attempts
      /\ \A v \in Workers : v \notin s.connected /\ v # w => s'.sends[v] = s.sends[v]
    <2> HIDE DEF job
    <2>1. job = Head(s.sends[w])
        BY DEF job
    <2>2. \A v \in Failing : v # w => s.sends[v] = << >>
        BY <1>6
    <2>3. Balanced(s) /\ Returnable(s, Failing) /\ s \in DispatchState /\ s.sends[w] # << >>
        BY <1>1
    <2> QED BY <1>3, <1>4, <1>5, <2>1, <2>2, <2>3, RetryBalance
<1>8. loop.tiles = {}
    BY <1>1 DEF Once
<1>9. \A v \in Workers : s'.sends[v] # << >> => s.sends[v] # << >> \/ v \in s.connected
    BY <1>1, <1>7
<1>10. Counting'
    BY <1>1, <1>7, <1>8, <1>9, QuietStep
<1>11. render # 0
    BY <1>1 DEF Fresh
<1> QED BY <1>1, <1>10, <1>11 DEF Fresh

\* A worker joins, or is lost.
LEMMA LinkStep ==
    ASSUME AtMostOneLoss, TypeInv, CountInv, NEW w \in Workers, Register(w) \/ Disconnect(w)
    PROVE  Counting' /\ Fresh'
<1>1. /\ s \in DispatchState /\ sock \in [Workers -> BOOLEAN] /\ drops \in Nat
      /\ Counting /\ Fresh /\ OneGone /\ Once /\ Balanced(s) /\ Returnable(s, Failing)
    BY DEF TypeInv, TypeOK, CountInv, Counting
<1>2. CASE Register(w)
    <2>1. /\ s'.targets = s.targets /\ s'.queue = s.queue /\ s'.pending = s.pending
          /\ s'.owner = s.owner /\ s'.attempts = s.attempts /\ s'.inflight = s.inflight
          /\ s'.sends = s.sends /\ s'.connected = s.connected \cup {w}
          /\ sock' = [sock EXCEPT ![w] = TRUE] /\ loop.pc = "idle" /\ s.sends[w] = << >>
          /\ UNCHANGED <<loop, drops, render>>
        BY <1>1, <1>2 DEF Register, LoopIdle, DispatchState, ghostVars
    <2>2. \A v \in Workers : sock'[v] = IF v = w THEN TRUE ELSE sock[v]
        BY <1>1, <2>1
    <2>3. Balanced(s')
        <3>1. \A x : Busy(s', x) = Busy(s, x)
            BY <2>1 DEF Busy
        <3> QED BY <1>1, <2>1, <3>1 DEF Balanced
    <2>4. Returnable(s', Failing)
        BY <1>1, <2>1 DEF Returnable
    <2>5. ASSUME NEW v \in Workers, Gone(v)' PROVE Gone(v)
        <3>1. v # w
            BY <2>1, <2>2, <2>5 DEF Gone
        <3>2. (sock'[v] <=> sock[v]) /\ (v \in s'.connected <=> v \in s.connected)
              /\ s'.sends[v] = s.sends[v] /\ loop' = loop
            BY <2>1, <2>2, <3>1
        <3> QED BY <2>5, <3>2 DEF Gone
    <2>6. OneGone' /\ Returnable(s', Failing')
        BY <1>1, <2>1, <2>4, <2>5, FewerFail
    <2>7. \A v \in s'.connected : ~sock'[v] => v \in s.connected /\ ~sock[v]
        BY <1>1, <2>1, <2>2 DEF DispatchState
    <2>8. Once'
        BY <1>1, <2>1, <2>7 DEF Once
    <2>9. Fresh'
        BY <1>1, <2>1 DEF Fresh
    <2> QED BY <2>3, <2>6, <2>8, <2>9 DEF Counting
<1>3. CASE Disconnect(w)
    <2>1. /\ s' = s /\ loop' = loop /\ render' = render
          /\ sock[w] /\ sock' = [sock EXCEPT ![w] = FALSE]
          /\ w \in s.connected => drops < MaxDrops /\ drops' = drops + 1
          /\ w \notin s.connected => drops' = drops
        BY <1>3 DEF Disconnect, InService, CountInv, serverVars
    <2>2. \A v \in Workers : sock'[v] = IF v = w THEN FALSE ELSE sock[v]
        BY <1>1, <2>1
    <2>3. Fresh'
        BY <1>1, <2>1 DEF Fresh
    <2>4. CASE w \in s.connected
        <3>1. drops = 0 /\ MaxDrops = 1 /\ drops' = 1
            BY <1>1, <2>1, <2>4, DispatchAssumption DEF AtMostOneLoss
        <3>2. \A v \in Workers : ~Gone(v)
            BY <1>1, <3>1 DEF OneGone
        <3>3. \A v \in Workers : Gone(v)' => v = w
            BY <2>1, <2>2, <3>2 DEF Gone
        <3>4. OneGone'
            BY <1>1, <2>1, <3>1, <3>3 DEF OneGone
        <3>5. Once'
            BY <1>1, <2>1, <3>1 DEF Once
        <3>6. Failing' \subseteq Failing
            BY <3>1 DEF Failing
        <3>7. Returnable(s', Failing')
            BY <1>1, <2>1, <3>6 DEF Returnable
        <3> QED BY <1>1, <2>1, <2>3, <3>4, <3>5, <3>7 DEF Counting
    <2>5. CASE w \notin s.connected
        <3>1. \A v \in Workers : Gone(v)' => Gone(v)
            BY <2>1, <2>2, <2>5 DEF Gone
        <3>2. loop.pc # "idle" => loop.worker \in Workers
            BY <1>1 DEF OneGone
        <3>3. OneGone' /\ Returnable(s', Failing')
            BY <1>1, <2>1, <2>5, <3>1, <3>2, FewerFail
        <3>4. \A v \in s.connected : ~sock'[v] => ~sock[v]
            BY <1>1, <2>2, <2>5 DEF DispatchState
        <3>5. Once'
            BY <1>1, <2>1, <2>5, <3>4 DEF Once
        <3> QED BY <1>1, <2>1, <2>3, <3>3, <3>5 DEF Counting
    <2> QED BY <2>4, <2>5
<1> QED BY <1>2, <1>3

\* The handler of the lost worker, or of the one that takes over, takes the snapshot of its
\* tiles.
LEMMA DepartureStep ==
    ASSUME AtMostOneLoss, TypeInv, CountInv, NEW w \in Workers,
           HandlerExit(w) \/ ServerTakeover(w)
    PROVE  Counting' /\ Fresh'
<1>1. /\ s \in DispatchState /\ drops \in Nat
      /\ Counting /\ Fresh /\ OneGone /\ Once /\ Balanced(s) /\ Returnable(s, Failing)
    BY DEF TypeInv, TypeOK, CountInv, Counting
<1>2. /\ loop.pc = "idle" /\ w \in s.connected
      /\ UNCHANGED <<sock, render>>
      /\ loop' = [pc |-> "reassign", worker |-> w, tiles |-> OwnedBy(w), todo |-> {}]
    BY DEF HandlerExit, ServerTakeover, BeginReassign, LoopIdle, workerVars, ghostVars
<1>3. \/ ~sock[w] /\ drops' = drops
      \/ drops < MaxDrops /\ drops' = drops + 1
    BY DEF HandlerExit, ServerTakeover, ghostVars
<1>4. /\ s'.targets = s.targets \ {w} /\ s'.queue = s.queue /\ s'.pending = s.pending
      /\ s'.owner = s.owner /\ s'.attempts = s.attempts
      /\ s'.sends = s.sends /\ s'.connected = s.connected
      /\ s'.inflight \in {s.inflight, [s.inflight EXCEPT ![w] = 0]}
    <2>1. s' = IF w \in s.targets
               THEN [s EXCEPT !.targets = @ \ {w}, !.inflight[w] = 0] ELSE s
        BY DEF HandlerExit, ServerTakeover, BeginReassign
    <2> QED BY <1>1, <2>1 DEF DispatchState
<1>5. s.inflight \in [Targets -> Nat] /\ s.targets \subseteq Targets /\ w # NoOwner
    BY <1>1, DispatchAssumption DEF DispatchState
<1>6. ASSUME NEW x \in s'.targets PROVE s'.inflight[x] = Cardinality(Busy(s', x))
    <2>1. x \in s.targets /\ x # w
        BY <1>4
    <2>2. s'.inflight[x] = s.inflight[x]
        BY <1>4, <1>5, <2>1
    <2>3. Busy(s', x) = Busy(s, x)
        BY <1>4 DEF Busy
    <2> QED BY <1>1, <2>1, <2>2, <2>3 DEF Balanced
<1>7. Balanced(s')
    BY <1>1, <1>4, <1>6 DEF Balanced
<1>8. drops' \in Nat \ {0} /\ drops' <= MaxDrops
    <2>1. CASE ~sock[w] /\ drops' = drops
        BY <1>1, <1>2, <2>1 DEF OneGone, Gone
    <2>2. CASE drops < MaxDrops /\ drops' = drops + 1
        BY <1>1, <2>2, DispatchAssumption
    <2> QED BY <1>3, <2>1, <2>2
<1>9. /\ \A v \in Workers : Gone(v) => v = w
      /\ \A t \in Tiles : s.attempts[t] = 0
    <2>1. CASE ~sock[w] /\ drops' = drops
        BY <1>1, <1>2, <2>1 DEF OneGone, Gone, Once
    <2>2. CASE drops < MaxDrops /\ drops' = drops + 1
        <3>1. drops = 0
            BY <1>1, <2>2, DispatchAssumption DEF AtMostOneLoss
        <3> QED BY <1>1, <3>1 DEF OneGone, Once
    <2> QED BY <1>3, <2>1, <2>2
<1>10. \A v \in Workers : Gone(v)' => v = w
    BY <1>2, <1>4, <1>9 DEF Gone
<1>11. OneGone'
    BY <1>2, <1>8, <1>10 DEF OneGone
<1>12. w \in Failing /\ Failing' \subseteq {w}
    <2>1. drops' = 1 /\ MaxDrops = 1
        BY <1>8, DispatchAssumption DEF AtMostOneLoss
    <2>2. ~sock[w] => Gone(w)
        BY <1>2 DEF Gone
    <2>3. drops < MaxDrops \/ Gone(w)
        BY <1>3, <2>2
    <2> QED BY <1>10, <2>1, <2>3 DEF Failing
<1>13. Returnable(s', Failing')
    BY <1>1, <1>4, <1>12 DEF Returnable
<1>14. \A t \in OwnedBy(w) : t \in Tiles /\ s.owner[t] = w /\ ~InQueue(s.queue, t)
    BY <1>1, <1>5 DEF OwnedBy, Balanced
<1>15. Once'
    BY <1>2, <1>4, <1>8, <1>9, <1>14 DEF Once
<1>16. Fresh'
    <2>1. CASE render = 0
        <3>1. OwnedBy(w) = {}
            BY <1>1, <1>5, <2>1 DEF OwnedBy, Fresh, Balanced
        <3> QED BY <1>1, <1>2, <1>4, <2>1, <3>1 DEF Fresh
    <2>2. CASE render # 0
        BY <1>2, <2>2 DEF Fresh
    <2> QED BY <2>1, <2>2
<1> QED BY <1>7, <1>11, <1>13, <1>15, <1>16 DEF Counting

\* _active_worker_ids forgets who has no socket, in the middle of a departure too.
LEMMA PruneStep ==
    ASSUME TypeInv, CountInv, PruneClosedSockets
    PROVE  Counting' /\ Fresh'
<1>1. /\ s \in DispatchState
      /\ Counting /\ Fresh /\ OneGone /\ Once /\ Balanced(s) /\ Returnable(s, Failing)
    BY DEF TypeInv, TypeOK, CountInv, Counting
<1>2. UNCHANGED <<sock, drops, render, loop>>
    BY DEF PruneClosedSockets, workerVars, ghostVars
<1>3. /\ s'.connected = {w \in s.connected : sock[w]}
      /\ s'.targets = s.targets /\ s'.queue = s.queue /\ s'.pending = s.pending
      /\ s'.owner = s.owner /\ s'.attempts = s.attempts
      /\ s'.inflight = s.inflight /\ s'.sends = s.sends
    BY <1>1 DEF PruneClosedSockets, DispatchState
<1>4. Balanced(s')
    <2>1. \A x : Busy(s', x) = Busy(s, x)
        BY <1>3 DEF Busy
    <2> QED BY <1>1, <1>3, <2>1 DEF Balanced
<1>5. Returnable(s', Failing)
    BY <1>1, <1>3 DEF Returnable
<1>6. \A v \in Workers : Gone(v)' => Gone(v)
    BY <1>2, <1>3 DEF Gone
<1>7. loop.pc # "idle" => loop.worker \in Workers
    BY <1>1 DEF OneGone
<1>8. OneGone' /\ Returnable(s', Failing')
    BY <1>1, <1>2, <1>5, <1>6, <1>7, FewerFail
<1>9. Once'
    BY <1>1, <1>2, <1>3 DEF Once
<1>10. Fresh'
    BY <1>1, <1>2, <1>3 DEF Fresh
<1> QED BY <1>4, <1>8, <1>9, <1>10 DEF Counting

\* One tile of the lost worker goes to another target, or is given up.
LEMMA ReassignStep ==
    ASSUME AtMostOneLoss, TypeInv, CountInv, ReassignNext
    PROVE  Counting' /\ Fresh'
<1>1. /\ s \in DispatchState /\ drops \in Nat /\ loop.tiles \subseteq Tiles
      /\ loop \in [pc : LoopPcs, worker : Workers \cup {NoOwner},
                   tiles : SUBSET Tiles, todo : SUBSET Targets]
    BY DEF TypeInv, TypeOK
<1>2. /\ Counting /\ Fresh /\ OneGone /\ Once /\ Balanced(s) /\ Returnable(s, Failing)
      /\ Failing \in SUBSET Workers
    BY DEF CountInv, Counting, Failing
<1>3. loop.pc = "reassign" /\ UNCHANGED <<sock, drops, render>>
    BY DEF ReassignNext, workerVars, ghostVars
<1>4. PICK t \in loop.tiles : /\ s' \in ReassignTile(s, t)
                              /\ loop' = [loop EXCEPT !.tiles = @ \ {t}]
    BY DEF ReassignNext
<1>5. loop'.pc = "reassign" /\ loop'.worker = loop.worker /\ loop'.tiles = loop.tiles \ {t}
    BY <1>1, <1>3, <1>4
<1>6. loop.worker \in Workers /\ Gone(loop.worker) /\ drops # 0
    BY <1>2, <1>3 DEF OneGone, Gone
<1>7. /\ t \in Tiles /\ ~InQueue(s.queue, t) /\ s.attempts[t] = 0
      /\ loop.worker \notin s.targets /\ s.owner[t] \in {NoOwner, loop.worker}
    BY <1>1, <1>2, <1>4 DEF Once
<1>8. s.owner[t] \notin s.targets
    <2>1. s.targets \subseteq Targets
        BY <1>1 DEF DispatchState
    <2>2. NoOwner \notin s.targets
        BY <2>1, DispatchAssumption DEF Targets
    <2> QED BY <1>7, <2>2
<1>9. ASSUME NEW v \in Failing PROVE v \notin s.connected \cap s.targets
    <2>1. ~(drops < MaxDrops)
        BY <1>1, <1>6, DispatchAssumption DEF AtMostOneLoss
    <2>2. v \in Workers /\ Gone(v)
        BY <2>1 DEF Failing
    <2>3. v = loop.worker
        BY <1>2, <1>6, <2>2 DEF OneGone
    <2> QED BY <1>7, <2>3
<1>10. /\ Balanced(s') /\ Returnable(s', Failing)
       /\ s'.targets = s.targets /\ s'.connected = s.connected /\ s'.queue = s.queue
       /\ \A k \in Tiles : k # t => s'.attempts[k] = s.attempts[k] /\ s'.owner[k] = s.owner[k]
       /\ \A w \in Workers : w \notin s.connected => s'.sends[w] = s.sends[w]
    BY <1>1, <1>2, <1>4, <1>7, <1>8, <1>9, ReassignBalance
<1>11. \A v \in Workers : Gone(v)' => Gone(v)
    BY <1>3, <1>5, <1>10 DEF Gone
<1>12. OneGone' /\ Returnable(s', Failing')
    BY <1>2, <1>3, <1>5, <1>6, <1>10, <1>11, FewerFail
<1>13. Once'
    BY <1>1, <1>2, <1>3, <1>5, <1>6, <1>7, <1>10 DEF Once
<1>14. Fresh'
    BY <1>2, <1>3, <1>4 DEF Fresh
<1> QED BY <1>10, <1>12, <1>13, <1>14 DEF Counting

\* Its tiles are done, and the other targets are given what is queued.
LEMMA ReassignDoneStep ==
    ASSUME TypeInv, CountInv, ReassignDone
    PROVE  Counting' /\ Fresh'
<1>1. loop \in [pc : LoopPcs, worker : Workers \cup {NoOwner},
                tiles : SUBSET Tiles, todo : SUBSET Targets]
    BY DEF TypeInv, TypeOK
<1>2. Counting /\ Fresh /\ OneGone /\ Once
    BY DEF CountInv, Counting
<1>3. /\ loop.pc = "reassign" /\ loop.tiles = {}
      /\ loop'.pc = "redispatch" /\ loop'.worker = loop.worker /\ loop'.tiles = {}
      /\ UNCHANGED <<s, sock, drops, render>>
    BY <1>1 DEF ReassignDone, workerVars, ghostVars
<1>4. \A v \in Workers : Gone(v)' => Gone(v)
    BY <1>3 DEF Gone
<1>5. loop.worker \in Workers /\ Balanced(s) /\ Returnable(s, Failing)
    BY <1>2, <1>3 DEF OneGone, Counting
<1>6. OneGone' /\ Returnable(s, Failing')
    BY <1>2, <1>3, <1>4, <1>5, FewerFail
<1>7. Once'
    BY <1>2, <1>3 DEF Once
<1>8. Fresh'
    BY <1>2, <1>3 DEF Fresh
<1> QED BY <1>3, <1>5, <1>6, <1>7, <1>8 DEF Counting

\* The lost worker is forgotten.
LEMMA ForgetStep ==
    ASSUME TypeInv, CountInv, Forget
    PROVE  Counting' /\ Fresh'
<1>1. /\ s \in DispatchState
      /\ loop \in [pc : LoopPcs, worker : Workers \cup {NoOwner},
                   tiles : SUBSET Tiles, todo : SUBSET Targets]
    BY DEF TypeInv, TypeOK
<1>2. /\ Counting /\ Fresh /\ OneGone /\ Once /\ Balanced(s) /\ Returnable(s, Failing)
      /\ Failing \in SUBSET Workers
    BY DEF CountInv, Counting, Failing
<1>3. /\ loop.pc = "redispatch" /\ loop'.pc = "idle" /\ loop'.worker = loop.worker
      /\ loop'.tiles = loop.tiles
      /\ UNCHANGED <<sock, drops, render>>
    BY <1>1 DEF Forget, workerVars, ghostVars
<1>4. /\ s'.connected = s.connected \ {loop.worker}
      /\ s'.targets = s.targets /\ s'.queue = s.queue /\ s'.pending = s.pending
      /\ s'.owner = s.owner /\ s'.attempts = s.attempts
      /\ s'.inflight = s.inflight /\ s'.sends = s.sends
    BY <1>1 DEF Forget, DispatchState
<1>5. loop.tiles = {}
    BY <1>2, <1>3 DEF Once
<1>6. loop.worker \in Workers /\ Gone(loop.worker) /\ drops # 0
    BY <1>2, <1>3 DEF OneGone, Gone
<1>7. Balanced(s')
    <2>1. \A x : Busy(s', x) = Busy(s, x)
        BY <1>4 DEF Busy
    <2> QED BY <1>2, <1>4, <2>1 DEF Balanced
<1>8. Returnable(s', Failing)
    BY <1>2, <1>4 DEF Returnable
<1>9. \A v \in Workers : Gone(v)' => Gone(v)
    BY <1>3, <1>4, <1>6 DEF Gone
<1>10. OneGone' /\ Returnable(s', Failing')
    BY <1>2, <1>3, <1>8, <1>9, FewerFail
<1>11. \A v \in s'.connected : sock[v]
    <2> SUFFICES ASSUME NEW v \in s'.connected, ~sock[v] PROVE FALSE
        OBVIOUS
    <2>1. v \in s.connected /\ v # loop.worker /\ v \in Workers
        BY <1>1, <1>4 DEF DispatchState
    <2>2. Gone(v)
        BY <2>1 DEF Gone
    <2> QED BY <1>2, <1>6, <2>1, <2>2 DEF OneGone
<1>12. Once'
    BY <1>3, <1>5, <1>6, <1>11 DEF Once
<1>13. Fresh'
    BY <1>2, <1>3, <1>4 DEF Fresh
<1> QED BY <1>7, <1>10, <1>12, <1>13 DEF Counting

\* Steps that leave tables, departure and connections as they are
LEMMA ElsewhereStep ==
    ASSUME AtMostOneLoss, TypeInv, CountInv,
           \/ StartRender \/ StartRefused \/ Tick \/ TasksDrained \/ ResultsDrained
           \/ RenderLocally \/ LocalRenderRaises \/ ConsumeRaises \/ UNCHANGED vars
           \/ \E w \in Workers : ReceiveResult(w) \/ WorkerStep(w) \/ WorkerRestarts(w)
    PROVE  Counting' /\ Fresh'
<1>1. s \in DispatchState
    BY DEF TypeInv, TypeOK
<1>2. Counting /\ Fresh
    BY DEF CountInv
<1>3. CASE StartRender \/ RenderLocally \/ LocalRenderRaises
    <2>1. UNCHANGED <<sock, drops, render, loop>>
        BY <1>3 DEF StartRender, RenderLocally, LocalRenderRaises, TickRaises, workerVars,
                    ghostVars
    <2>2. SameBooks(s, s')
        BY <1>1, <1>3 DEF StartRender, RenderLocally, LocalRenderRaises, DispatchState,
                          SameBooks
    <2> QED BY <1>2, <2>1, <2>2, SameBooksStep
<1>4. CASE StartRefused \/ Tick \/ TasksDrained \/ ResultsDrained \/ ConsumeRaises
           \/ UNCHANGED vars
    <2>1. UNCHANGED <<s, sock, drops, render, loop>>
        BY <1>4 DEF StartRefused, Tick, TasksDrained, ResultsDrained, ConsumeRaises,
                    TickRaises, vars, serverVars, workerVars, ghostVars
    <2>2. SameBooks(s, s')
        BY <2>1 DEF SameBooks
    <2> QED BY <1>2, <2>1, <2>2, SameBooksStep
<1>5. CASE \E w \in Workers : ReceiveResult(w) \/ WorkerStep(w) \/ WorkerRestarts(w)
    <2>1. UNCHANGED <<s, sock, drops, render, loop>>
        BY <1>5 DEF ReceiveResult, WorkerStep, WorkerRenders, WorkerRenderRaises, WorkerIgnores,
                    WorkerAborts, WorkerRestarts, serverVars, ghostVars
    <2>2. SameBooks(s, s')
        BY <2>1 DEF SameBooks
    <2> QED BY <1>2, <2>1, <2>2, SameBooksStep
<1> QED BY <1>3, <1>4, <1>5

\* Steps that hand out what is queued
LEMMA HandingOutStep ==
    ASSUME TypeInv, CountInv, Prime \/ DispatchQueued \/ Redispatch
    PROVE  Counting' /\ Fresh'
<1>1. /\ main.todo \subseteq Targets /\ loop.todo \subseteq Targets
      /\ loop \in [pc : LoopPcs, worker : Workers \cup {NoOwner},
                   tiles : SUBSET Tiles, todo : SUBSET Targets]
    BY DEF TypeInv, TypeOK
<1>2. Counting /\ Fresh
    BY DEF CountInv
<1>3. PICK x \in Targets : s' = Dispatch(s, x)
    BY <1>1 DEF Prime, DispatchQueued, Redispatch, Foremost
<1>4. UNCHANGED <<sock, drops, render>>
    BY DEF Prime, DispatchQueued, Redispatch, workerVars, ghostVars
<1>5. loop'.pc = loop.pc /\ loop'.worker = loop.worker /\ loop'.tiles = loop.tiles
    BY <1>1 DEF Prime, DispatchQueued, Redispatch
<1> QED BY <1>2, <1>3, <1>4, <1>5, DispatchStep

LEMMA CountingStep ==
    ASSUME AtMostOneLoss, TypeInv, CountInv, [Next]_vars
    PROVE  Counting' /\ Fresh'
<1>1. CASE StartRender \/ StartRefused \/ Tick \/ TasksDrained \/ ResultsDrained
           \/ RenderLocally \/ LocalRenderRaises \/ ConsumeRaises \/ UNCHANGED vars
    BY <1>1, ElsewhereStep
<1>2. CASE \E w \in Workers : ReceiveResult(w) \/ WorkerStep(w) \/ WorkerRestarts(w)
    BY <1>2, ElsewhereStep
<1>3. CASE Prime \/ DispatchQueued \/ Redispatch
    BY <1>3, HandingOutStep
<1>4. CASE StartChecked
    BY <1>4, StartStep
<1>5. CASE CancelRender \/ ResetRuntime
    BY <1>5, ClearStep
<1>6. ~KickAllWorkers /\ ~Stop /\ ~Start /\ ~StartServer
    BY DEF AtMostOneLoss, KickAllWorkers, Stop, Start, StartServer, CountInv
<1>7. CASE ConsumeResult
    BY <1>7, ConsumeStep
<1>8. CASE ReassignNext
    BY <1>8, ReassignStep
<1>9. CASE ReassignDone \/ Forget
    BY <1>9, ReassignDoneStep, ForgetStep
<1>10. CASE \E w \in Workers : SendJob(w) \/ SendFails(w)
    BY <1>10, SendStep, SendFailsStep
<1>11. CASE \E w \in Workers : Register(w) \/ Disconnect(w)
    BY <1>11, LinkStep
<1>12. CASE \E w \in Workers : HandlerExit(w) \/ ServerTakeover(w)
    BY <1>12, DepartureStep
<1>13. CASE PruneClosedSockets
    BY <1>13, PruneStep
<1> QED BY <1>1, <1>2, <1>3, <1>4, <1>5, <1>6, <1>7, <1>8, <1>9, <1>10, <1>11, <1>12, <1>13
        DEF Next, UserStep, MainStep, LoopStep, EnvStep

\* A tile that is asked for is rendered: no result says that it failed.
LEMMA SucceedStep ==
    ASSUME AtMostOneLoss, TypeInv, AllSucceed, [Next]_vars
    PROVE  AllSucceed'
<1>1. /\ result_queue \in Seq(Results) /\ transit \in [Workers -> [Results -> Nat]]
    BY DEF TypeInv, TypeOK
<1>2. Outcomes = {TRUE}
    BY DEF AtMostOneLoss, Outcomes
<1>3. CASE UNCHANGED <<result_queue, transit>>
    BY <1>3 DEF AllSucceed
<1>10. CASE ConsumeRaises
    <2>1. /\ transit' = transit /\ result_queue # << >> /\ result_queue' = Tail(result_queue)
        BY <1>10 DEF ConsumeRaises, TickRaises
    <2>2. \A i \in 1..Len(result_queue') :
              i + 1 \in 1..Len(result_queue) /\ result_queue'[i] = result_queue[i + 1]
        BY <1>1, <2>1
    <2> QED BY <2>1, <2>2 DEF AllSucceed
<1>4. CASE RenderLocally
    <2>1. transit' = transit
        BY <1>4 DEF RenderLocally, workerVars
    <2>2. CASE s.abort
        BY <1>4, <2>1, <2>2 DEF RenderLocally, AllSucceed
    <2>3. CASE ~s.abort
        <3> DEFINE r == [job |-> Head(s.tasks), ok |-> TRUE]
        <3>1. s.tasks \in Seq(Jobs) /\ s.tasks # << >>
            BY <1>4 DEF TypeInv, TypeOK, DispatchState, RenderLocally
        <3>2. r \in Results /\ r.ok = TRUE
            BY <3>1 DEF Results
        <3>3. result_queue' = Append(result_queue, r)
            BY <1>2, <1>4, <2>3 DEF RenderLocally
        <3> HIDE DEF r
        <3> QED BY <1>1, <2>1, <3>2, <3>3 DEF AllSucceed
    <2> QED BY <2>2, <2>3
<1>5. CASE ConsumeResult
    <2>1. /\ transit' = transit /\ result_queue # << >> /\ result_queue' = Tail(result_queue)
        BY <1>5 DEF ConsumeResult, workerVars
    <2>2. \A i \in 1..Len(result_queue') :
              i + 1 \in 1..Len(result_queue) /\ result_queue'[i] = result_queue[i + 1]
        BY <1>1, <2>1
    <2> QED BY <2>1, <2>2 DEF AllSucceed
<1>6. ASSUME NEW w \in Workers, ReceiveResult(w) PROVE AllSucceed'
    <2>1. PICK r \in Results : /\ transit[w][r] > 0
                               /\ transit' = [transit EXCEPT ![w][r] = @ - 1]
                               /\ result_queue' = Append(result_queue, r)
        BY <1>6 DEF ReceiveResult
    <2>2. r.ok = TRUE
        BY <2>1 DEF AllSucceed
    <2>3. \A i \in 1..Len(result_queue') : result_queue'[i].ok = TRUE
        BY <1>1, <2>1, <2>2 DEF AllSucceed
    <2>4. \A v \in Workers, q \in Results : transit'[v][q] > 0 => transit[v][q] > 0
        BY <1>1, <2>1
    <2> QED BY <2>3, <2>4 DEF AllSucceed
<1>7. ASSUME NEW w \in Workers, WorkerRenders(w) PROVE AllSucceed'
    <2>1. result_queue' = result_queue
        BY <1>7 DEF WorkerRenders, serverVars
    <2> DEFINE r == [job |-> Head(jobs[w]), ok |-> TRUE]
    <2>2. transit' = IF sock[w] THEN [transit EXCEPT ![w][r] = @ + 1] ELSE transit
        BY <1>2, <1>7 DEF WorkerRenders
    <2>3. r.ok = TRUE
        OBVIOUS
    <2> HIDE DEF r
    <2>4. \A v \in Workers, q \in Results : transit'[v][q] = transit[v][q] \/ q = r
        BY <1>1, <2>2
    <2> QED BY <2>1, <2>3, <2>4 DEF AllSucceed
<1>8. ASSUME NEW w \in Workers, Disconnect(w) PROVE AllSucceed'
    <2>1. result_queue' = result_queue /\ transit' = [transit EXCEPT ![w] = NoResults]
        BY <1>8 DEF Disconnect, serverVars
    <2>2. \A v \in Workers, q \in Results : transit'[v][q] = transit[v][q] \/ transit'[v][q] = 0
        BY <1>1, <2>1 DEF NoResults
    <2> QED BY <2>1, <2>2 DEF AllSucceed
<1>9. \/ UNCHANGED <<result_queue, transit>>
      \/ RenderLocally \/ ConsumeResult \/ ConsumeRaises
      \/ \E w \in Workers : ReceiveResult(w) \/ WorkerRenders(w) \/ Disconnect(w)
    <2>1. CASE UNCHANGED vars
        BY <2>1 DEF vars, serverVars, workerVars
    <2>2. CASE UserStep
        BY <2>2 DEF UserStep, StartRender, CancelRender, ResetRuntime, KickAllWorkers,
                    PruneClosedSockets, Stop, Start, serverVars, workerVars
    <2>3. CASE MainStep
        BY <2>3 DEF MainStep, StartRefused, StartChecked, Prime, Tick, LocalRenderRaises,
                    TickRaises, TasksDrained, ResultsDrained, DispatchQueued, workerVars
    <2>4. CASE LoopStep
        BY <2>4 DEF LoopStep, ReassignNext, ReassignDone, Redispatch, Forget, StartServer,
                    SendJob, SendFails, HandlerExit, BeginReassign, workerVars
    <2>5. CASE EnvStep
        BY <2>5 DEF EnvStep, Register, ServerTakeover, BeginReassign, WorkerRestarts,
                    serverVars, workerVars
    <2>6. CASE \E w \in Workers : WorkerStep(w)
        BY <2>6 DEF WorkerStep, WorkerRenderRaises, WorkerIgnores, WorkerAborts, serverVars
    <2> QED BY <2>1, <2>2, <2>3, <2>4, <2>5, <2>6 DEF Next
<1> QED BY <1>3, <1>4, <1>5, <1>6, <1>7, <1>8, <1>9, <1>10

\* With no "restart" among the events the server is not stopped.
LEMMA StaysUp ==
    ASSUME AtMostOneLoss, server = "up", [Next]_vars
    PROVE  server' = "up"
<1>1. CASE UNCHANGED vars
    BY <1>1 DEF vars, workerVars
<1>2. CASE UserStep
    BY <1>2 DEF UserStep, StartRender, CancelRender, ResetRuntime, KickAllWorkers,
                PruneClosedSockets, Stop, Start, AtMostOneLoss, workerVars
<1>3. CASE MainStep
    BY <1>3 DEF MainStep, StartRefused, StartChecked, Prime, Tick, RenderLocally,
                LocalRenderRaises, ConsumeRaises, TickRaises, TasksDrained, ConsumeResult,
                ResultsDrained, DispatchQueued, workerVars
<1>4. CASE LoopStep
    BY <1>4 DEF LoopStep, ReassignNext, ReassignDone, Redispatch, Forget, StartServer, SendJob,
                SendFails, ReceiveResult, HandlerExit, BeginReassign, workerVars
<1>5. CASE EnvStep
    BY <1>5 DEF EnvStep, Register, ServerTakeover, BeginReassign, Disconnect, WorkerRestarts,
                workerVars
<1>6. CASE \E w \in Workers : WorkerStep(w)
    BY <1>6 DEF WorkerStep, WorkerRenders, WorkerRenderRaises, WorkerIgnores, WorkerAborts
<1> QED BY <1>1, <1>2, <1>3, <1>4, <1>5, <1>6 DEF Next

LEMMA InitCount == AtMostOneLoss /\ Init => CountInv
<1> SUFFICES ASSUME AtMostOneLoss, Init PROVE CountInv
    OBVIOUS
<1>1. /\ s.targets = {} /\ s.connected = {} /\ s.queue = << >>
      /\ \A t \in Tiles : s.pending[t] = 0 /\ s.owner[t] = NoOwner /\ s.attempts[t] = 0
      /\ \A w \in Workers : s.sends[w] = << >>
    BY DEF Init
<1>2. /\ result_queue = << >> /\ loop.pc = "idle" /\ loop.tiles = {} /\ drops = 0
      /\ \A w \in Workers : ~sock[w]
    BY DEF Init
<1>3. Balanced(s)
    BY <1>1, DispatchAssumption DEF Balanced, InQueue, Distinct
<1>4. Returnable(s, Failing)
    BY <1>1 DEF Returnable, Failing, Distinct, InQueue
<1>5. OneGone
    <2>1. ASSUME NEW w \in Workers PROVE ~Gone(w)
        <3>1. ~sock[w] /\ w \notin s.connected /\ s.sends[w] = << >> /\ loop.pc = "idle"
            BY <1>1, <1>2
        <3> QED BY <3>1 DEF Gone
    <2> QED BY <1>2, <2>1, DispatchAssumption DEF OneGone
<1>6. Once
    BY <1>1, <1>2 DEF Once
<1>7. AllSucceed
    <2>1. \A w \in Workers, r \in Results : transit[w][r] = 0
        BY DEF Init, NoResults
    <2> QED BY <1>2, <2>1 DEF AllSucceed
<1>8. Fresh
    BY <1>1, <1>2 DEF Fresh
<1>9. server = "up"
    BY DEF Init
<1> QED BY <1>3, <1>4, <1>5, <1>6, <1>7, <1>8, <1>9 DEF CountInv, Counting

\* While one worker at most is lost or takes over, the server is not stopped, and no result
\* says that a render failed, a target is counted to be busy with exactly the tiles it owns
\* and may still answer: target_inflight (worker.py 1889) leaks no slot and releases none
\* twice, in whatever order the loss, the failed sends, the reassignment of the snapshot, the
\* prune of its connection and the ticks of the main thread fall.
THEOREM SlotsMatchTiles == ASSUME AtMostOneLoss PROVE Spec => []InflightMatchesOwners
<1>1. CountInv => InflightMatchesOwners
    BY DEF CountInv, Counting, Balanced, Busy, InflightMatchesOwners
<1>2. Init => CountInv
    BY InitCount
<1>3. TypeInv /\ CountInv /\ [Next]_vars => CountInv'
    <2> SUFFICES ASSUME TypeInv, CountInv, [Next]_vars PROVE CountInv'
        OBVIOUS
    <2>1. AllSucceed /\ server = "up"
        BY DEF CountInv
    <2> QED BY <2>1, CountingStep, SucceedStep, StaysUp DEF CountInv
<1> QED BY <1>1, <1>2, <1>3, InitType, TypeStep, PTL DEF Spec

=============================================================================
