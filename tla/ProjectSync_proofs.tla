------------------------- MODULE ProjectSync_proofs -------------------------
(* For any number of workers, rounds, losses, takeovers and kicks: the verdict of a     *)
(* round that begins when nothing of an earlier one is under way is about what the      *)
(* workers it asked did in it, although no answer names its round.                      *)
EXTENDS ProjectSync, FiniteSetTheorems, TLAPS

-----------------------------------------------------------------------------
(* Type correctness: each counter stays within its bound, and a coroutine that is *)
(* sending has somebody left to send to.                                          *)

\* Handlers of closed connections of w that run, and that of the one about to be closed
Handlers(w) == stale[w] + (IF w \in closing THEN 1 ELSE 0)

Counted ==
    /\ edition <= round + 1
    /\ \A w \in Workers : Handlers(w) <= losses
    /\ main.st # "idle" => round > 0

Typed == TypeOK /\ Counted

CoroutineType == [kind : Kinds, st : {"sending", "collecting", "done"},
                  asked : SUBSET Workers, todo : SUBSET Workers, edition : Editions]
MainType      == [st : Kinds \cup {"idle", "synced"}, asked : SUBSET Workers,
                  start : BOOLEAN, quiet : BOOLEAN, blank : SUBSET Workers,
                  behind : SUBSET Workers]
WorkerType    == [load : Editions, blank : BOOLEAN, scene : Editions]

\* The parts of the type invariant that go together in a step
NetType   == /\ registered \in SUBSET Workers /\ open \in SUBSET Workers
             /\ stale \in [Workers -> 0..MaxLosses]
             /\ closing \in SUBSET Workers
             /\ losses \in 0..MaxLosses
             /\ \A w \in Workers : Handlers(w) <= losses
CallType  == /\ round \in 0..MaxRounds
             /\ edition \in Editions
             /\ main \in MainType
             /\ verdict \in [ok : BOOLEAN, late : BOOLEAN]
             /\ edition <= round + 1
             /\ main.st # "idle" => round > 0
RoundType == /\ co \in [Rounds -> CoroutineType]
             /\ \A n \in Rounds : /\ co[n].todo \subseteq co[n].asked
                                  /\ co[n].st = "sending" <=> co[n].todo # {}
DataType  == /\ results \in [kind : Kinds, got : [Workers -> Entries]]
             /\ outbox \in [Workers -> Seq(Answers)]
             /\ worker \in [Workers -> WorkerType]

LEMMA TypedParts == Typed <=> NetType /\ CallType /\ RoundType /\ DataType
BY DEF Typed, TypeOK, Counted, NetType, CallType, RoundType, DataType, CoroutineType,
       MainType, WorkerType

LEMMA SameNetType == ASSUME NetType, UNCHANGED netVars PROVE NetType'
BY DEF NetType, netVars, Handlers

LEMMA SameCallType == ASSUME CallType, UNCHANGED mainVars PROVE CallType'
BY DEF CallType, mainVars, MainType

LEMMA SameRoundType == ASSUME RoundType, UNCHANGED co PROVE RoundType'
BY DEF RoundType

LEMMA SameDataType ==
    ASSUME DataType, UNCHANGED <<results, outbox, worker>> PROVE DataType'
BY DEF DataType

LEMMA InitTyped == Init => Typed
<1> SUFFICES ASSUME Init PROVE Typed
  OBVIOUS
<1>1. NetType
  BY SyncAssumption DEF Init, NetType, Handlers
<1>2. CallType
  BY SyncAssumption DEF Init, CallType, MainType, Idle, NoVerdict, Editions
<1>3. RoundType
  BY SyncAssumption DEF Init, RoundType, CoroutineType, Kinds, Editions
<1>4. DataType
  <2>1. NoEntry \in Entries
    BY SyncAssumption DEF NoEntry, Entries
  <2>2. results \in [kind : Kinds, got : [Workers -> Entries]]
    BY <2>1 DEF Init, Kinds
  <2>3. outbox \in [Workers -> Seq(Answers)]
    BY DEF Init
  <2>4. worker \in [Workers -> WorkerType]
    BY SyncAssumption DEF Init, WorkerType, Editions, None
  <2> QED BY <2>2, <2>3, <2>4 DEF DataType
<1> QED BY <1>1, <1>2, <1>3, <1>4, TypedParts

\* A round begins: its number and the scene it is about stay in bounds.
LEMMA BeginType ==
    ASSUME Typed, NEW k \in Kinds, NEW ws \in SUBSET Workers, NEW start \in BOOLEAN,
           NEW quiet \in BOOLEAN, Begin(k, ws, start, quiet), Edit \/ UNCHANGED edition
    PROVE  /\ CallType'
           /\ results' \in [kind : Kinds, got : [Workers -> Entries]]
           /\ round + 1 \in Rounds /\ round' = round + 1
<1>0. CallType
  BY TypedParts
<1>1. /\ round + 1 \in Rounds /\ round' = round + 1
      /\ round' \in 0..MaxRounds /\ round' > 0
  BY <1>0, SyncAssumption DEF CallType, Begin, Rounds
<1>2. edition' \in Editions /\ edition' <= round' + 1
  BY <1>0, SyncAssumption DEF CallType, Begin, Edit, Editions
<1>3. main' \in MainType
  <2> DEFINE bl == main.blank \cup {w \in Workers : start /\ worker[w].blank}
             be == IF k = "sync" /\ start
                   THEN {w \in Workers \ ws : worker[w].load # None} ELSE main.behind
  <2>1. bl \in SUBSET Workers /\ be \in SUBSET Workers
    BY <1>0 DEF CallType, MainType
  <2>2. main' = [st |-> k, asked |-> ws, start |-> start, quiet |-> quiet,
                 blank |-> bl, behind |-> be]
    BY DEF Begin
  <2> HIDE DEF bl, be
  <2> QED BY <2>1, <2>2 DEF MainType, Kinds
<1>4. verdict' \in [ok : BOOLEAN, late : BOOLEAN]
  BY DEF Begin, NoVerdict
<1>5. results' \in [kind : Kinds, got : [Workers -> Entries]]
  <2>1. NoEntry \in Entries
    BY SyncAssumption DEF NoEntry, Entries
  <2> QED BY <2>1 DEF Begin, EmptyResults
<1> QED BY <1>1, <1>2, <1>3, <1>4, <1>5 DEF CallType

\* Its coroutine is sending, to the workers it asks.
LEMMA CoroutineBegins ==
    ASSUME RoundType, NEW k \in Kinds, NEW ws \in SUBSET Workers, ws # {},
           NEW n \in Rounds, edition' \in Editions,
           co' = [co EXCEPT ![n] = Coroutine(k, ws)]
    PROVE  RoundType'
<1>1. Coroutine(k, ws) \in CoroutineType
  BY DEF Coroutine, CoroutineType
<1>2. co' \in [Rounds -> CoroutineType]
  BY <1>1 DEF RoundType
<1>3. ASSUME NEW m \in Rounds
      PROVE  /\ co'[m].todo \subseteq co'[m].asked
             /\ co'[m].st = "sending" <=> co'[m].todo # {}
  BY DEF RoundType, Coroutine
<1> QED BY <1>2, <1>3 DEF RoundType

\* The dictionary is emptied.
LEMMA EmptiedType ==
    ASSUME results \in [kind : Kinds, got : [Workers -> Entries]], NEW kinds
    PROVE  Emptied(kinds) \in [kind : Kinds, got : [Workers -> Entries]]
<1>1. NoEntry \in Entries
  BY SyncAssumption DEF NoEntry, Entries
<1> QED BY <1>1 DEF Emptied, EmptyResults

LEMMA CallKeepsType ==
    ASSUME Typed, Call
    PROVE  Typed'
<1>0. NetType /\ CallType /\ RoundType /\ DataType
  BY TypedParts
<1>1. ASSUME NEW start \in BOOLEAN, CallSync(start)
      PROVE  Typed'
  <2>1. registered' \in SUBSET Workers /\ registered' # {} /\ Quiet \in BOOLEAN
    BY <1>0, <1>1 DEF CallSync, NetType, Quiet
  <2>2. Begin("sync", registered', start, Quiet) /\ Edit /\ "sync" \in Kinds
    BY <1>1 DEF CallSync, Kinds
  <2>3. /\ CallType' /\ results' \in [kind : Kinds, got : [Workers -> Entries]]
        /\ round + 1 \in Rounds
    BY <2>1, <2>2, BeginType
  <2>4. RoundType'
    BY <1>0, <1>1, <2>1, <2>2, <2>3, CoroutineBegins DEF CallSync, CallType
  <2>5. NetType' /\ DataType'
    BY <1>0, <1>1, <2>1, <2>3 DEF CallSync, NetType, Handlers, DataType
  <2> QED BY <2>3, <2>4, <2>5, TypedParts, PTL
<1>2. CASE CallClean
  <2>1. registered' \in SUBSET Workers /\ registered' # {} /\ Quiet \in BOOLEAN
    BY <1>0, <1>2 DEF CallClean, NetType, Quiet
  <2>2. Begin("clean", registered', FALSE, Quiet) /\ "clean" \in Kinds
    BY <1>2 DEF CallClean, Kinds
  <2>3. /\ CallType' /\ results' \in [kind : Kinds, got : [Workers -> Entries]]
        /\ round + 1 \in Rounds
    BY <1>2, <2>1, <2>2, BeginType DEF CallClean
  <2>4. RoundType'
    BY <1>0, <1>2, <2>1, <2>2, <2>3, CoroutineBegins DEF CallClean, CallType
  <2>5. NetType' /\ DataType'
    BY <1>0, <1>2, <2>1, <2>3 DEF CallClean, NetType, Handlers, DataType
  <2> QED BY <2>3, <2>4, <2>5, TypedParts, PTL
<1>3. CASE CallIntegrity
  <2>1. /\ registered \in SUBSET Workers /\ "integrity" \in Kinds
        /\ main.start \in BOOLEAN /\ (main.quiet /\ Quiet) \in BOOLEAN
    BY <1>0 DEF NetType, CallType, MainType, Kinds
  <2>2. /\ Begin("integrity", registered, main.start, main.quiet /\ Quiet)
        /\ Edit \/ UNCHANGED edition
    BY <1>3 DEF CallIntegrity
  <2>3. /\ CallType' /\ results' \in [kind : Kinds, got : [Workers -> Entries]]
        /\ round + 1 \in Rounds
    BY <2>1, <2>2, BeginType
  <2>4. RoundType'
    <3>1. CASE registered = {}
      BY <1>0, <1>3, <3>1, SameRoundType DEF CallIntegrity
    <3>2. CASE registered # {}
      BY <1>0, <1>3, <2>1, <2>3, <3>2, CoroutineBegins DEF CallIntegrity, CallType
    <3> QED BY <3>1, <3>2
  <2>5. NetType' /\ DataType'
    BY <1>0, <1>3, <2>3, SameNetType DEF CallIntegrity, DataType
  <2> QED BY <2>3, <2>4, <2>5, TypedParts, PTL
<1>4. CASE KickAllWorkers
  <2>1. CallType' /\ RoundType'
    BY <1>0, <1>4, SameCallType, SameRoundType DEF KickAllWorkers
  <2>2. DataType'
    BY <1>0, <1>4, EmptiedType DEF DataType, KickAllWorkers
  <2>3. NetType'
    <3>1. losses' \in 0..MaxLosses /\ losses' = losses + 1 /\ losses \in Nat
      BY <1>0, <1>4, SyncAssumption DEF NetType, KickAllWorkers
    <3>2. ASSUME NEW w \in Workers PROVE Handlers(w)' <= losses'
      <4>1. stale[w] \in Nat /\ stale[w] <= losses
        BY <1>0, SyncAssumption DEF NetType, Handlers
      <4> QED BY <1>4, <3>1, <4>1 DEF Handlers, KickAllWorkers
    <3> QED BY <1>0, <1>4, <3>1, <3>2 DEF NetType, KickAllWorkers
  <2> QED BY <2>1, <2>2, <2>3, TypedParts, PTL
<1>5. CASE ResetRuntime
  <2>1. NetType' /\ CallType' /\ RoundType'
    BY <1>0, <1>5, SameNetType, SameCallType, SameRoundType DEF ResetRuntime
  <2>2. DataType'
    BY <1>0, <1>5, EmptiedType DEF DataType, ResetRuntime
  <2> QED BY <2>1, <2>2, TypedParts, PTL
<1> QED BY <1>1, <1>2, <1>3, <1>4, <1>5 DEF Call

\* The coroutine of a round moves on to the next worker, or ends.
LEMMA EndedType ==
    ASSUME RoundType, NEW n \in Rounds, co' = [co EXCEPT ![n] = Ended(n)]
    PROVE  RoundType'
<1>1. Ended(n) \in CoroutineType
  BY DEF RoundType, Ended, CoroutineType, Kinds
<1>2. co' \in [Rounds -> CoroutineType]
  BY <1>1 DEF RoundType
<1>3. ASSUME NEW m \in Rounds
      PROVE  /\ co'[m].todo \subseteq co'[m].asked
             /\ co'[m].st = "sending" <=> co'[m].todo # {}
  BY DEF RoundType, Ended
<1> QED BY <1>2, <1>3 DEF RoundType

LEMMA OnwardType ==
    ASSUME RoundType, NEW n \in Rounds, NEW w \in Workers, Onward(n, w)
    PROVE  RoundType'
<1> DEFINE todo == co[n].todo \ {w}
           next == IF todo # {} THEN "sending" ELSE "collecting"
           c    == [co[n] EXCEPT !.todo = todo, !.st = next]
<1>1. CASE todo = {} /\ co[n].kind = "integrity"
  BY <1>1, EndedType DEF Onward
<1>2. CASE ~(todo = {} /\ co[n].kind = "integrity")
  <2>1. co' = [co EXCEPT ![n] = c]
    BY <1>2 DEF Onward
  <2>2. co[n] \in CoroutineType /\ co[n].todo \subseteq co[n].asked
    BY DEF RoundType
  <2>3. c \in CoroutineType /\ c.todo = todo /\ c.asked = co[n].asked /\ c.st = next
    BY <2>2 DEF CoroutineType
  <2> HIDE DEF c
  <2>4. co' \in [Rounds -> CoroutineType]
    BY <2>1, <2>3 DEF RoundType
  <2>5. ASSUME NEW m \in Rounds
        PROVE  /\ co'[m].todo \subseteq co'[m].asked
               /\ co'[m].st = "sending" <=> co'[m].todo # {}
    BY <2>1, <2>2, <2>3 DEF RoundType
  <2> QED BY <2>4, <2>5 DEF RoundType
<1> QED BY <1>1, <1>2

\* What is written into the dictionary is an entry.
LEMMA RecordType ==
    ASSUME results \in [kind : Kinds, got : [Workers -> Entries]],
           NEW k, NEW w \in Workers, NEW e \in Entries, Record(k, w, e)
    PROVE  results' \in [kind : Kinds, got : [Workers -> Entries]]
<1>1. CASE results.kind = k
  BY <1>1 DEF Record
<1>2. CASE results.kind # k
  BY <1>2 DEF Record
<1> QED BY <1>1, <1>2

LEMMA SilencedType ==
    ASSUME results \in [kind : Kinds, got : [Workers -> Entries]], NEW ws
    PROVE  /\ Silenced(ws) \in [Workers -> Entries]
           /\ [results EXCEPT !.got = Silenced(ws)] \in [kind : Kinds, got : [Workers -> Entries]]
<1>1. [of |-> 0, ok |-> FALSE, why |-> "silent"] \in Entries
  BY SyncAssumption DEF Entries
<1>2. Silenced(ws) \in [Workers -> Entries]
  BY <1>1 DEF Silenced
<1> QED BY <1>2

LEMMA ReturnsType ==
    ASSUME CallType, NEW ok \in BOOLEAN, NEW late \in BOOLEAN, Returns(ok, late),
           UNCHANGED <<round, edition>>, main.st \in Kinds
    PROVE  CallType'
<1>1. main' \in MainType
  BY DEF CallType, Returns, MainType, Idle
<1>2. verdict' \in [ok : BOOLEAN, late : BOOLEAN]
  BY DEF Returns
<1>3. round > 0
  BY DEF CallType, Kinds
<1> QED BY <1>1, <1>2, <1>3 DEF CallType

\* What the server sends is loaded or reset at the worker, and answered.
LEMMA AnswerType ==
    ASSUME outbox \in [Workers -> Seq(Answers)], NEW w \in Workers, NEW k \in Kinds,
           NEW n \in Rounds, NEW ok \in BOOLEAN, Answer(w, k, n, ok)
    PROVE  outbox' \in [Workers -> Seq(Answers)]
<1>1. [kind |-> k, of |-> n, ok |-> ok] \in Answers
  BY DEF Answers
<1>2. Append(outbox[w], [kind |-> k, of |-> n, ok |-> ok]) \in Seq(Answers)
  BY <1>1
<1> QED BY <1>2 DEF Answer

LEMMA SendKeepsType ==
    ASSUME Typed, NEW n \in Rounds, NEW w \in Workers, Send(n, w)
    PROVE  Typed'
<1>0. NetType /\ CallType /\ RoundType /\ DataType
  BY TypedParts
<1>1. NetType' /\ CallType' /\ RoundType'
  BY <1>0, SameNetType, SameCallType, OnwardType DEF Send
<1>2. co[n] \in CoroutineType /\ worker[w] \in WorkerType /\ None \in Editions
  BY <1>0, SyncAssumption DEF RoundType, DataType, Editions, None
<1>3. CASE co[n].kind = "sync"
  <2>1. PICK ok \in BOOLEAN :
           /\ worker' = [worker EXCEPT ![w] =
                            [Cleared(w) EXCEPT !.load = IF ok THEN co[n].edition ELSE None]]
           /\ Answer(w, "sync", n, ok)
    BY <1>3 DEF Send, TakeBundle
  <2>2. Cleared(w) \in WorkerType
    BY <1>2 DEF Cleared, WorkerType
  <2>3. [Cleared(w) EXCEPT !.load = IF ok THEN co[n].edition ELSE None] \in WorkerType
    BY <1>2, <2>2 DEF WorkerType, CoroutineType
  <2>4. worker' \in [Workers -> WorkerType]
    BY <1>0, <2>1, <2>3 DEF DataType
  <2>5. outbox' \in [Workers -> Seq(Answers)]
    BY <1>0, <2>1, AnswerType DEF DataType, Kinds
  <2>6. DataType'
    BY <1>0, <2>4, <2>5 DEF DataType, Send
  <2> QED BY <1>1, <2>6, TypedParts, PTL
<1>4. CASE co[n].kind = "clean"
  <2>1. PICK ok \in BOOLEAN :
           /\ worker' = worker \/ worker' = [worker EXCEPT ![w] = Cleaned(w)]
           /\ Answer(w, "clean", n, ok)
    BY <1>4 DEF Send, TakeClean
  <2>2. Cleaned(w) \in WorkerType
    BY <1>2 DEF Cleaned, Cleared, WorkerType
  <2>3. outbox' \in [Workers -> Seq(Answers)]
    BY <1>0, <2>1, AnswerType DEF DataType, Kinds
  <2>4. DataType'
    BY <1>0, <2>1, <2>2, <2>3 DEF DataType, Send
  <2> QED BY <1>1, <2>4, TypedParts, PTL
<1>5. CASE co[n].kind = "integrity"
  <2>1. Answer(w, "integrity", n, SameScene(w, n)) /\ UNCHANGED worker
    BY <1>5 DEF Send, TakeProbe
  <2>2. SameScene(w, n) \in BOOLEAN
    BY DEF SameScene
  <2>3. outbox' \in [Workers -> Seq(Answers)]
    BY <1>0, <2>1, <2>2, AnswerType DEF DataType, Kinds
  <2>4. DataType'
    BY <1>0, <2>1, <2>3 DEF DataType, Send
  <2> QED BY <1>1, <2>4, TypedParts, PTL
<1> QED BY <1>2, <1>3, <1>4, <1>5 DEF CoroutineType, Kinds

LEMMA CoroutineKeepsType ==
    ASSUME Typed, AllPolled \/ Timeout \/ \E n \in Rounds : CoroutineStep(n)
    PROVE  Typed'
<1>0. NetType /\ CallType /\ RoundType /\ DataType
  BY TypedParts
<1>1. ASSUME NEW late \in BOOLEAN, Polled(late)
      PROVE  Typed'
  <2>1. NetType' /\ RoundType'
    BY <1>0, <1>1, SameNetType, SameRoundType DEF Polled
  <2>2. DataType'
    BY <1>0, <1>1, SilencedType DEF Polled, DataType
  <2>3. CallType'
    <3>1. AllAgree(results'.got) \in BOOLEAN /\ main.st \in Kinds
      BY <1>1 DEF AllAgree, Polled, Kinds
    <3> QED BY <1>0, <1>1, <3>1, ReturnsType DEF Polled
  <2> QED BY <2>1, <2>2, <2>3, TypedParts, PTL
<1>2. CASE FutureTimesOut
  <2>1. NetType' /\ RoundType' /\ DataType'
    BY <1>0, <1>2, SameNetType, SameRoundType, SameDataType DEF FutureTimesOut
  <2>2. CallType'
    BY <1>0, <1>2, ReturnsType DEF FutureTimesOut, Kinds
  <2> QED BY <2>1, <2>2, TypedParts, PTL
<1>3. ASSUME NEW n \in Rounds, NEW late \in BOOLEAN, Collected(n, late)
      PROVE  Typed'
  <2> DEFINE f  == Silenced(co[n].asked)
             ok == \A w \in Workers : f[w].why = "none" \/ f[w].ok
  <2>1. NetType' /\ RoundType'
    BY <1>0, <1>3, SameNetType, EndedType DEF Collected
  <2>2. DataType'
    BY <1>0, <1>3, SilencedType DEF Collected, DataType
  <2>3. CallType'
    <3>1. CASE Awaited(n)
      <4>1. Returns(ok, late) /\ UNCHANGED <<round, edition>>
        BY <1>3, <3>1 DEF Collected
      <4>2. main.st \in Kinds
        BY <1>0, <3>1 DEF Awaited, RoundType, CoroutineType
      <4> QED BY <1>0, <4>1, <4>2, ReturnsType
    <3>2. CASE ~Awaited(n)
      BY <1>0, <1>3, <3>2, SameCallType DEF Collected, mainVars
    <3> QED BY <3>1, <3>2
  <2> QED BY <2>1, <2>2, <2>3, TypedParts, PTL
<1>4. ASSUME NEW n \in Rounds, NEW w \in Workers, SendIntoTheVoid(n, w)
      PROVE  Typed'
  <2>1. NetType' /\ CallType' /\ RoundType' /\ DataType'
    BY <1>0, <1>4, SameNetType, SameCallType, SameDataType, OnwardType DEF SendIntoTheVoid
  <2> QED BY <2>1, TypedParts, PTL
<1>5. ASSUME NEW n \in Rounds, NEW w \in Workers, SendFails(n, w)
      PROVE  Typed'
  <2>1. NetType' /\ CallType' /\ RoundType'
    BY <1>0, <1>5, SameNetType, SameCallType, OnwardType DEF SendFails
  <2>2. [of |-> 0, ok |-> FALSE, why |-> "gone"] \in Entries
    BY SyncAssumption DEF Entries
  <2>3. DataType'
    BY <1>0, <1>5, <2>2, RecordType DEF SendFails, DataType
  <2> QED BY <2>1, <2>3, TypedParts, PTL
<1>6. ASSUME NEW n \in Rounds, NEW w \in Workers, CleanRaises(n, w)
      PROVE  Typed'
  <2>1. NetType' /\ DataType' /\ RoundType'
    BY <1>0, <1>6, SameNetType, SameDataType, EndedType DEF CleanRaises
  <2>2. CallType'
    <3>1. CASE Awaited(n)
      BY <1>0, <1>6, <3>1, ReturnsType DEF CleanRaises, Awaited, Kinds
    <3>2. CASE ~Awaited(n)
      BY <1>0, <1>6, <3>2, SameCallType DEF CleanRaises, mainVars
    <3> QED BY <3>1, <3>2
  <2> QED BY <2>1, <2>2, TypedParts, PTL
<1> QED
  BY <1>1, <1>2, <1>3, <1>4, <1>5, <1>6, SendKeepsType
  DEF AllPolled, PollTimesOut, Timeout, DeadlinePasses, AllCollected, CoroutineStep

\* A connection is lost, taken over or closed.
LEMMA DisconnectKeepsType ==
    ASSUME Typed, NEW w \in Workers, Lose(w) \/ Takeover(w) \/ Close(w)
    PROVE  Typed'
<1>0. NetType /\ CallType /\ RoundType /\ DataType
  BY TypedParts
<1>1. Disconnected(w) /\ registered' \in SUBSET Workers
  BY <1>0 DEF Lose, Takeover, Close, NetType
<1>2. CallType' /\ RoundType'
  BY <1>0, <1>1, SameCallType, SameRoundType DEF Disconnected
<1>3. DataType'
  BY <1>0, <1>1 DEF DataType, Disconnected
<1>4. NetType'
  <2>1. losses \in Nat /\ losses' \in 0..MaxLosses /\ losses <= losses'
    BY <1>0, SyncAssumption DEF NetType, Lose, Takeover, Close
  <2>2. w \in closing \/ losses' = losses + 1
    BY DEF Lose, Takeover, Close
  <2>3. ASSUME NEW x \in Workers
        PROVE  /\ stale[x] \in Nat /\ Handlers(x) <= losses
               /\ stale'[x] = IF x = w THEN stale[x] + 1 ELSE stale[x]
    BY <1>0, <1>1, SyncAssumption DEF NetType, Disconnected
  <2>4. ASSUME NEW x \in Workers PROVE Handlers(x)' <= losses'
    <3>1. CASE x = w
      <4>1. w \notin closing'
        BY <1>1 DEF Disconnected
      <4> QED BY <2>1, <2>2, <2>3, <3>1, <4>1 DEF Handlers
    <3>2. CASE x # w
      <4>1. x \in closing' <=> x \in closing
        BY <1>1, <3>2 DEF Disconnected
      <4> QED BY <2>1, <2>3, <3>2, <4>1 DEF Handlers
    <3> QED BY <3>1, <3>2
  <2>5. stale[w] + 1 \in 0..MaxLosses
    BY <1>0, <2>1, <2>2, <2>3, SyncAssumption DEF NetType, Handlers
  <2>6. stale' \in [Workers -> 0..MaxLosses]
    BY <1>0, <1>1, <2>5 DEF NetType, Disconnected
  <2> QED BY <1>0, <1>1, <2>1, <2>4, <2>6 DEF NetType, Disconnected
<1> QED BY <1>2, <1>3, <1>4, TypedParts, PTL

LEMMA WorkerKeepsType ==
    ASSUME Typed, NEW w \in Workers, ServerStep(w) \/ WorkerStep(w) \/ Lose(w)
    PROVE  Typed'
<1>0. NetType /\ CallType /\ RoundType /\ DataType
  BY TypedParts
<1>1. CASE ServerReceives(w)
  <2>1. NetType' /\ CallType' /\ RoundType'
    BY <1>0, <1>1, SameNetType, SameCallType, SameRoundType DEF ServerReceives
  <2>2. Head(outbox[w]) \in Answers /\ Tail(outbox[w]) \in Seq(Answers)
    BY <1>0, <1>1 DEF DataType, ServerReceives
  <2>3. outbox' \in [Workers -> Seq(Answers)]
    BY <1>0, <1>1, <2>2 DEF DataType, ServerReceives
  <2>4. [of |-> Head(outbox[w]).of, ok |-> Head(outbox[w]).ok, why |-> "answer"] \in Entries
    BY <2>2, SyncAssumption DEF Answers, Entries, Rounds
  <2>5. DataType'
    BY <1>0, <1>1, <2>3, <2>4, RecordType DEF DataType, ServerReceives
  <2> QED BY <2>1, <2>5, TypedParts, PTL
<1>2. CASE HandlerEnds(w)
  <2>1. CallType' /\ RoundType' /\ DataType'
    BY <1>0, <1>2, SameCallType, SameRoundType, SameDataType DEF HandlerEnds
  <2>2. NetType'
    <3>1. \A x \in Workers : /\ stale[x] \in Nat /\ Handlers(x) <= losses
                             /\ stale'[x] = IF x = w THEN stale[x] - 1 ELSE stale[x]
      BY <1>0, <1>2, SyncAssumption DEF NetType, HandlerEnds
    <3>2. stale' \in [Workers -> 0..MaxLosses]
      <4>1. stale[w] - 1 \in 0..MaxLosses
        BY <1>0, <1>2, SyncAssumption DEF NetType, HandlerEnds
      <4> QED BY <1>0, <1>2, <4>1 DEF NetType, HandlerEnds
    <3>3. \A x \in Workers : Handlers(x)' <= losses
      BY <1>0, <1>2, <3>1, SyncAssumption DEF NetType, HandlerEnds, Handlers
    <3> QED BY <1>0, <1>2, <3>2, <3>3 DEF NetType, HandlerEnds
  <2> QED BY <2>1, <2>2, TypedParts, PTL
<1>3. CASE LoadProject(w)
  <2>1. NetType' /\ CallType' /\ RoundType'
    BY <1>0, <1>3, SameNetType, SameCallType, SameRoundType DEF LoadProject
  <2>2. worker' \in [Workers -> WorkerType]
    <3>1. worker[w] \in WorkerType /\ None \in Editions
      BY <1>0, SyncAssumption DEF DataType, None, Editions
    <3>2. [worker[w] EXCEPT !.scene = worker[w].load, !.load = None] \in WorkerType
      BY <3>1 DEF WorkerType
    <3>3. worker' = [worker EXCEPT ![w] =
                        [worker[w] EXCEPT !.scene = worker[w].load, !.load = None]]
      BY <1>0, <1>3 DEF LoadProject, DataType, WorkerType
    <3> QED BY <1>0, <3>2, <3>3 DEF DataType
  <2>3. DataType'
    BY <1>0, <1>3, <2>2 DEF DataType, LoadProject
  <2> QED BY <2>1, <2>3, TypedParts, PTL
<1>4. CASE BlankReset(w)
  <2>1. NetType' /\ CallType' /\ RoundType'
    BY <1>0, <1>4, SameNetType, SameCallType, SameRoundType DEF BlankReset
  <2>2. worker' \in [Workers -> WorkerType]
    <3>1. worker[w] \in WorkerType /\ None \in Editions
      BY <1>0, SyncAssumption DEF DataType, None, Editions
    <3>2. [worker[w] EXCEPT !.scene = None, !.blank = FALSE] \in WorkerType
      BY <3>1 DEF WorkerType
    <3>3. worker' = [worker EXCEPT ![w] = [worker[w] EXCEPT !.scene = None, !.blank = FALSE]]
      BY <1>0, <1>4 DEF BlankReset, DataType, WorkerType
    <3> QED BY <1>0, <3>2, <3>3 DEF DataType
  <2>3. DataType'
    BY <1>0, <1>4, <2>2 DEF DataType, BlankReset
  <2> QED BY <2>1, <2>3, TypedParts, PTL
<1>5. CASE Reconnect(w)
  <2>1. CallType' /\ RoundType' /\ DataType'
    BY <1>0, <1>5, SameCallType, SameRoundType, SameDataType DEF Reconnect
  <2>2. NetType'
    BY <1>0, <1>5 DEF NetType, Reconnect, Handlers
  <2> QED BY <2>1, <2>2, TypedParts, PTL
<1>6. CASE Lose(w) \/ Takeover(w) \/ Close(w)
  BY <1>6, DisconnectKeepsType
<1>7. CASE GiveUp(w)
  <2>1. NetType' /\ CallType' /\ RoundType'
    BY <1>0, <1>7, SameNetType, SameCallType, SameRoundType DEF GiveUp
  <2>2. worker[w] \in WorkerType /\ None \in Editions
    BY <1>0, SyncAssumption DEF DataType, None, Editions
  <2>3. [worker[w] EXCEPT !.load = None] \in WorkerType
    BY <2>2 DEF WorkerType
  <2>4. worker' = [worker EXCEPT ![w] = [worker[w] EXCEPT !.load = None]]
    BY <1>0, <1>7 DEF GiveUp, DataType, WorkerType
  <2>5. DataType'
    BY <1>0, <1>7, <2>3, <2>4 DEF DataType, GiveUp
  <2> QED BY <2>1, <2>5, TypedParts, PTL
<1> QED BY <1>1, <1>2, <1>3, <1>4, <1>5, <1>6, <1>7 DEF ServerStep, WorkerStep

LEMMA TypedStep ==
    ASSUME Typed, [Next]_vars
    PROVE  Typed'
<1>1. CASE UNCHANGED vars
  <2>1. NetType /\ CallType /\ RoundType /\ DataType
    BY TypedParts
  <2>2. NetType' /\ CallType' /\ RoundType' /\ DataType'
    BY <1>1, <2>1, SameNetType, SameCallType, SameRoundType, SameDataType DEF vars
  <2> QED BY <2>2, TypedParts, PTL
<1>2. CASE Next
  BY <1>2, CallKeepsType, CoroutineKeepsType, WorkerKeepsType DEF Next
<1> QED BY <1>1, <1>2

\* Every variable of the rounds has its type, through coroutines given up and left running,
\* connections lost and answers under way: a coroutine that sends has a worker left to send
\* to, and no worker has more handlers of lost connections than connections were lost, taken
\* over or kicked.
THEOREM SyncTypeCorrect == Spec => []TypeOK
<1>1. Init => Typed
  BY InitTyped
<1>2. Typed /\ [Next]_vars => Typed'
  BY TypedStep
<1>3. Typed => TypeOK
  BY DEF Typed
<1> QED BY <1>1, <1>2, <1>3, PTL DEF Spec
-----------------------------------------------------------------------------
(* The verdict of a round. In a round that began when nothing of an earlier one was *)
(* under way only its own coroutine runs and only its own answers come in, although  *)
(* neither names a round; so what the dictionary holds at its end was said in it.    *)

\* The dictionary is that of the round, and only answers in it are a yes.
Books ==
    /\ main.st = "idle" => main = Idle
    /\ main.st = "clean" => ~main.start
    /\ main.st \in Kinds => results.kind = main.st
    /\ \A w \in Workers : results.got[w].ok => results.got[w].why = "answer"

Calm == main.quiet /\ main.st # "idle"

OneCoroutine ==
    Calm => \A n \in Rounds : co[n].st # "done" => /\ n = round
                                                   /\ co[n].kind = main.st
                                                   /\ co[n].asked = main.asked
                                                   /\ co[n].edition = edition

\* The answers of round n, of kind k, and those among them that say no
Mine(k, n) == [kind : {k}, of : {n}, ok : BOOLEAN]
Noes(k, n) == [kind : {k}, of : {n}, ok : {FALSE}]

OwnAnswers ==
    main.quiet /\ main.st \in Kinds => \A w \in Workers :
        /\ outbox[w] \in Seq(Mine(main.st, round))
        /\ results.got[w].why # "silent"
        /\ results.got[w].why = "answer" => results.got[w].of = round
        /\ w \notin main.asked => outbox[w] = << >> /\ results.got[w].why = "none"

Unanswered(w) == outbox[w] = << >> /\ results.got[w].why # "answer"
Refused(w)    == outbox[w] \in Seq(Noes(main.st, round)) /\ ~results.got[w].ok
Gone(w)       == worker[w].load = None /\ (worker[w].blank \/ worker[w].scene = None)
Ready(w)      == worker[w].load \in {None, edition}

CleanRound ==
    main.quiet /\ main.st = "clean" =>
        \A w \in Workers : Unanswered(w) \/ Gone(w) \/ Refused(w)

\* A start: its sync leaves no other bundle to load, but with those it has not asked and
\* that had one; its integrity round is told so by nobody else.
StartRound ==
    main.quiet /\ main.start => \A w \in Workers :
        /\ worker[w].blank => w \in main.blank
        /\ main.st = "sync" /\ w \in main.asked => Unanswered(w) \/ Ready(w)
        /\ main.st = "sync" /\ w \notin main.asked =>
             w \in main.behind \/ worker[w].load = None
        /\ main.st \in {"synced", "integrity"} => w \in main.behind \/ Ready(w)
        /\ main.st = "integrity" => \/ w \in main.behind \/ w \in main.blank
                                    \/ worker[w].scene = edition \/ Refused(w)

RoundInv == Books /\ OneCoroutine /\ OwnAnswers /\ CleanRound /\ StartRound

LEMMA InitRoundInv == Init => RoundInv
BY DEF Init, Idle, NoEntry, Kinds, RoundInv, Books, Calm, OneCoroutine, OwnAnswers,
       CleanRound, StartRound

\* Outside such a round only the books are kept.
LEMMA NotCalm ==
    ASSUME Books, ~Calm, UNCHANGED main, Books'
    PROVE  RoundInv'
BY DEF Books, Calm, Idle, Kinds, RoundInv, OneCoroutine, OwnAnswers, CleanRound, StartRound

LEMMA BackToIdle ==
    ASSUME main' = Idle, \A w \in Workers : results'.got[w].ok => results'.got[w].why = "answer"
    PROVE  RoundInv'
BY DEF Idle, Kinds, RoundInv, Books, Calm, OneCoroutine, OwnAnswers, CleanRound, StartRound

LEMMA SameRound ==
    ASSUME RoundInv, UNCHANGED <<mainVars, co, results, outbox, worker>>
    PROVE  RoundInv'
BY DEF mainVars, RoundInv, Books, Calm, OneCoroutine, OwnAnswers, CleanRound, StartRound,
       Unanswered, Refused, Gone, Ready

\* A coroutine that still runs is sending, to workers of its list, or collecting.
LEMMA OnlyItsCoroutine ==
    ASSUME RoundType, OneCoroutine, Calm, NEW n \in Rounds, co[n].st # "done"
    PROVE  /\ n = round /\ co[n].kind = main.st /\ main.st \in Kinds
           /\ co[n].asked = main.asked /\ co[n].edition = edition
           /\ co[n].todo \subseteq main.asked
BY DEF RoundType, CoroutineType, OneCoroutine

LEMMA OnwardKeeps ==
    ASSUME RoundType, OneCoroutine, NEW n \in Rounds, NEW w \in Workers, Onward(n, w),
           UNCHANGED <<main, round, edition>>
    PROVE  OneCoroutine'
<1> DEFINE todo == co[n].todo \ {w}
           next == IF todo # {} THEN "sending" ELSE "collecting"
<1>1. w \in co[n].todo /\ co[n].st = "sending"
  BY DEF Onward, RoundType
<1>2. CASE co' = [co EXCEPT ![n] = Ended(n)]
  BY <1>2 DEF RoundType, OneCoroutine, Calm, Ended
<1>3. CASE co' = [co EXCEPT ![n] = [@ EXCEPT !.todo = todo, !.st = next]]
  <2>1. ASSUME NEW m \in Rounds
        PROVE  /\ co'[m].kind = co[m].kind /\ co'[m].asked = co[m].asked
               /\ co'[m].edition = co[m].edition
               /\ co'[m].st # "done" => co[m].st # "done"
    BY <1>1, <1>3 DEF RoundType, CoroutineType
  <2> QED BY <2>1 DEF OneCoroutine, Calm
<1> QED BY <1>2, <1>3 DEF Onward

-----------------------------------------------------------------------------
\* A round begins: if it is quiet, with one coroutine, no answer and an empty dictionary.
LEMMA RoundBegins ==
    ASSUME Typed, NEW k \in Kinds, NEW ws \in SUBSET Workers, NEW start \in BOOLEAN,
           NEW quiet \in BOOLEAN, Begin(k, ws, start, quiet), quiet => Quiet,
           k = "clean" => ~start, UNCHANGED outbox, round + 1 \in Rounds,
           \/ co' = [co EXCEPT ![round + 1] = Coroutine(k, ws)]
           \/ co' = co
    PROVE  /\ Books' /\ OneCoroutine' /\ OwnAnswers' /\ CleanRound'
           /\ main'.st = k /\ main'.asked = ws /\ main'.start = start /\ main'.quiet = quiet
           /\ \A w \in Workers : results'.got[w] = NoEntry
           /\ quiet => \A w \in Workers : outbox'[w] = << >>
<1>1. /\ main'.st = k /\ main'.asked = ws /\ main'.start = start /\ main'.quiet = quiet
      /\ round' = round + 1
  BY DEF Begin
<1>2. results'.kind = k /\ \A w \in Workers : results'.got[w] = NoEntry
  BY DEF Begin, EmptyResults
<1>3. Books'
  BY <1>1, <1>2 DEF Books, NoEntry, Kinds
<1>4. quiet => \A w \in Workers : outbox'[w] = << >>
  BY DEF Quiet
<1>5. OneCoroutine'
  <2>1. CASE quiet
    <3>1. \A n \in Rounds : co[n].st = "done"
      BY <2>1 DEF Quiet
    <3>2. ASSUME NEW n \in Rounds, co'[n].st # "done"
          PROVE  n = round' /\ co'[n].kind = k /\ co'[n].asked = ws /\ co'[n].edition = edition'
      <4>1. co' = [co EXCEPT ![round + 1] = Coroutine(k, ws)]
        BY <3>1, <3>2
      <4>2. n = round + 1
        BY <3>1, <3>2, <4>1
      <4>3. co'[n] = Coroutine(k, ws)
        BY <4>1, <4>2, TypedParts DEF RoundType
      <4> QED BY <1>1, <4>2, <4>3 DEF Coroutine
    <3> QED BY <1>1, <3>2 DEF OneCoroutine
  <2>2. CASE ~quiet
    BY <1>1, <2>2 DEF OneCoroutine, Calm
  <2> QED BY <2>1, <2>2
<1>6. OwnAnswers' /\ CleanRound'
  <2>1. << >> \in Seq(Mine(main'.st, round'))
    OBVIOUS
  <2>2. OwnAnswers'
    <3>1. ASSUME quiet, NEW w \in Workers
          PROVE  /\ outbox'[w] \in Seq(Mine(main'.st, round'))
                 /\ outbox'[w] = << >> /\ results'.got[w].why = "none"
      <4>1. outbox'[w] = << >> /\ results'.got[w] = NoEntry
        BY <1>2, <1>4, <3>1
      <4> QED BY <2>1, <4>1 DEF NoEntry
    <3> QED BY <1>1, <3>1 DEF OwnAnswers
  <2>3. CleanRound'
    BY <1>1, <1>2, <1>4 DEF CleanRound, Unanswered, NoEntry
  <2> QED BY <2>2, <2>3
<1> QED BY <1>1, <1>2, <1>3, <1>4, <1>5, <1>6

LEMMA CallKeepsRound ==
    ASSUME Typed, RoundInv, Call
    PROVE  RoundInv'
<1>0. NetType /\ CallType /\ Books /\ StartRound
  BY TypedParts DEF RoundInv
<1>1. ASSUME NEW start \in BOOLEAN, CallSync(start)
      PROVE  RoundInv'
  <2>1. registered' \in SUBSET Workers /\ Quiet \in BOOLEAN
    BY <1>0, <1>1 DEF CallSync, NetType, Quiet
  <2>2. Begin("sync", registered', start, Quiet) /\ Edit /\ "sync" \in Kinds
    BY <1>1 DEF CallSync, Kinds
  <2>3. round + 1 \in Rounds
    BY <2>1, <2>2, BeginType
  <2>4. /\ Books' /\ OneCoroutine' /\ OwnAnswers' /\ CleanRound'
        /\ main'.st = "sync" /\ main'.asked = registered' /\ main'.start = start
        /\ main'.quiet = Quiet
        /\ \A w \in Workers : results'.got[w] = NoEntry
        /\ Quiet => \A w \in Workers : outbox'[w] = << >>
    BY <1>1, <2>1, <2>2, <2>3, RoundBegins DEF CallSync
  <2>5. StartRound'
    <3>1. CASE Quiet /\ start
      <4>1. /\ \A w \in Workers : worker[w].blank => w \in main'.blank
            /\ main'.behind = {w \in Workers \ registered' : worker[w].load # None}
        BY <2>2, <3>1 DEF Begin
      <4>2. \A w \in Workers : Unanswered(w)'
        BY <2>4, <3>1 DEF Unanswered, NoEntry
      <4> QED BY <1>1, <2>4, <4>1, <4>2 DEF StartRound, CallSync
    <3>2. CASE ~(Quiet /\ start)
      BY <2>4, <3>2 DEF StartRound
    <3> QED BY <3>1, <3>2
  <2> QED BY <2>4, <2>5 DEF RoundInv
<1>2. CASE CallClean
  <2>1. registered' \in SUBSET Workers /\ Quiet \in BOOLEAN
    BY <1>0, <1>2 DEF CallClean, NetType, Quiet
  <2>2. Begin("clean", registered', FALSE, Quiet) /\ "clean" \in Kinds
    BY <1>2 DEF CallClean, Kinds
  <2>3. round + 1 \in Rounds
    BY <1>2, <2>1, <2>2, BeginType DEF CallClean
  <2>4. /\ Books' /\ OneCoroutine' /\ OwnAnswers' /\ CleanRound' /\ main'.start = FALSE
    BY <1>2, <2>1, <2>2, <2>3, RoundBegins DEF CallClean
  <2> QED BY <2>4 DEF RoundInv, StartRound
<1>3. CASE CallIntegrity
  <2> DEFINE quiet == main.quiet /\ Quiet
  <2>1. /\ registered \in SUBSET Workers /\ "integrity" \in Kinds
        /\ main.start \in BOOLEAN /\ quiet \in BOOLEAN
    BY <1>0 DEF NetType, CallType, MainType, Kinds
  <2>2. /\ Begin("integrity", registered, main.start, quiet)
        /\ Edit \/ UNCHANGED edition
    BY <1>3 DEF CallIntegrity
  <2>3. round + 1 \in Rounds
    BY <2>1, <2>2, BeginType
  <2>4. UNCHANGED outbox /\ (\/ co' = [co EXCEPT ![round + 1] = Coroutine("integrity", registered)]
                             \/ co' = co)
    BY <1>3 DEF CallIntegrity
  <2>5. /\ Books' /\ OneCoroutine' /\ OwnAnswers' /\ CleanRound'
        /\ main'.st = "integrity" /\ main'.asked = registered /\ main'.start = main.start
        /\ main'.quiet = quiet
        /\ \A w \in Workers : results'.got[w] = NoEntry
        /\ quiet => \A w \in Workers : outbox'[w] = << >>
    <3> HIDE DEF quiet
    <3>1. quiet => Quiet
      BY DEF quiet
    <3> QED BY <2>1, <2>2, <2>3, <2>4, <3>1, RoundBegins
  <2>6. StartRound'
    <3>1. CASE quiet /\ main.start
      <4>1. main.st = "synced" /\ UNCHANGED <<edition, worker>>
        BY <1>0, <1>3, <3>1 DEF CallIntegrity, Books, Idle
      <4>2. main.blank \subseteq main'.blank /\ main'.behind = main.behind
        BY <2>2 DEF Begin
      <4>3. ASSUME NEW w \in Workers PROVE Refused(w)'
        <5>1. << >> \in Seq(Noes(main'.st, round'))
          OBVIOUS
        <5>2. outbox'[w] = << >> /\ results'.got[w] = NoEntry
          BY <2>5, <3>1
        <5> QED BY <5>1, <5>2 DEF Refused, NoEntry, Noes
      <4> QED BY <1>0, <2>5, <3>1, <4>1, <4>2, <4>3 DEF StartRound, Ready
    <3>2. CASE ~(quiet /\ main.start)
      BY <2>5, <3>2 DEF StartRound
    <3> QED BY <3>1, <3>2
  <2> QED BY <2>5, <2>6 DEF RoundInv
<1>4. CASE KickAllWorkers \/ ResetRuntime
  <2>1. main.st = "idle" /\ UNCHANGED main
    BY <1>4 DEF KickAllWorkers, ResetRuntime, mainVars
  <2>2. ~Calm /\ UNCHANGED main
    BY <2>1 DEF Calm
  <2>3. PICK kinds : results' = Emptied(kinds)
    BY <1>4 DEF KickAllWorkers, ResetRuntime
  <2>4. \A w \in Workers : results'.got[w].ok => results'.got[w].why = "answer"
    BY <1>0, <2>3 DEF Books, Emptied, EmptyResults, NoEntry
  <2>5. Books'
    BY <1>0, <2>1, <2>4 DEF Books, Kinds
  <2> QED BY <1>0, <2>2, <2>5, NotCalm
<1> QED BY <1>1, <1>2, <1>3, <1>4 DEF Call

LEMMA AppendSeq == ASSUME NEW S, NEW s \in Seq(S), NEW x \in S PROVE Append(s, x) \in Seq(S)
OBVIOUS

LEMMA TailSeq ==
    ASSUME NEW S, NEW s \in Seq(S), s # << >>
    PROVE  Head(s) \in S /\ Tail(s) \in Seq(S)
OBVIOUS

\* A worker takes the message of the round and answers it: a bundle is all it has to load
\* then, a clean leaves nothing, and a yes to the probe means that it shows the scene.
LEMMA SendKeepsRound ==
    ASSUME Typed, RoundInv, NEW n \in Rounds, NEW w \in Workers, Send(n, w)
    PROVE  RoundInv'
<1>0. /\ RoundType /\ DataType /\ CallType
      /\ Books /\ OneCoroutine /\ OwnAnswers /\ CleanRound /\ StartRound
  BY TypedParts DEF RoundInv
<1>1. UNCHANGED <<main, round, edition, results>> /\ Onward(n, w)
  BY DEF Send, mainVars
<1>2. w \in co[n].todo /\ co[n].st # "done"
  BY <1>0, <1>1 DEF Onward, RoundType
<1>3. Books'
  BY <1>0, <1>1 DEF Books
<1>4. CASE ~Calm
  BY <1>0, <1>1, <1>3, <1>4, NotCalm
<1>5. CASE Calm
  <2>1. /\ n = round /\ co[n].kind = main.st /\ main.st \in Kinds
        /\ co[n].edition = edition /\ w \in main.asked
    BY <1>0, <1>2, <1>5, OnlyItsCoroutine
  <2>2. main.quiet
    BY <1>5 DEF Calm
  <2>3. OneCoroutine'
    BY <1>0, <1>1, OnwardKeeps
  <2>4. PICK ok \in BOOLEAN : Answer(w, main.st, round, ok)
    <3>1. SameScene(w, n) \in BOOLEAN
      BY DEF SameScene
    <3> QED BY <2>1, <3>1 DEF Send, TakeBundle, TakeClean, TakeProbe, Kinds
  <2> DEFINE a == [kind |-> main.st, of |-> round, ok |-> ok]
  <2>5. /\ outbox' = [outbox EXCEPT ![w] = Append(@, a)]
        /\ outbox'[w] = Append(outbox[w], a)
        /\ \A x \in Workers : x # w => outbox'[x] = outbox[x]
    BY <1>0, <2>4 DEF Answer, DataType
  <2>6. OwnAnswers'
    <3>1. a \in Mine(main.st, round)
      BY DEF Mine
    <3>2. outbox[w] \in Seq(Mine(main.st, round))
      BY <1>0, <2>1, <2>2 DEF OwnAnswers
    <3>3. outbox'[w] \in Seq(Mine(main.st, round))
      BY <2>5, <3>1, <3>2, AppendSeq
    <3> QED BY <1>0, <1>1, <2>1, <2>2, <2>5, <3>3 DEF OwnAnswers
  <2>7. \A x \in Workers : x # w => worker'[x] = worker[x]
    BY <1>0, <2>1 DEF Send, TakeBundle, TakeClean, TakeProbe, Kinds, DataType
  <2>8. CleanRound'
    <3>1. CASE main.st = "clean"
      <4>1. ASSUME worker'[w] = Cleaned(w) PROVE Gone(w)'
        BY <1>0, <4>1 DEF Gone, Cleaned, Cleared, DataType, WorkerType
      <4>2. ASSUME UNCHANGED worker, Answer(w, "clean", n, FALSE)
            PROVE  Gone(w)' \/ Refused(w)'
        <5>1. ASSUME Unanswered(w) \/ Refused(w) PROVE Refused(w)'
          <6> DEFINE no == [kind |-> "clean", of |-> n, ok |-> FALSE]
          <6>1. outbox[w] \in Seq(Noes(main.st, round)) /\ ~results.got[w].ok
            <7>1. << >> \in Seq(Noes(main.st, round))
              OBVIOUS
            <7> QED BY <1>0, <5>1, <7>1 DEF Unanswered, Refused, Books
          <6>2. outbox'[w] = Append(outbox[w], no)
            BY <1>0, <4>2 DEF Answer, DataType
          <6>3. no \in Noes(main.st, round)
            BY <2>1, <3>1 DEF Noes
          <6>4. outbox'[w] \in Seq(Noes(main.st, round))
            BY <6>1, <6>2, <6>3, AppendSeq
          <6> QED BY <1>1, <6>1, <6>4 DEF Refused
        <5>2. Gone(w) => Gone(w)'
          BY <4>2 DEF Gone
        <5> QED BY <1>0, <2>2, <3>1, <5>1, <5>2 DEF CleanRound
      <4>3. Gone(w)' \/ Refused(w)'
        BY <1>0, <2>1, <3>1, <4>1, <4>2 DEF Send, TakeClean, DataType
      <4>4. ASSUME NEW x \in Workers, x # w
            PROVE  (Unanswered(x) \/ Gone(x) \/ Refused(x)) =>
                     (Unanswered(x) \/ Gone(x) \/ Refused(x))'
        BY <1>1, <2>5, <2>7, <4>4 DEF Unanswered, Gone, Refused
      <4> QED BY <1>0, <1>1, <2>2, <3>1, <4>3, <4>4 DEF CleanRound
    <3>2. CASE main.st # "clean"
      BY <1>1, <3>2 DEF CleanRound
    <3> QED BY <3>1, <3>2
  <2>9. StartRound'
    <3>1. CASE ~main.start
      BY <1>1, <3>1 DEF StartRound
    <3>2. CASE main.start /\ main.st = "sync"
      <4>1. PICK yes \in BOOLEAN :
              worker' = [worker EXCEPT ![w] =
                           [Cleared(w) EXCEPT !.load = IF yes THEN co[n].edition ELSE None]]
        BY <2>1, <3>2 DEF Send, TakeBundle
      <4>2. /\ worker'[w].blank = worker[w].blank
            /\ worker'[w].load \in {None, edition}
        BY <1>0, <2>1, <4>1 DEF Cleared, DataType, WorkerType
      <4> QED BY <1>0, <1>1, <2>1, <2>2, <2>5, <2>7, <3>2, <4>2
              DEF StartRound, Unanswered, Ready
    <3>3. CASE main.start /\ main.st = "integrity"
      <4>1. UNCHANGED worker /\ Answer(w, "integrity", n, SameScene(w, n))
        BY <2>1, <3>3 DEF Send, TakeProbe
      <4>2. ASSUME worker[w].scene # edition, Refused(w) PROVE Refused(w)'
        <5> DEFINE no == [kind |-> "integrity", of |-> n, ok |-> FALSE]
        <5>1. SameScene(w, n) = FALSE
          BY <2>1, <4>2, Zenon DEF SameScene
        <5>2. outbox'[w] = Append(outbox[w], no)
          BY <1>0, <4>1, <5>1 DEF Answer, DataType
        <5>3. outbox[w] \in Seq(Noes(main.st, round)) /\ no \in Noes(main.st, round)
          BY <2>1, <3>3, <4>2 DEF Refused, Noes
        <5>4. outbox'[w] \in Seq(Noes(main.st, round))
          BY <5>2, <5>3, AppendSeq
        <5> QED BY <1>1, <4>2, <5>4 DEF Refused
      <4>3. ASSUME NEW x \in Workers, x # w, Refused(x) PROVE Refused(x)'
        BY <1>1, <2>5, <4>3 DEF Refused
      <4> QED BY <1>0, <1>1, <2>2, <3>3, <4>1, <4>2, <4>3 DEF StartRound, Ready
    <3> QED BY <1>0, <2>1, <3>1, <3>2, <3>3 DEF Books, Kinds
  <2> QED BY <1>3, <2>3, <2>6, <2>8, <2>9 DEF RoundInv
<1> QED BY <1>4, <1>5

\* The message is lost, or is known not to have gone out.
LEMMA NotSentKeepsRound ==
    ASSUME Typed, RoundInv, NEW n \in Rounds, NEW w \in Workers,
           SendIntoTheVoid(n, w) \/ SendFails(n, w)
    PROVE  RoundInv'
<1>0. /\ RoundType /\ DataType /\ CallType
      /\ Books /\ OneCoroutine /\ OwnAnswers /\ CleanRound /\ StartRound
  BY TypedParts DEF RoundInv
<1> DEFINE gone == [of |-> 0, ok |-> FALSE, why |-> "gone"]
<1>1. UNCHANGED <<main, round, edition, outbox, worker>> /\ Onward(n, w)
  BY DEF SendIntoTheVoid, SendFails, mainVars
<1>2. w \in co[n].todo /\ co[n].st # "done"
  BY <1>0, <1>1 DEF Onward, RoundType
<1>3. /\ results'.kind = results.kind
      /\ \A x \in Workers : \/ results'.got[x] = results.got[x]
                            \/ x = w /\ results'.got[x] = gone
  BY <1>0 DEF SendIntoTheVoid, SendFails, Record, DataType
<1>4. Books'
  BY <1>0, <1>1, <1>3 DEF Books
<1>5. CASE ~Calm
  BY <1>0, <1>1, <1>4, <1>5, NotCalm
<1>6. CASE Calm
  <2>1. w \in main.asked
    BY <1>0, <1>2, <1>6, OnlyItsCoroutine
  <2>2. OneCoroutine'
    BY <1>0, <1>1, OnwardKeeps
  <2>3. OwnAnswers'
    BY <1>0, <1>1, <1>3, <2>1 DEF OwnAnswers
  <2>4. CleanRound'
    BY <1>0, <1>1, <1>3 DEF CleanRound, Unanswered, Gone, Refused
  <2>5. StartRound'
    BY <1>0, <1>1, <1>3 DEF StartRound, Unanswered, Refused, Ready
  <2> QED BY <1>4, <2>2, <2>3, <2>4, <2>5 DEF RoundInv
<1> QED BY <1>5, <1>6

\* The main thread takes up again; only after the sync of a start is the round not over.
LEMMA ReturnsKeeps ==
    ASSUME NEW ok, NEW late, Returns(ok, late), ~(main.st = "sync" /\ main.start /\ ok),
           \A w \in Workers : results'.got[w].ok => results'.got[w].why = "answer"
    PROVE  RoundInv'
BY BackToIdle DEF Returns

LEMMA SilenceIsNoAnswer ==
    ASSUME DataType, Books, NEW ws
    PROVE  \A w \in Workers : Silenced(ws)[w].ok => Silenced(ws)[w] = results.got[w]
                                                   /\ Silenced(ws)[w].why = "answer"
BY DEF Silenced, Books

LEMMA CollectedKeepsRound ==
    ASSUME Typed, RoundInv, NEW n \in Rounds, NEW late \in BOOLEAN, Collected(n, late)
    PROVE  RoundInv'
<1> DEFINE f  == Silenced(co[n].asked)
           ok == \A w \in Workers : f[w].why = "none" \/ f[w].ok
<1>0. /\ RoundType /\ DataType /\ CallType
      /\ Books /\ OneCoroutine /\ OwnAnswers /\ CleanRound /\ StartRound
  BY TypedParts DEF RoundInv
<1>1. /\ results'.kind = results.kind
      /\ results' = [results EXCEPT !.got = f] \/ results' = results
      /\ UNCHANGED <<round, edition, outbox, worker>>
      /\ co[n].st = "collecting" /\ co' = [co EXCEPT ![n] = Ended(n)]
  BY <1>0 DEF Collected, DataType
<1>2. \A w \in Workers : results'.got[w].ok => results'.got[w].why = "answer"
  <2>1. CASE results' = [results EXCEPT !.got = f]
    <3>1. results'.got = f
      BY <1>0, <2>1 DEF DataType
    <3> QED BY <1>0, <3>1, SilenceIsNoAnswer
  <2>2. CASE results' = results
    BY <1>0, <2>2 DEF Books
  <2> QED BY <1>1, <2>1, <2>2
<1>3. CASE ~Awaited(n)
  <2>1. UNCHANGED main
    BY <1>3 DEF Collected
  <2>2. ~Calm
    BY <1>0, <1>1, <1>3, OnlyItsCoroutine DEF Awaited
  <2>3. Books'
    BY <1>0, <1>1, <1>2, <2>1 DEF Books
  <2> QED BY <1>0, <2>1, <2>2, <2>3, NotCalm
<1>4. CASE Awaited(n)
  <2>1. Returns(ok, late)
    BY <1>4 DEF Collected
  <2>2. CASE ~(main.st = "sync" /\ main.start /\ ok)
    <3> HIDE DEF ok
    <3> QED BY <1>2, <2>1, <2>2, ReturnsKeeps
  <2>3. CASE main.st = "sync" /\ main.start /\ ok
    <3>1. main' = [main EXCEPT !.st = "synced"]
      BY <2>1, <2>3 DEF Returns
    <3>2. /\ main'.st = "synced" /\ main'.quiet = main.quiet /\ main'.start = main.start
          /\ main'.blank = main.blank /\ main'.behind = main.behind
      BY <1>0, <3>1 DEF CallType, MainType
    <3>3. Books' /\ OwnAnswers' /\ CleanRound'
      BY <1>2, <3>2 DEF Books, OwnAnswers, CleanRound, Kinds
    <3>4. OneCoroutine'
      <4>1. ASSUME main.quiet, NEW m \in Rounds PROVE co'[m].st = "done"
        <5>1. Calm
          BY <2>3, <4>1 DEF Calm
        <5>2. m # n => co[m].st = "done"
          BY <1>0, <1>4, <5>1 DEF OneCoroutine, Awaited
        <5> QED BY <1>0, <1>1, <5>2 DEF RoundType, Ended
      <4> QED BY <3>2, <4>1 DEF OneCoroutine, Calm
    <3>5. StartRound'
      <4>1. ASSUME main.quiet, NEW w \in Workers PROVE w \in main.behind \/ Ready(w)
        <5>1. co[n].asked = main.asked
          BY <1>0, <1>1, <2>3, <4>1, OnlyItsCoroutine DEF Calm
        <5>2. CASE w \in main.asked
          <6>1. f[w].why # "none"
            BY <5>1, <5>2 DEF Silenced
          <6>2. f[w].ok
            BY <2>3, <6>1
          <6>3. results.got[w].why = "answer"
            BY <1>0, <6>2, SilenceIsNoAnswer
          <6> QED BY <1>0, <2>3, <4>1, <5>2, <6>3 DEF StartRound, Unanswered
        <5>3. CASE w \notin main.asked
          BY <1>0, <2>3, <4>1, <5>3 DEF StartRound, Ready
        <5> QED BY <5>2, <5>3
      <4> QED BY <1>0, <1>1, <2>3, <3>2, <4>1 DEF StartRound, Ready
    <3> QED BY <3>3, <3>4, <3>5 DEF RoundInv
  <2> QED BY <2>2, <2>3
<1> QED BY <1>3, <1>4

LEMMA CoroutineKeepsRound ==
    ASSUME Typed, RoundInv, AllPolled \/ Timeout \/ \E n \in Rounds : CoroutineStep(n)
    PROVE  RoundInv'
<1>0. /\ RoundType /\ DataType /\ CallType
      /\ Books /\ OneCoroutine /\ OwnAnswers /\ CleanRound /\ StartRound
  BY TypedParts DEF RoundInv
<1>1. ASSUME NEW late \in BOOLEAN, Polled(late)
      PROVE  RoundInv'
  <2>1. results'.got = Silenced(main.asked) /\ main.st = "integrity"
    BY <1>0, <1>1 DEF Polled, DataType
  <2>2. \A w \in Workers : results'.got[w].ok => results'.got[w].why = "answer"
    BY <1>0, <2>1, SilenceIsNoAnswer
  <2> QED BY <1>1, <2>1, <2>2, ReturnsKeeps DEF Polled
<1>2. CASE FutureTimesOut
  BY <1>0, <1>2, ReturnsKeeps DEF FutureTimesOut, Books
<1>3. ASSUME NEW n \in Rounds, NEW w \in Workers, CleanRaises(n, w)
      PROVE  RoundInv'
  <2>1. CASE Awaited(n)
    BY <1>0, <1>3, <2>1, ReturnsKeeps DEF CleanRaises, Books
  <2>2. CASE ~Awaited(n)
    <3>1. co[n].st # "done" /\ UNCHANGED <<main, results>>
      BY <1>0, <1>3, <2>2 DEF CleanRaises, RoundType
    <3>2. ~Calm
      BY <1>0, <2>2, <3>1, OnlyItsCoroutine DEF Awaited
    <3>3. Books'
      BY <1>0, <3>1 DEF Books
    <3> QED BY <1>0, <3>1, <3>2, <3>3, NotCalm
  <2> QED BY <2>1, <2>2
<1> QED
  BY <1>1, <1>2, <1>3, SendKeepsRound, NotSentKeepsRound, CollectedKeepsRound
  DEF AllPolled, PollTimesOut, Timeout, DeadlinePasses, AllCollected, CoroutineStep

LEMMA ReceivesKeepsRound ==
    ASSUME Typed, RoundInv, NEW w \in Workers, ServerReceives(w)
    PROVE  RoundInv'
<1> DEFINE a == Head(outbox[w])
           e == [of |-> a.of, ok |-> a.ok, why |-> "answer"]
<1>0. /\ RoundType /\ DataType /\ CallType
      /\ Books /\ OneCoroutine /\ OwnAnswers /\ CleanRound /\ StartRound
  BY TypedParts DEF RoundInv
<1>1. /\ UNCHANGED <<main, round, edition, co, worker>>
      /\ outbox[w] # << >> /\ Record(a.kind, w, e)
  BY DEF ServerReceives, mainVars
<1>2. /\ outbox'[w] = Tail(outbox[w])
      /\ \A x \in Workers : x # w => outbox'[x] = outbox[x]
  BY <1>0 DEF ServerReceives, DataType
<1>3. /\ results'.kind = results.kind
      /\ \A x \in Workers : x # w => results'.got[x] = results.got[x]
      /\ results.kind = a.kind => results'.got[w] = e
      /\ results.kind # a.kind => results'.got[w] = results.got[w]
  <2> HIDE DEF a, e
  <2> QED BY <1>0, <1>1 DEF Record, DataType
<1>4. Books'
  BY <1>0, <1>1, <1>3 DEF Books
<1>5. CASE ~Calm
  BY <1>0, <1>1, <1>4, <1>5, NotCalm
<1>6. CASE Calm /\ main.st \notin Kinds
  <2>1. OneCoroutine' /\ OwnAnswers' /\ CleanRound'
    BY <1>0, <1>1, <1>6 DEF OneCoroutine, Calm, OwnAnswers, CleanRound, Kinds
  <2>2. StartRound'
    BY <1>0, <1>1, <1>6 DEF StartRound, Ready, Kinds
  <2> QED BY <1>4, <2>1, <2>2 DEF RoundInv
<1>7. CASE Calm /\ main.st \in Kinds
  <2>1. outbox[w] \in Seq(Mine(main.st, round)) /\ w \in main.asked /\ main.quiet
    BY <1>0, <1>1, <1>7 DEF OwnAnswers, Calm
  <2>2. a \in Mine(main.st, round) /\ outbox'[w] \in Seq(Mine(main.st, round))
    BY <1>1, <1>2, <2>1, TailSeq
  <2>3. results'.got[w] = e /\ a.of = round
    BY <1>0, <1>3, <1>7, <2>2 DEF Books, Mine
  <2>4. OneCoroutine'
    BY <1>0, <1>1 DEF OneCoroutine, Calm
  <2>5. OwnAnswers'
    <3> HIDE DEF a
    <3> QED BY <1>0, <1>1, <1>2, <1>3, <2>1, <2>2, <2>3 DEF OwnAnswers
  <2>6. ASSUME NEW x \in Workers, Refused(x) PROVE Refused(x)'
    <3>1. CASE x # w
      BY <1>1, <1>2, <1>3, <2>6, <3>1 DEF Refused
    <3>2. CASE x = w
      <4>1. a \in Noes(main.st, round) /\ outbox'[w] \in Seq(Noes(main.st, round))
        BY <1>1, <1>2, <2>6, <3>2, TailSeq DEF Refused
      <4>2. a.ok = FALSE
        BY <4>1 DEF Noes
      <4>3. results'.got[w].ok = a.ok
        BY <2>3
      <4> HIDE DEF a
      <4> QED BY <1>1, <3>2, <4>1, <4>2, <4>3 DEF Refused
    <3> QED BY <3>1, <3>2
  <2>7. CleanRound'
    <3>1. main.st = "clean" => Gone(w) \/ Refused(w)
      BY <1>0, <1>1, <2>1 DEF CleanRound, Unanswered
    <3> QED BY <1>0, <1>1, <1>2, <1>3, <2>6, <3>1 DEF CleanRound, Unanswered, Gone
  <2>8. StartRound'
    <3>3. ASSUME main.quiet, main.start, main.st = "sync" PROVE Ready(w)
      BY <1>0, <1>1, <2>1, <3>3 DEF StartRound, Unanswered
    <3>4. ASSUME NEW x \in Workers, x # w, Unanswered(x) PROVE Unanswered(x)'
      BY <1>2, <1>3, <3>4 DEF Unanswered
    <3>5. \A x \in Workers : Ready(x) <=> Ready(x)'
      BY <1>1 DEF Ready
    <3> QED BY <1>0, <1>1, <2>1, <2>6, <3>3, <3>4, <3>5 DEF StartRound
  <2> QED BY <1>4, <2>4, <2>5, <2>7, <2>8 DEF RoundInv
<1> QED BY <1>5, <1>6, <1>7

\* What a worker does by itself takes it no further from the scene of the round, and a
\* connection lost takes answers away.
LEMMA WorkerKeepsRound ==
    ASSUME Typed, RoundInv, NEW w \in Workers, ServerStep(w) \/ WorkerStep(w) \/ Lose(w)
    PROVE  RoundInv'
<1>0. /\ RoundType /\ DataType /\ CallType
      /\ Books /\ OneCoroutine /\ OwnAnswers /\ CleanRound /\ StartRound
  BY TypedParts DEF RoundInv
<1>1. CASE ServerReceives(w)
  BY <1>1, ReceivesKeepsRound
<1>2. CASE HandlerEnds(w)
  BY <1>2, SameRound DEF HandlerEnds
<1>3. CASE Reconnect(w)
  BY <1>3, SameRound DEF Reconnect
<1>4. CASE Lose(w) \/ Takeover(w) \/ Close(w)
  <2>0. Disconnected(w)
    BY <1>4 DEF Lose, Takeover, Close
  <2>1. UNCHANGED <<main, round, edition, co, results, worker>>
    BY <2>0 DEF Disconnected, mainVars
  <2>2. \A x \in Workers : outbox'[x] = << >> \/ outbox'[x] = outbox[x]
    BY <1>0, <2>0 DEF Disconnected, DataType
  <2>3. Books' /\ OneCoroutine'
    BY <1>0, <2>1 DEF Books, OneCoroutine, Calm
  <2>4. \A k \in Kinds, n \in 0..MaxRounds :
           << >> \in Seq(Mine(k, n)) /\ << >> \in Seq(Noes(k, n))
    OBVIOUS
  <2>5. OwnAnswers'
    BY <1>0, <2>1, <2>2, <2>4 DEF OwnAnswers, CallType
  <2>6. ASSUME NEW x \in Workers, Refused(x), main.st \in Kinds PROVE Refused(x)'
    BY <1>0, <2>1, <2>2, <2>4, <2>6 DEF Refused, CallType
  <2>7. CleanRound'
    BY <1>0, <2>1, <2>2, <2>6 DEF CleanRound, Unanswered, Gone, Kinds
  <2>8. StartRound'
    BY <1>0, <2>1, <2>2, <2>6 DEF StartRound, Unanswered, Ready, Kinds
  <2> QED BY <2>3, <2>5, <2>7, <2>8 DEF RoundInv
<1>5. CASE LoadProject(w) \/ GiveUp(w) \/ BlankReset(w)
  <2>1. UNCHANGED <<main, round, edition, co, results, outbox>>
    BY <1>5 DEF LoadProject, GiveUp, BlankReset, mainVars
  <2>2. Books' /\ OneCoroutine' /\ OwnAnswers'
    BY <1>0, <2>1 DEF Books, OneCoroutine, Calm, OwnAnswers
  <2>3. \A x \in Workers : x # w => worker'[x] = worker[x]
    BY <1>0, <1>5 DEF LoadProject, GiveUp, BlankReset, DataType
  <2>4. \/ /\ worker[w].load # None /\ worker'[w].load = None
           /\ worker'[w].scene = worker[w].load /\ worker'[w].blank = worker[w].blank
        \/ /\ worker[w].blank /\ worker'[w].load = worker[w].load
           /\ worker'[w].scene = None /\ worker'[w].blank = FALSE
        \/ /\ worker'[w].load = None /\ worker'[w].blank = worker[w].blank
           /\ worker'[w].scene = worker[w].scene
    BY <1>0, <1>5 DEF LoadProject, GiveUp, BlankReset, DataType, WorkerType
  <2>5. CleanRound'
    BY <1>0, <2>1, <2>3, <2>4 DEF CleanRound, Unanswered, Gone, Refused
  <2>6. StartRound'
    BY <1>0, <2>1, <2>3, <2>4 DEF StartRound, Unanswered, Refused, Ready
  <2> QED BY <2>2, <2>5, <2>6 DEF RoundInv
<1> QED BY <1>1, <1>2, <1>3, <1>4, <1>5 DEF ServerStep, WorkerStep

IInv == Typed /\ RoundInv

LEMMA IInvariant == Spec => []IInv
<1>1. Init => IInv
  BY InitTyped, InitRoundInv DEF IInv
<1>2. IInv /\ [Next]_vars => IInv'
  <2> SUFFICES ASSUME Typed, RoundInv, [Next]_vars PROVE RoundInv'
    BY TypedStep DEF IInv
  <2>1. CASE UNCHANGED vars
    BY <2>1, SameRound DEF vars
  <2>2. CASE Next
    BY <2>2, CallKeepsRound, CoroutineKeepsRound, WorkerKeepsRound DEF Next
  <2> QED BY <2>1, <2>2
<1> QED BY <1>1, <1>2, PTL DEF Spec

-----------------------------------------------------------------------------
(* How a round ends *)

\* len(results) >= len(workers): with no entry of anybody else, every worker has one.
LEMMA EnoughIsAll ==
    ASSUME Typed, OwnAnswers, main.quiet, main.st \in Kinds,
           Enough(results.got, main.asked)
    PROVE  Silenced(main.asked) = results.got
<1>0. CallType /\ DataType
  BY TypedParts
<1> DEFINE heard == {w \in Workers : results.got[w].why # "none"}
<1>1. heard \in SUBSET main.asked
  BY DEF OwnAnswers
<1>2. main.asked \in SUBSET Workers /\ IsFiniteSet(Workers)
  BY <1>0, SyncAssumption DEF CallType, MainType
<1>3. IsFiniteSet(main.asked)
  BY <1>2, FS_Subset
<1>4. /\ IsFiniteSet(heard) /\ Cardinality(heard) <= Cardinality(main.asked)
      /\ Cardinality(main.asked) = Cardinality(heard) => main.asked = heard
  BY <1>1, <1>3, FS_Subset
<1>5. Cardinality(heard) >= Cardinality(main.asked)
  BY DEF Enough
<1>6. Cardinality(heard) \in Nat /\ Cardinality(main.asked) \in Nat
  BY <1>3, <1>4, FS_CardinalityType
<1>7. main.asked = heard
  <2> HIDE DEF heard
  <2> QED BY <1>4, <1>5, <1>6
<1>8. \A w \in Workers : Silenced(main.asked)[w] = results.got[w]
  BY <1>7 DEF Silenced
<1> QED BY <1>0, <1>8 DEF Silenced, DataType

\* The verdict of a round, as its last step finds it
Verdict ==
    /\ verdict'.ok => \A w \in main.asked :
          /\ results'.got[w] = [of |-> round, ok |-> TRUE, why |-> "answer"]
          /\ results.got[w] = results'.got[w]
    /\ ~verdict'.late => \A w \in Workers : results'.got[w].why # "silent"
    /\ ~verdict'.ok => \/ verdict'.late
                       \/ \E w \in main.asked : w \notin registered \/ ~results'.got[w].ok
    /\ UNCHANGED <<worker, edition>>

LEMMA YesIsOfThisRound ==
    ASSUME Typed, Books, OwnAnswers, main.quiet, main.st \in Kinds,
           NEW w \in main.asked, Silenced(main.asked)[w].ok
    PROVE  /\ Silenced(main.asked)[w] = [of |-> round, ok |-> TRUE, why |-> "answer"]
           /\ results.got[w] = Silenced(main.asked)[w]
<1>0. CallType /\ DataType
  BY TypedParts
<1>1. w \in Workers
  BY <1>0 DEF CallType, MainType
<1>2. Silenced(main.asked)[w] = results.got[w] /\ results.got[w].why = "answer"
  BY <1>0, <1>1, SilenceIsNoAnswer
<1>3. results.got[w].of = round /\ results.got[w].ok
  BY <1>1, <1>2 DEF OwnAnswers
<1>4. results.got[w] \in Entries
  BY <1>0, <1>1 DEF DataType
<1> QED BY <1>2, <1>3, <1>4 DEF Entries

LEMMA RoundEnds ==
    ASSUME IInv, [Next]_vars, RoundReturns, main.quiet
    PROVE  Verdict
<1> USE DEF RoundReturns
<1> DEFINE f == Silenced(main.asked)
<1>0. /\ CallType /\ RoundType /\ DataType /\ Typed
      /\ Books /\ OneCoroutine /\ OwnAnswers /\ Calm
  BY TypedParts DEF IInv, RoundInv, Calm, Kinds
<1>1. ASSUME NEW late \in BOOLEAN, Polled(late)
      PROVE  Verdict
  <2>1. /\ results'.got = f /\ UNCHANGED <<worker, edition>>
        /\ verdict' = [ok |-> AllAgree(f), late |-> late]
        /\ late \/ Enough(results.got, main.asked)
    BY <1>0, <1>1 DEF Polled, DataType, Returns
  <2>2. AllAgree(f) => \A w \in main.asked : f[w].ok
    BY DEF AllAgree
  <2>3. ~AllAgree(f) => \E w \in main.asked : ~f[w].ok
    BY DEF AllAgree
  <2>4. ~late => f = results.got
    BY <1>0, <2>1, EnoughIsAll
  <2>5. ~late => \A w \in Workers : results'.got[w].why # "silent"
    BY <1>0, <2>1, <2>4 DEF OwnAnswers
  <2>6. verdict'.ok => \A w \in main.asked :
          /\ results'.got[w] = [of |-> round, ok |-> TRUE, why |-> "answer"]
          /\ results.got[w] = results'.got[w]
    BY <1>0, <2>1, <2>2, YesIsOfThisRound
  <2> QED BY <2>1, <2>3, <2>5, <2>6 DEF Verdict
<1>2. CASE FutureTimesOut
  BY <1>2 DEF FutureTimesOut, Returns, Verdict
<1>3. ASSUME NEW n \in Rounds, NEW late \in BOOLEAN, Collected(n, late)
      PROVE  Verdict
  <2> DEFINE ok == \A w \in Workers : f[w].why = "none" \/ f[w].ok
  <2>1. Awaited(n) /\ co[n].asked = main.asked
    <3>1. co[n].st # "done"
      BY <1>3 DEF Collected
    <3> QED BY <1>0, <3>1, OnlyItsCoroutine DEF Awaited
  <2>2. results.kind = co[n].kind
    BY <1>0, <2>1 DEF Books, Awaited
  <2>3. /\ results'.got = f /\ UNCHANGED <<worker, edition>>
        /\ verdict' = [ok |-> ok, late |-> late]
        /\ late \/ Enough(results.got, main.asked)
    BY <1>0, <1>3, <2>1, <2>2 DEF Collected, DataType, Returns
  <2>4. ~late => f = results.got
    BY <1>0, <2>3, EnoughIsAll
  <2>5. ~late => \A w \in Workers : results'.got[w].why # "silent"
    BY <1>0, <2>3, <2>4 DEF OwnAnswers
  <2>6. ok => \A w \in main.asked : f[w].ok
    BY <1>0 DEF Silenced, CallType, MainType
  <2>7. ~ok => \E w \in main.asked : ~f[w].ok
    <3>1. \A w \in Workers \ main.asked : f[w].why = "none"
      BY <1>0 DEF Silenced, OwnAnswers
    <3> QED BY <3>1
  <2>8. verdict'.ok => \A w \in main.asked :
          /\ results'.got[w] = [of |-> round, ok |-> TRUE, why |-> "answer"]
          /\ results.got[w] = results'.got[w]
    BY <1>0, <2>3, <2>6, YesIsOfThisRound
  <2> QED BY <2>3, <2>5, <2>7, <2>8 DEF Verdict
<1>4. ASSUME NEW n \in Rounds, NEW w \in Workers, CleanRaises(n, w)
      PROVE  Verdict
  <2>1. Awaited(n) /\ w \in main.asked \ registered
    <3>1. co[n].st # "done"
      BY <1>0, <1>4 DEF CleanRaises, RoundType
    <3> QED BY <1>0, <1>4, <3>1, OnlyItsCoroutine DEF Awaited, CleanRaises
  <2> QED BY <1>0, <1>4, <2>1 DEF CleanRaises, Returns, Verdict, OwnAnswers
<1>5. CASE UNCHANGED main
  BY <1>5
<1>6. CASE Call
  BY <1>6 DEF Call, CallSync, CallClean, CallIntegrity, KickAllWorkers, ResetRuntime,
              Kinds, mainVars
<1>7. ASSUME NEW n \in Rounds, NEW w \in Workers,
             Send(n, w) \/ SendIntoTheVoid(n, w) \/ SendFails(n, w)
      PROVE  UNCHANGED main
  BY <1>7 DEF Send, SendIntoTheVoid, SendFails, mainVars
<1>8. ASSUME NEW w \in Workers, ServerStep(w) \/ WorkerStep(w) \/ Lose(w)
      PROVE  UNCHANGED main
  BY <1>8 DEF ServerStep, WorkerStep, ServerReceives, HandlerEnds, LoadProject, GiveUp,
              BlankReset, Reconnect, Lose, Takeover, Close, Disconnected, mainVars
<1>9. CASE UNCHANGED vars
  BY <1>9 DEF vars, mainVars
<1> QED
  BY <1>1, <1>2, <1>3, <1>4, <1>5, <1>6, <1>7, <1>8, <1>9
  DEF Next, AllPolled, PollTimesOut, Timeout, DeadlinePasses, AllCollected, CoroutineStep

\* worker.py 1431, 1437, 1493, 2005: neither an answer nor an entry names its round, and the
\* round ends when there are enough entries. In a round that began when nothing of an
\* earlier one was under way they are still the right ones: it succeeds on the yes of every
\* worker it asked, takes nobody for silent before its time, and fails for a worker it asked.
THEOREM VerdictsAreTrue == Spec => VerdictIsOfThisRound
<1>1. IInv /\ [Next]_vars /\ RoundReturns /\ main.quiet => Verdict
  BY RoundEnds
<1>2. IInv /\ [Next]_vars =>
         [RoundReturns /\ main.quiet =>
            /\ verdict'.ok => \A w \in main.asked :
                                  Given[w] = [of |-> round, ok |-> TRUE, why |-> "answer"]
            /\ ~verdict'.late => \A w \in Workers : Given[w].why # "silent"
            /\ ~verdict'.ok => \/ verdict'.late
                               \/ \E w \in main.asked : w \notin registered \/ ~Given[w].ok
         ]_vars
  BY <1>1 DEF Verdict, Given
<1> QED BY <1>2, IInvariant, PTL DEF Spec, VerdictIsOfThisRound

\* worker.py 1073: a worker acknowledges a bundle before it is loaded, and only the integrity
\* round of a start says that it is. That round cannot be fooled by a worker that was asked in
\* the sync, by an answer of the sync, or by a reset or a load that is yet to come.
THEOREM StartsOnOneScene == Spec => StartedOnTheSameScene
<1>1. ASSUME IInv, [Next]_vars, RoundReturns, main.quiet, main.start,
             main.st = "integrity", verdict'.ok, NEW w \in main.asked \ main.behind
      PROVE  /\ worker[w].load \in {None, edition}
             /\ worker[w].scene = edition \/ w \in main.blank
  <2>1. results.got[w].ok
    BY <1>1, RoundEnds DEF Verdict
  <2>2. w \in Workers /\ StartRound
    BY <1>1, TypedParts DEF IInv, RoundInv, CallType, MainType
  <2> QED BY <1>1, <2>1, <2>2 DEF StartRound, Ready, Refused
<1>2. IInv /\ [Next]_vars =>
         [RoundReturns /\ main.quiet /\ main.start /\ main.st = "integrity" /\ verdict'.ok =>
            \A w \in main.asked \ main.behind :
                /\ worker[w].load \in {None, edition}
                /\ (worker[w].scene = edition \/ w \in main.blank)]_vars
  BY <1>1
<1> QED BY <1>2, IInvariant, PTL DEF Spec, StartedOnTheSameScene

\* _clear_sync_artifacts: after a clean that succeeds with no earlier sync under way no worker
\* it asked has a project to load, neither waiting nor shown, but for one about to be reset.
THEOREM CleansAreThorough == Spec => CleanedMeansGone
<1>1. ASSUME IInv, [Next]_vars, RoundReturns, main.quiet, main.st = "clean", verdict'.ok,
             NEW w \in main.asked
      PROVE  Gone(w)
  <2>1. results.got[w].why = "answer" /\ results.got[w].ok
    BY <1>1, RoundEnds DEF Verdict
  <2>2. w \in Workers /\ CleanRound
    BY <1>1, TypedParts DEF IInv, RoundInv, CallType, MainType
  <2> QED BY <1>1, <2>1, <2>2 DEF CleanRound, Unanswered, Refused
<1>2. IInv /\ [Next]_vars =>
         [RoundReturns /\ main.quiet /\ main.st = "clean" /\ verdict'.ok =>
            \A w \in main.asked : /\ worker[w].load = None
                                  /\ (worker[w].blank \/ worker[w].scene = None)]_vars
  BY <1>1 DEF Gone
<1> QED BY <1>2, IInvariant, PTL DEF Spec, CleanedMeansGone
=============================================================================
