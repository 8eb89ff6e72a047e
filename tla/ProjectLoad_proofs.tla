------------------------- MODULE ProjectLoad_proofs -------------------------
(* The project to be loaded is complete, for every number of bundles, chunks, *)
(* attempts and resets.                                                       *)
EXTENDS ProjectLoad, TLAPS

LoadType == load \in [file : Maybe, attempts : 0..(MaxAttempts - 1), waits : BOOLEAN]

\* While a bundle is unpacked the load before it is forgotten: a bundle that fails
\* half-way leaves its own directory behind, and no load that relies on another.
UnpackingForgets == aio.pc = "unzipping" => load.file = None

AioType == aio \in [pc : AioPcs, bundle : Maybe] /\ reset \in BOOLEAN

LoadInv == LoadType /\ AioType /\ UnpackingForgets /\ PendingLoadIsComplete

-----------------------------------------------------------------------------
(* What clears the load establishes the invariant, whatever it was. *)

LEMMA NoLoadIsIdle == NoLoad.file = None /\ NoLoad \in [file : Maybe,
                          attempts : 0..(MaxAttempts - 1), waits : BOOLEAN]
  BY LoadAssumption DEF NoLoad, Maybe, None

\* The load goes on with the same file or is forgotten, and nothing it needs is
\* taken away.
LEMMA LoadKeepsGoing ==
  ASSUME LoadInv, LoadType', load'.file \in {load.file, None},
         files' = files, received_dir' = received_dir,
         context' = context \/ load'.file = None, UNCHANGED <<aio, reset>>
  PROVE  LoadInv'
  BY DEF LoadInv, LoadType, AioType, UnpackingForgets, PendingLoadIsComplete, HalfCleared

\* A step of the other thread, or of time, touches none of it.
LEMMA LoadUntouched ==
  ASSUME LoadInv, UNCHANGED <<aio, reset, received_dir, files, load, context>>
  PROVE  LoadInv'
  BY DEF LoadInv, LoadType, AioType, UnpackingForgets, PendingLoadIsComplete, HalfCleared

\* The first half opens the window.
LEMMA DeletedIsInv ==
  ASSUME LoadInv, load' = load, AioType', HalfCleared',
         aio' = aio \/ aio'.pc # "unzipping"
  PROVE  LoadInv'
  BY DEF LoadInv, LoadType, UnpackingForgets, PendingLoadIsComplete

\* The second half leaves no load that could lack anything.
LEMMA ForgottenIsInv ==
  ASSUME ForgetFiles, AioType'
  PROVE  LoadInv'
  BY NoLoadIsIdle
  DEF ForgetFiles, ClearedLoad, LoadInv, LoadType, UnpackingForgets, PendingLoadIsComplete

-----------------------------------------------------------------------------
LEMMA LoadInit == Init => LoadInv
<1> SUFFICES ASSUME Init PROVE LoadInv
  OBVIOUS
<1>1. load = NoLoad /\ aio = [pc |-> "idle", bundle |-> None] /\ reset = FALSE
  BY DEF Init
<1>2. AioType
  BY <1>1 DEF AioType, AioPcs, Maybe
<1>3. LoadType /\ load.file = None
  BY <1>1, NoLoadIsIdle DEF LoadType
<1> QED BY <1>1, <1>2, <1>3 DEF LoadInv, UnpackingForgets, PendingLoadIsComplete

\* A received transfer always is one of the server's bundles.
IncomingType == /\ incoming \in [id : Maybe, chunks : SUBSET Index]
                /\ stream \in [Bundles -> Nat]

LEMMA IncomingInit == Init => IncomingType
  BY DEF Init, IncomingType, NoTransfer, Maybe, None, Bundles

LEMMA IncomingStep == IncomingType /\ [Next]_vars => IncomingType'
<1> SUFFICES ASSUME IncomingType, [Next]_vars PROVE IncomingType'
  OBVIOUS
<1> USE DEF IncomingType, Maybe, Bundles, None
<1>1. ASSUME NEW b \in Bundles, Start(b) PROVE IncomingType'
  BY <1>1 DEF Start
<1>2. ASSUME NEW b \in Bundles, Chunk(b) PROVE IncomingType'
  <2>1. stream[b] - 1 \in Index
    BY <1>2, LoadAssumption DEF Chunk, Index
  <2> QED BY <1>2, <2>1 DEF Chunk
<1>3. ASSUME NEW b \in Bundles, Complete(b) PROVE IncomingType'
  BY <1>3 DEF Complete, NoTransfer
<1>4. CASE ResetRuntime
  BY <1>4 DEF ResetRuntime, NoTransfer
<1>5. CASE UNCHANGED <<stream, incoming>>
  BY <1>5
<1> QED
  BY <1>1, <1>2, <1>3, <1>4, <1>5
  DEF Next, ServerStep, AioStep, MainStep, Clean, Cleaned, Cleared, Apply, ApplyFails,
      ResetDone, TimerEnds, Tick, CheckBlank, BlankLoaded, BlankFails, CheckLoad, ReadBlendFile, OpenFile, ProjectLoaded,
      OpenFails, LoadFailed, LoadDue, BlankDue, vars, aioVars

-----------------------------------------------------------------------------
LEMMA LoadStep == IncomingType /\ LoadInv /\ [Next]_vars => LoadInv'
<1> SUFFICES ASSUME IncomingType, LoadInv, [Next]_vars PROVE LoadInv'
  OBVIOUS
<1>1. ASSUME NEW b \in Bundles, Complete(b) PROVE LoadInv'
  <2>1. CASE incoming = NoTransfer
    BY <1>1, <2>1, LoadUntouched DEF Complete
  <2>2. CASE incoming # NoTransfer
    <3>1. /\ aio' = [pc |-> "clearing",
                     bundle |-> IF Verified(incoming) THEN incoming.id ELSE None]
          /\ UNCHANGED <<load, reset>>
      BY <1>1, <2>2 DEF Complete, AioGoto
    <3>2. AioType' /\ HalfCleared'
      BY <3>1 DEF LoadInv, AioType, AioPcs, IncomingType, Maybe, HalfCleared
    <3> QED BY <3>1, <3>2, DeletedIsInv
  <2> QED BY <2>1, <2>2
<1>10. CASE Cleared \/ Cleaned
  <2>1. ForgetFiles /\ AioType'
    BY <1>10 DEF Cleared, Cleaned, AioGoto, LoadInv, AioType, AioPcs, Maybe
  <2> QED BY <2>1, ForgottenIsInv
<1>2. CASE Apply
  <2>1. /\ load' = [file |-> aio.bundle, attempts |-> 0, waits |-> FALSE]
        /\ aio' = [pc |-> "idle", bundle |-> None] /\ reset' = reset
        /\ aio.bundle \in Maybe
    BY <1>2 DEF Apply, AioGoto, NoLoad, LoadInv, AioType
  <2>2. LoadType' /\ AioType'
    BY <2>1, LoadAssumption DEF LoadInv, LoadType, AioType, AioPcs, Maybe
  <2> QED
    BY <1>2, <2>1, <2>2
    DEF Apply, LoadInv, Maybe, UnpackingForgets, PendingLoadIsComplete
<1>3. CASE ApplyFails
  <2>1. /\ aio' = [pc |-> "idle", bundle |-> None]
        /\ load' = load /\ reset' = reset /\ load.file = None
    BY <1>3 DEF ApplyFails, AioGoto, LoadInv, UnpackingForgets
  <2>2. LoadType' /\ AioType'
    BY <2>1 DEF LoadInv, LoadType, AioType, AioPcs, Maybe
  <2> QED BY <2>1, <2>2 DEF LoadInv, UnpackingForgets, PendingLoadIsComplete
<1>4. CASE Clean
  <2>1. aio' = [pc |-> "cleaning", bundle |-> None] /\ UNCHANGED <<load, reset>>
    BY <1>4 DEF Clean, AioGoto
  <2>2. AioType' /\ HalfCleared'
    BY <2>1 DEF LoadInv, AioType, AioPcs, Maybe, HalfCleared
  <2> QED BY <2>1, <2>2, DeletedIsInv
<1>5. CASE ResetRuntime
  <2>1. UNCHANGED <<load, aio>> /\ reset' = TRUE
    BY <1>5 DEF ResetRuntime
  <2> QED BY <2>1, DeletedIsInv DEF LoadInv, AioType, HalfCleared
<1>11. CASE ResetDone
  <2>1. ForgetFiles /\ AioType'
    BY <1>11 DEF ResetDone, aioVars, LoadInv, AioType
  <2> QED BY <2>1, ForgottenIsInv
<1>6. CASE ProjectLoaded
  <2>1. load' = NoLoad /\ LoadType' /\ load'.file = None
    BY <1>6, NoLoadIsIdle DEF ProjectLoaded, LoadType
  <2> QED BY <1>6, <2>1, LoadKeepsGoing DEF ProjectLoaded, aioVars
<1>7. CASE LoadFailed
  <2>1. LoadType' /\ load'.file \in {load.file, None}
    <3>1. CASE GivesUp(load.attempts + 1)
      BY <1>7, <3>1, NoLoadIsIdle DEF LoadFailed, LoadType
    <3>2. CASE ~GivesUp(load.attempts + 1)
      <4>1. load.attempts + 1 \in 0..(MaxAttempts - 1)
        BY <3>2, LoadAssumption DEF GivesUp, LoadInv, LoadType
      <4>2. load' = [file |-> load.file, attempts |-> load.attempts + 1, waits |-> TRUE]
        BY <1>7, <3>2 DEF LoadFailed, LoadInv, LoadType
      <4> QED BY <4>1, <4>2 DEF LoadInv, LoadType
    <3> QED BY <3>1, <3>2
  <2> QED BY <1>7, <2>1, LoadKeepsGoing DEF LoadFailed, aioVars
<1>8. CASE LoadDue
  <2>1. LoadType' /\ load'.file = load.file
    BY <1>8 DEF LoadDue, LoadInv, LoadType
  <2> QED BY <1>8, <2>1, LoadKeepsGoing DEF LoadDue, aioVars
<1>9. CASE UNCHANGED <<aio, reset, received_dir, files, load, context>>
  BY <1>9, LoadUntouched
<1> QED
  BY <1>1, <1>2, <1>3, <1>4, <1>5, <1>6, <1>7, <1>8, <1>9, <1>10, <1>11
  DEF Next, ServerStep, AioStep, MainStep, Start, Chunk, TimerEnds, Tick, CheckBlank,
      BlankLoaded, BlankFails, CheckLoad, ReadBlendFile, OpenFile, OpenFails, BlankDue, vars, aioVars

\* The two threads delete and forget files, contexts and loads in any order, and yet a
\* project waiting to be loaded, for the first time or again, is the one unpacked last,
\* with its file and its context (_clear_sync_artifacts, _apply_received_project_bundle,
\* the except clause of process_main_thread_queues). A load that lacks its file is pending
\* only while a handler or a reset is between its two halves, and none is when both ended.
THEOREM LoadIsComplete == Spec => []PendingLoadIsComplete
<1>1. Init => IncomingType /\ LoadInv
  BY IncomingInit, LoadInit
<1>2. IncomingType /\ LoadInv /\ [Next]_vars => (IncomingType /\ LoadInv)'
  BY IncomingStep, LoadStep
<1>3. IncomingType /\ LoadInv => PendingLoadIsComplete
  BY DEF LoadInv
<1> QED BY <1>1, <1>2, <1>3, PTL DEF Spec
-----------------------------------------------------------------------------
(* Type correctness: no project and no reset is tried more often than allowed. *)

\* A bundle that can still be unpacked
Fresh(b) == stream[b] = 0 \/ incoming.id = b \/ aio.bundle = b

\* It is unpacked once: what is begun is neither begun nor unpacked again.
OncePerBundle ==
    /\ incoming.id # None => stream[incoming.id] # 0 /\ incoming.id # aio.bundle
    /\ aio.bundle # None => stream[aio.bundle] # 0
    /\ aio.pc = "unzipping" => aio.bundle # None

\* Before, it was never tried.
FreshIsUntried ==
    \A b \in Bundles : Fresh(b) => tries[b] = 0 /\ load.file # b /\ tick.blend # b

\* The attempts counted cover the loads of the pending project that failed, but for
\* the one whose except clause has not counted it yet.
TriesAreCounted ==
    \A b \in Bundles :
        load.file = b =>
            \/ tries[b] <= load.attempts
            \/ tick.pc = "failed" /\ tick.blend = b /\ tries[b] <= load.attempts + 1

\* A load under way may fail once more, even when it is not the pending one any more.
OneTryLeft ==
    tick.pc \in {"named", "opening"} => tick.blend # None /\ tries[tick.blend] < MaxAttempts

ResetLeft == blank.due \/ tick.pc = "resetting" => blank.attempts < MaxAttempts

TriesInv == OncePerBundle /\ FreshIsUntried /\ TriesAreCounted /\ OneTryLeft /\ ResetLeft

LEMMA TypeInit == Init => TypeOK /\ TriesInv
<1> SUFFICES ASSUME Init PROVE TypeOK /\ TriesInv
  OBVIOUS
<1>1. TypeOK
  <2> USE LoadAssumption DEF Init
  <2>1. incoming \in [id : Maybe, chunks : SUBSET Index] /\ None \in Maybe
    BY DEF NoTransfer, Maybe
  <2>2. blank \in Retries /\ tick \in [pc : TickPcs, blend : Maybe]
    BY <2>1 DEF Retries, TickPcs
  <2>3. stream \in [Bundles -> 0..(Chunks + 2)] /\ tries \in [Bundles -> 0..MaxAttempts]
    OBVIOUS
  <2>4. load \in [file : Maybe, attempts : 0..(MaxAttempts - 1), waits : BOOLEAN]
    BY NoLoadIsIdle
  <2>5. /\ files \in SUBSET Bundles /\ shown \in SUBSET Bundles
        /\ cleaning \in BOOLEAN /\ reset \in BOOLEAN /\ hit \in SUBSET Bundles
    OBVIOUS
  <2>7. cleans \in 0..MaxCleans /\ resets \in 0..MaxResets
    OBVIOUS
  <2>6. /\ aio \in [pc : AioPcs, bundle : Maybe] /\ received_dir \in Maybe /\ context \in Maybe
        /\ scene \in Maybe /\ newest \in Maybe
    BY <2>1 DEF AioPcs
  <2> QED BY ONLY <2>1, <2>2, <2>3, <2>4, <2>5, <2>6, <2>7 DEF TypeOK
<1>2. TriesInv
  BY LoadAssumption
  DEF Init, TriesInv, OncePerBundle, FreshIsUntried, TriesAreCounted, OneTryLeft,
      ResetLeft, NoTransfer, NoLoad, None, Bundles
<1> QED BY <1>1, <1>2

AioAction == Cleared \/ Apply \/ ApplyFails \/ Clean \/ Cleaned \/ ResetRuntime \/ ResetDone

\* The parts of the state that only one family of actions writes
LEMMA AioKeepsType ==
  ASSUME TypeOK, TriesInv, NEW b \in Bundles,
         Start(b) \/ Chunk(b) \/ Complete(b) \/ AioAction
  PROVE  TypeOK'
<1> USE DEF TypeOK, Maybe, None, Bundles, AioPcs
<1>1. CASE Start(b)
  <2>1. stream' \in [Bundles -> 0..(Chunks + 2)]
    BY <1>1, LoadAssumption DEF Start
  <2>2. incoming' \in [id : Maybe, chunks : SUBSET Index]
    BY <1>1 DEF Start
  <2> QED BY <1>1, <2>1, <2>2 DEF Start
<1>2. CASE Chunk(b)
  <2>1. stream[b] \in 1..Chunks
    BY <1>2 DEF Chunk
  <2>2. stream[b] - 1 \in Index /\ stream[b] + 1 \in 0..(Chunks + 2)
    BY ONLY <2>1, LoadAssumption DEF Index
  <2>3. stream' \in [Bundles -> 0..(Chunks + 2)]
    BY <1>2, <2>2 DEF Chunk
  <2>4. incoming' \in [id : Maybe, chunks : SUBSET Index]
    BY <1>2, <2>2 DEF Chunk
  <2> QED BY <1>2, <2>3, <2>4 DEF Chunk
<1>3. CASE Complete(b)
  <2>1. stream' \in [Bundles -> 0..(Chunks + 2)]
    BY <1>3, LoadAssumption DEF Complete
  <2>2. incoming' \in [id : Maybe, chunks : SUBSET Index]
    BY <1>3 DEF Complete, NoTransfer
  <2>3. CASE incoming = NoTransfer
    BY <1>3, <2>1, <2>2, <2>3 DEF Complete
  <2>4. CASE incoming # NoTransfer
    <3>1. newest' = 0 /\ files' \in SUBSET Bundles
      BY <1>3, <2>4 DEF Complete, DeleteFiles
    <3>2. aio' \in [pc : AioPcs, bundle : Maybe]
      BY <1>3, <2>4 DEF Complete, AioGoto
    <3> QED BY <1>3, <2>1, <2>2, <2>4, <3>1, <3>2 DEF Complete
  <2> QED BY <2>3, <2>4
<1>4. CASE Apply
  <2>1. load' = [file |-> aio.bundle, attempts |-> 0, waits |-> FALSE]
    BY <1>4 DEF Apply, NoLoad
  <2>2. load' \in [file : Maybe, attempts : 0..(MaxAttempts - 1), waits : BOOLEAN]
    BY <2>1, LoadAssumption
  <2>3. aio' \in [pc : AioPcs, bundle : Maybe] /\ files' \in SUBSET Bundles
    BY <1>4 DEF Apply, AioGoto, TriesInv, OncePerBundle
  <2>4. received_dir' \in Maybe /\ context' \in Maybe /\ newest' \in Maybe
    BY <1>4 DEF Apply
  <2> QED BY <1>4, <2>2, <2>3, <2>4 DEF Apply
<1>5. CASE ApplyFails
  BY <1>5 DEF ApplyFails, AioGoto
<1>6. CASE Clean
  <2>1. newest' = 0 /\ files' \in SUBSET Bundles
    BY <1>6 DEF Clean, DeleteFiles
  <2>2. aio' \in [pc : AioPcs, bundle : Maybe]
    BY <1>6 DEF Clean, AioGoto
  <2>3. cleans' \in 0..MaxCleans
    BY <1>6, LoadAssumption DEF Clean
  <2> QED BY <1>6, <2>1, <2>2, <2>3 DEF Clean
<1>7. CASE ResetRuntime
  <2>1. incoming' \in [id : Maybe, chunks : SUBSET Index] /\ resets' \in 0..MaxResets
    BY <1>7, LoadAssumption DEF ResetRuntime, NoTransfer
  <2>2. newest' = 0 /\ files' \in SUBSET Bundles /\ reset' = TRUE
    BY <1>7 DEF ResetRuntime, DeleteFiles
  <2> QED BY <1>7, <2>1, <2>2 DEF ResetRuntime
<1>8. CASE Cleared \/ Cleaned \/ ResetDone
  <2>1. received_dir' = 0 /\ load' = NoLoad /\ context' = 0
    BY <1>8 DEF Cleared, Cleaned, ResetDone, ForgetFiles, ClearedLoad
  <2>2. aio' \in [pc : AioPcs, bundle : Maybe]
    BY <1>8 DEF Cleared, Cleaned, ResetDone, AioGoto, aioVars
  <2>3. blank' \in Retries
    <3>1. blank' = blank \/ blank' = [due |-> TRUE, attempts |-> 0, waits |-> FALSE]
      BY <1>8 DEF Cleared, Cleaned, ResetDone
    <3>2. [due |-> TRUE, attempts |-> 0, waits |-> FALSE] \in Retries
      BY LoadAssumption DEF Retries
    <3> QED BY <3>1, <3>2
  <2>4. newest' \in Maybe /\ cleaning' \in BOOLEAN /\ reset' \in BOOLEAN
    BY <1>8 DEF Cleared, Cleaned, ResetDone
  <2>5. UNCHANGED <<stream, incoming, files, scene, tick, tries, shown, hit, cleans, resets>>
    BY <1>8 DEF Cleared, Cleaned, ResetDone, aioVars
  <2> QED BY <2>1, <2>2, <2>3, <2>4, <2>5, NoLoadIsIdle
<1> QED BY <1>1, <1>2, <1>3, <1>4, <1>5, <1>6, <1>7, <1>8 DEF AioAction

TimedStep == (MainStep /\ ~ResetDone) \/ TimerEnds \/ LoadDue \/ BlankDue

LEMMA MainKeepsType ==
  ASSUME TypeOK, TriesInv, TimedStep
  PROVE  TypeOK'
<1> USE DEF TypeOK, Maybe, None, Bundles, TickPcs, Loading, aioVars
<1>10. CASE TimerEnds
  BY <1>10 DEF TimerEnds, Goto
<1>1. CASE Tick \/ CheckBlank \/ CheckLoad \/ OpenFile
  <2>1. tick' \in [pc : TickPcs, blend : Maybe]
    BY <1>1 DEF Tick, CheckBlank, CheckLoad, OpenFile, Goto
  <2> QED BY <1>1, <2>1 DEF Tick, CheckBlank, CheckLoad, OpenFile
<1>2. CASE BlankLoaded
  <2>1. blank' \in Retries
    BY <1>2, LoadAssumption DEF BlankLoaded, Retries
  <2>2. tick' \in [pc : TickPcs, blend : Maybe]
    BY <1>2 DEF BlankLoaded, Goto
  <2> QED BY <1>2, <2>1, <2>2 DEF BlankLoaded
<1>3. CASE BlankFails
  <2>1. blank.attempts + 1 \in 0..MaxAttempts
    BY <1>3, LoadAssumption DEF BlankFails, TriesInv, ResetLeft, Retries
  <2>2. blank' \in Retries
    BY <1>3, <2>1, LoadAssumption DEF BlankFails, BlankAfter, Retries
  <2> QED BY <1>3, <2>2 DEF BlankFails, Goto
<1>4. CASE ReadBlendFile
  BY <1>4 DEF ReadBlendFile
<1>5. CASE ProjectLoaded
  <2>1. hit' \in SUBSET Bundles
    BY <1>5 DEF ProjectLoaded, HitsAnother
  <2> QED BY <1>5, <2>1, NoLoadIsIdle DEF ProjectLoaded, TriesInv, OneTryLeft
<1>6. CASE OpenFails
  <2>1. tick.blend \in Bundles /\ tries[tick.blend] + 1 \in 0..MaxAttempts
    BY <1>6, LoadAssumption DEF OpenFails, TriesInv, OneTryLeft
  <2> QED BY <1>6, <2>1 DEF OpenFails, Goto
<1>7. CASE LoadFailed
  <2>3. hit' \in SUBSET Bundles
    BY <1>7 DEF LoadFailed, HitsAnother
  <2>1. CASE GivesUp(load.attempts + 1)
    BY <1>7, <2>1, <2>3, NoLoadIsIdle DEF LoadFailed
  <2>2. CASE ~GivesUp(load.attempts + 1)
    <3>1. load.attempts + 1 \in 0..(MaxAttempts - 1)
      BY <2>2, LoadAssumption DEF GivesUp
    <3>2. load' = [file |-> load.file, attempts |-> load.attempts + 1, waits |-> TRUE]
      BY <1>7, <2>2 DEF LoadFailed
    <3>3. load' \in [file : Maybe, attempts : 0..(MaxAttempts - 1), waits : BOOLEAN]
      BY <3>1, <3>2
    <3>4. tick' \in [pc : TickPcs, blend : Maybe]
      BY <1>7, <2>2 DEF LoadFailed
    <3> QED BY <1>7, <2>3, <3>3, <3>4 DEF LoadFailed
  <2> QED BY <2>1, <2>2
<1>8. CASE LoadDue
  <2>1. load' \in [file : Maybe, attempts : 0..(MaxAttempts - 1), waits : BOOLEAN]
    BY <1>8 DEF LoadDue
  <2> QED BY <1>8, <2>1 DEF LoadDue
<1>9. CASE BlankDue
  <2>1. blank' \in Retries
    BY <1>9 DEF BlankDue, Retries
  <2> QED BY <1>9, <2>1 DEF BlankDue
<1> QED BY <1>1, <1>2, <1>3, <1>4, <1>5, <1>6, <1>7, <1>8, <1>9, <1>10 DEF TimedStep, MainStep

\* The two parts about bundles that come in: only the asyncio thread writes them, and
\* the load and the tick only ever take on a bundle that was unpacked.
LEMMA AioKeepsTries ==
  ASSUME TypeOK, TriesInv,
         NEW b \in Bundles, Start(b) \/ Chunk(b) \/ Complete(b) \/ AioAction
  PROVE  TriesInv'
<1> USE DEF TypeOK, Maybe, None, Bundles, TriesInv, OncePerBundle, FreshIsUntried, Fresh,
            TriesAreCounted, OneTryLeft, ResetLeft
<1>1. CASE Start(b)
  <2>1. OncePerBundle'
    BY <1>1 DEF Start
  <2>2. FreshIsUntried' /\ TriesAreCounted' /\ OneTryLeft' /\ ResetLeft'
    BY <1>1 DEF Start
  <2> QED BY <2>1, <2>2
<1>2. CASE Chunk(b)
  <2>1. incoming'.id = incoming.id
    BY <1>2 DEF Chunk
  <2>2. stream[b] \in Nat \ {0} /\ \A c \in Bundles : stream'[c] = IF c = b THEN stream[b] + 1 ELSE stream[c]
    BY <1>2, LoadAssumption DEF Chunk
  <2>3. \A c \in Bundles : stream'[c] # 0 <=> stream[c] # 0
    BY <2>2
  <2>4. UNCHANGED <<aio, load, tick, tries, blank>>
    BY <1>2 DEF Chunk
  <2>5. OncePerBundle'
    BY <2>1, <2>3, <2>4
  <2>6. FreshIsUntried'
    BY <2>1, <2>3, <2>4
  <2> QED BY <2>4, <2>5, <2>6
<1>3. CASE Complete(b)
  <2>0. stream[b] \in Nat \ {0}
        /\ \A c \in Bundles : stream'[c] = IF c = b THEN stream[b] + 1 ELSE stream[c]
    BY <1>3, LoadAssumption DEF Complete
  <2>1. \A c \in Bundles : stream'[c] # 0 <=> stream[c] # 0
    BY <2>0
  <2>2. /\ incoming'.id = 0 /\ aio'.bundle \in {aio.bundle, 0, incoming.id}
        /\ aio'.pc = "unzipping" => aio' = aio
    BY <1>3 DEF Complete, NoTransfer, AioGoto
  <2>3. UNCHANGED <<tick, tries, blank>>
    BY <1>3 DEF Complete
  <2>4. load' = load
    BY <1>3 DEF Complete
  <2>5. OncePerBundle'
    BY <2>1, <2>2
  <2>6. FreshIsUntried'
    BY <2>1, <2>2, <2>3, <2>4
  <2>7. TriesAreCounted'
    BY <2>3, <2>4
  <2> QED BY <2>3, <2>5, <2>6, <2>7
<1>4. CASE Apply
  <2>1. load' = [file |-> aio.bundle, attempts |-> 0, waits |-> FALSE] /\ aio'.bundle = 0
        /\ aio'.pc = "idle"
    BY <1>4 DEF Apply, AioGoto, NoLoad
  <2>2. aio.bundle # 0 => tries[aio.bundle] = 0
    BY DEF TypeOK
  <2>3. UNCHANGED <<stream, incoming, tick, tries, blank>>
    BY <1>4 DEF Apply
  <2>4. OncePerBundle'
    BY <2>1, <2>3
  <2>5. FreshIsUntried'
    BY <2>1, <2>3
  <2>6. TriesAreCounted'
    BY <2>1, <2>2, <2>3
  <2> QED BY <2>3, <2>4, <2>5, <2>6
<1>5. CASE ApplyFails \/ Clean \/ ResetRuntime
  <2>1. /\ aio'.bundle \in {0, aio.bundle} /\ incoming' \in {incoming, NoTransfer}
        /\ aio'.pc = "unzipping" => aio' = aio
        /\ UNCHANGED <<stream, load, tick, tries, blank>>
    BY <1>5 DEF ApplyFails, Clean, ResetRuntime, AioGoto
  <2> QED BY <2>1 DEF NoTransfer
<1>6. CASE Cleared \/ Cleaned \/ ResetDone
  <2>1. /\ load' = NoLoad /\ aio'.bundle \in {0, aio.bundle}
        /\ aio'.pc = "unzipping" => aio'.bundle # 0
        /\ blank' = blank \/ blank' = [due |-> TRUE, attempts |-> 0, waits |-> FALSE]
        /\ UNCHANGED <<stream, incoming, tick, tries>>
    BY <1>6 DEF Cleared, Cleaned, ResetDone, ForgetFiles, ClearedLoad, AioGoto, aioVars
  <2>2. OncePerBundle'
    BY <2>1
  <2>3. FreshIsUntried' /\ TriesAreCounted' /\ OneTryLeft'
    BY <2>1 DEF NoLoad
  <2>4. ResetLeft'
    BY <2>1, LoadAssumption
  <2> QED BY <2>2, <2>3, <2>4
<1> QED BY <1>1, <1>2, <1>3, <1>4, <1>5, <1>6 DEF AioAction

LEMMA MainKeepsTries ==
  ASSUME TypeOK, TriesInv, TimedStep
  PROVE  TriesInv'
<1> USE DEF TypeOK, Maybe, None, Bundles, TriesInv, OncePerBundle, FreshIsUntried, Fresh,
            TriesAreCounted, OneTryLeft, ResetLeft, aioVars
<1>1. CASE TimerEnds \/ Tick \/ CheckLoad \/ OpenFile
  <2>1. /\ tick'.blend = tick.blend
        /\ \/ tick'.pc \in {"blank", "read", "idle", "dead"}
           \/ tick'.pc = "opening" /\ tick.pc = "named"
        /\ tick.pc \in {"idle", "load", "named"}
        /\ UNCHANGED <<stream, incoming, aio, load, tries, blank>>
    BY <1>1 DEF TimerEnds, Tick, CheckLoad, OpenFile, Goto
  <2> QED BY <2>1
<1>2. CASE CheckBlank
  <2>1. /\ tick'.blend = tick.blend /\ tick.pc = "blank"
        /\ tick'.pc = "load" \/ (tick'.pc = "resetting" /\ blank.due)
        /\ UNCHANGED <<stream, incoming, aio, load, tries, blank>>
    BY <1>2 DEF CheckBlank, Goto
  <2> QED BY <2>1
<1>3. CASE BlankLoaded \/ BlankFails
  <2>1. /\ tick'.blend = tick.blend /\ tick.pc = "resetting" /\ tick'.pc = "load"
        /\ UNCHANGED <<stream, incoming, aio, load, tries>>
    BY <1>3 DEF BlankLoaded, BlankFails, Goto
  <2>2. ResetLeft'
    <3>1. CASE BlankLoaded
      BY <3>1, LoadAssumption DEF BlankLoaded
    <3>2. CASE BlankFails
      <4>1. blank' = BlankAfter(blank.attempts + 1)
        BY <3>2 DEF BlankFails
      <4> QED BY ONLY <2>1, <4>1 DEF BlankAfter, ResetLeft
    <3> QED BY <1>3, <3>1, <3>2
  <2> QED BY <2>1, <2>2
<1>4. CASE ReadBlendFile
  <2>1. /\ tick.pc = "read" /\ tick'.blend = load.file
        /\ tick'.pc = (IF load.file = 0 THEN "failed" ELSE "named")
        /\ UNCHANGED <<stream, incoming, aio, load, tries, blank>>
    BY <1>4 DEF ReadBlendFile
  <2>2. load.file \in Bundles => tries[load.file] < MaxAttempts
    BY <2>1, LoadAssumption
  <2> QED BY <2>1, <2>2
<1>5. CASE ProjectLoaded
  <2>1. /\ load' = NoLoad /\ tick'.pc = "idle" /\ tick'.blend = 0 /\ tick.pc = "opening"
        /\ UNCHANGED <<stream, incoming, aio, tries, blank>>
    BY <1>5 DEF ProjectLoaded
  <2> QED BY <2>1 DEF NoLoad
<1>6. CASE OpenFails
  <2>1. /\ tick.pc \in {"named", "opening"} /\ tick'.pc = "failed"
        /\ tick'.blend = tick.blend /\ tick.blend \in Bundles
        /\ UNCHANGED <<stream, incoming, aio, load, blank>>
    BY <1>6 DEF OpenFails, Goto
  <2>2. \A b \in Bundles :
          tries'[b] = IF b = tick.blend THEN tries[b] + 1 ELSE tries[b]
    BY <1>6, <2>1 DEF OpenFails
  <2>3. FreshIsUntried'
    BY <2>1, <2>2
  <2>4. TriesAreCounted'
    BY <2>1, <2>2
  <2> QED BY <2>1, <2>3, <2>4
<1>7. CASE LoadFailed
  <2>1. /\ tick.pc = "failed" /\ tick'.pc \in {"idle", "dead"} /\ tick'.blend = 0
        /\ UNCHANGED <<stream, incoming, aio, tries, blank>>
    BY <1>7 DEF LoadFailed
  <2>2. load' = NoLoad \/ (load'.file = load.file /\ load'.attempts = load.attempts + 1)
    BY <1>7 DEF LoadFailed, GivesUp
  <2>3. FreshIsUntried'
    BY <2>1, <2>2 DEF NoLoad
  <2>4. TriesAreCounted'
    BY <2>1, <2>2 DEF NoLoad
  <2> QED BY <2>1, <2>3, <2>4
<1>8. CASE LoadDue \/ BlankDue
  <2>1. /\ UNCHANGED <<stream, incoming, aio, tries, tick>>
        /\ load'.file = load.file /\ load'.attempts = load.attempts
        /\ blank'.due = blank.due /\ blank'.attempts = blank.attempts
    BY <1>8 DEF LoadDue, BlankDue, Retries
  <2> QED BY <2>1
<1> QED BY <1>1, <1>2, <1>3, <1>4, <1>5, <1>6, <1>7, <1>8 DEF TimedStep, MainStep

\* Every variable keeps its type: through superseded, raced and repeated loads no
\* project fails to load more than five times before it is given up or loaded, and no
\* reset does (pending_project_load_attempts, pending_blank_reset_attempts).
THEOREM LoadTypeCorrect == Spec => []TypeOK
<1>1. Init => TypeOK /\ TriesInv
  BY TypeInit
<1>2. TypeOK /\ TriesInv /\ [Next]_vars => (TypeOK /\ TriesInv)'
  <2> SUFFICES ASSUME TypeOK, TriesInv, [Next]_vars PROVE (TypeOK /\ TriesInv)'
    OBVIOUS
  <2>1. CASE UNCHANGED vars
    BY <2>1
    DEF vars, aioVars, TypeOK, TriesInv, OncePerBundle, FreshIsUntried, Fresh,
        TriesAreCounted, OneTryLeft, ResetLeft
  <2>2. CASE TimedStep
    BY <2>2, MainKeepsType, MainKeepsTries
  <2>3. ASSUME NEW b \in Bundles, Start(b) \/ Chunk(b) \/ Complete(b)
        PROVE  (TypeOK /\ TriesInv)'
    BY <2>3, AioKeepsType, AioKeepsTries
  <2>4. CASE AioAction
    <3>1. 1 \in Bundles
      BY LoadAssumption DEF Bundles
    <3> QED BY <2>4, <3>1, AioKeepsType, AioKeepsTries
  <2> QED BY <2>1, <2>2, <2>3, <2>4 DEF Next, ServerStep, AioStep, TimedStep, AioAction
<1> QED BY <1>1, <1>2, PTL DEF Spec
=============================================================================
