---------------------------- MODULE TileTransfer ----------------------------
(* How the result of a tile gets from a worker to _result_queue of the server:  *)
(* inline in one message, or cut into chunks by TileResultChunker and put       *)
(* together by TileResultAssembler (robust_transfer.py).                        *)
(*                                                                              *)
(* Every result has a send coroutine of its own on the worker's event loop      *)
(* (_send_result_to_server_async), which gives way at each send: the messages   *)
(* of several results of one worker, and those of all workers, mix on their way *)
(* to the one assembler. A connection delivers in order; which transfer sends   *)
(* next is the scheduler's choice, so a transfer is a stream of its own here.   *)
(* When the connection of a worker is lost, a coroutine in the middle of a      *)
(* transfer fails at the send it is suspended in, and one not yet started uses  *)
(* the socket that is there when it starts.                                     *)
EXTENDS Integers, FiniteSets, Sequences

CONSTANTS Workers,
          Sizes,         \* sizes of a PNG file, in bytes
          ChunkSize,     \* ChunkConfig.chunk_size
          InlineLimit,   \* ChunkConfig.inline_limit, of base64 characters
          MaxResults,    \* bound: results rendered
          MaxLosses      \* bound: connections lost

ASSUME TransferAssumption ==
    /\ Sizes \subseteq Nat \ {0}
    /\ ChunkSize \in Nat \ {0}
    /\ InlineLimit \in Nat
    /\ MaxResults \in Nat
    /\ MaxLosses \in Nat

\* The n-th result of a worker. It stands for the uuid of its transfer, too.
Results == Workers \X (1..MaxResults)

VARIABLES
    png,        \* result -> bytes of its PNG file, 0 when the render failed
    rendered,   \* results rendered so far
    live,       \* results whose send coroutine has not ended
    sent,       \* result -> messages its coroutine has sent
    received,   \* result -> messages of it the server has handled
    incoming,   \* _incoming of the assembler, a dict: transfer id -> its entry
    delivered,  \* results put into _result_queue, oldest first
    conn,       \* worker -> its connection is open
    lost,       \* ghost: results lost with a connection
    losses      \* ghost: connections lost

vars == <<png, rendered, live, sent, received, incoming, delivered, conn, lost, losses>>

-----------------------------------------------------------------------------
(* TileResultChunker *)

\* should_chunk: base64 writes 4 characters for every 3 bytes begun.
Chunked(n) == 4 * ((n + 2) \div 3) > InlineLimit

\* Mutated: a chunk too many when the size is a multiple of chunk_size.
TotalChunksOneMore(n) == n \div ChunkSize + 1

TotalChunks(n) == (n + ChunkSize - 1) \div ChunkSize

\* Mutated: MSG_TILE_RESULT_COMPLETE is left out.
MessagesWithoutComplete(n) == IF Chunked(n) THEN TotalChunks(n) + 1 ELSE 1

\* Mutated: the coroutine goes on after an inline result, and sends it again.
MessagesTwice(n) == IF Chunked(n) THEN TotalChunks(n) + 2 ELSE 2

\* chunk_messages: START, the chunks, COMPLETE; or one MSG_TILE_RESULT
NumMessages(n) == IF Chunked(n) THEN TotalChunks(n) + 2 ELSE 1

ChunkEnd(n, i) == IF n <= (i + 1) * ChunkSize THEN n ELSE (i + 1) * ChunkSize

\* Data stands for the bytes of a result from one offset up to another.
Bytes(r, from, to) == [of |-> r, from |-> from, to |-> to]

Chunk(r, i) == Bytes(r, i * ChunkSize, ChunkEnd(png[r], i))

Data == {d \in [of : Results, from : Nat, to : Nat] : d.from < d.to}

-----------------------------------------------------------------------------
(* TileResultAssembler *)

Messages == [of : Results, ok : BOOLEAN, parts : Seq(Data)]

\* An entry of _incoming: its chunks fill up from index 0.
IsEntry(e) == \E n \in Sizes : \E k \in 0..TotalChunks(n) :
                 e \in [of : Results, total : {TotalChunks(n)}, chunks : [0..(k - 1) -> Data]]

\* Mutated: one transfer per worker instead of one per transfer id.
KeyOfWorker(r) == <<r[1], 1>>

Key(r) == r

Put(f, k, v) == [x \in DOMAIN f \cup {k} |-> IF x = k THEN v ELSE f[x]]

\* Mutated: get instead of pop.
KeptInPlace(f, k) == f

Popped(f, k) == [x \in DOMAIN f \ {k} |-> f[x]]

\* What handle returns for COMPLETE: a failure when a chunk is missing.
Assembled(e) ==
    IF 0..(e.total - 1) \subseteq DOMAIN e.chunks
    THEN [of |-> e.of, ok |-> TRUE,
          parts |-> [i \in 1..e.total |-> e.chunks[i - 1]]]
    ELSE [of |-> e.of, ok |-> FALSE, parts |-> << >>]

-----------------------------------------------------------------------------
(* Workers *)

\* The main thread of w has rendered a tile, or failed to, and queues the send.
Render(w) ==
    /\ Cardinality(rendered) < MaxResults
    /\ \E n \in Sizes \cup {0}, r \in Results :
          /\ r = <<w, Cardinality({q \in rendered : q[1] = w}) + 1>>
          /\ r \notin rendered
          /\ png' = [png EXCEPT ![r] = n]
          /\ rendered' = rendered \cup {r}
          /\ live' = live \cup {r}
    /\ UNCHANGED <<sent, received, incoming, delivered, conn, lost, losses>>

SendNext(r) ==
    /\ r \in live \ lost
    /\ conn[r[1]]
    /\ sent' = [sent EXCEPT ![r] = @ + 1]
    /\ live' = IF sent'[r] = NumMessages(png[r]) THEN live \ {r} ELSE live
    /\ UNCHANGED <<png, rendered, received, incoming, delivered, conn, lost, losses>>

\* The send raises: the exception is recorded and the result given up.
SendFails(r) ==
    /\ r \in live
    /\ r \in lost \/ ~conn[r[1]]
    /\ live' = live \ {r}
    /\ lost' = lost \cup {r}
    /\ UNCHANGED <<png, rendered, sent, received, incoming, delivered, conn, losses>>

-----------------------------------------------------------------------------
(* Socket handlers of the server *)

\* The next message of r has arrived.
Arrives(r) ==
    /\ r \notin lost
    /\ received[r] < sent[r]
    /\ received' = [received EXCEPT ![r] = @ + 1]
    /\ UNCHANGED <<png, rendered, live, sent, conn, lost, losses>>

ReceiveInline(r) ==
    /\ Arrives(r)
    /\ ~Chunked(png[r])
    /\ delivered' = Append(delivered,
                           [of |-> r, ok |-> png[r] # 0,
                            parts |-> IF png[r] = 0 THEN << >>
                                      ELSE <<Bytes(r, 0, png[r])>>])
    /\ UNCHANGED incoming

ReceiveStart(r) ==
    /\ Arrives(r)
    /\ Chunked(png[r])
    /\ received[r] = 0
    /\ incoming' = Put(incoming, Key(r), [of |-> r, total |-> TotalChunks(png[r]),
                                          chunks |-> [i \in {} |-> 0]])
    /\ UNCHANGED delivered

ReceiveChunk(r) ==
    /\ Arrives(r)
    /\ received[r] \in 1..TotalChunks(png[r])
    /\ Chunked(png[r])
    /\ LET i == received[r] - 1
           e == incoming[Key(r)]
           f == [e EXCEPT !.chunks = Put(@, i, Chunk(r, i))]
       IN  incoming' = IF Key(r) \in DOMAIN incoming THEN Put(incoming, Key(r), f)
                       ELSE incoming
    /\ UNCHANGED delivered

ReceiveComplete(r) ==
    /\ Arrives(r)
    /\ Chunked(png[r])
    /\ received[r] = TotalChunks(png[r]) + 1
    /\ IF Key(r) \notin DOMAIN incoming THEN UNCHANGED <<incoming, delivered>>
       ELSE /\ incoming' = Popped(incoming, Key(r))
            /\ delivered' = Append(delivered, Assembled(incoming[Key(r)]))

-----------------------------------------------------------------------------
(* Network *)

\* Messages under way are lost, and the transfers in progress with them.
Disconnect(w) ==
    /\ conn[w]
    /\ losses < MaxLosses
    /\ losses' = losses + 1
    /\ conn' = [conn EXCEPT ![w] = FALSE]
    /\ lost' = lost \cup {r \in Results : /\ r[1] = w
                                          /\ sent[r] > 0
                                          /\ received[r] < NumMessages(png[r])}
    /\ UNCHANGED <<png, rendered, live, sent, received, incoming, delivered>>

Reconnect(w) ==
    /\ ~conn[w]
    /\ conn' = [conn EXCEPT ![w] = TRUE]
    /\ UNCHANGED <<png, rendered, live, sent, received, incoming, delivered, lost, losses>>

-----------------------------------------------------------------------------
Init ==
    /\ png = [r \in Results |-> 0]
    /\ rendered = {}
    /\ live = {}
    /\ sent = [r \in Results |-> 0]
    /\ received = [r \in Results |-> 0]
    /\ incoming = << >>
    /\ delivered = << >>
    /\ conn = [w \in Workers |-> TRUE]
    /\ lost = {}
    /\ losses = 0

SendStep(r) == SendNext(r) \/ SendFails(r)

ReceiveStep(r) == ReceiveInline(r) \/ ReceiveStart(r) \/ ReceiveChunk(r)
                  \/ ReceiveComplete(r)

Next == \/ \E w \in Workers : Render(w) \/ Disconnect(w) \/ Reconnect(w)
        \/ \E r \in Results : SendStep(r) \/ ReceiveStep(r)

Spec == Init /\ [][Next]_vars

\* The event loops run their coroutines and handlers.
Fairness == \A r \in Results : WF_vars(SendStep(r)) /\ WF_vars(ReceiveStep(r))

FairSpec == Spec /\ Fairness

-----------------------------------------------------------------------------
(* Properties *)

\* Every variable has its type; a chunk is never empty.
TypeOK ==
    /\ png \in [Results -> Sizes \cup {0}]
    /\ rendered \in SUBSET Results
    /\ live \in SUBSET rendered
    /\ sent \in [Results -> Nat]
    /\ received \in [Results -> Nat]
    /\ DOMAIN incoming \subseteq Results
    /\ \A r \in DOMAIN incoming : IsEntry(incoming[r])
    /\ delivered \in Seq(Messages)
    /\ conn \in [Workers -> BOOLEAN]
    /\ lost \in SUBSET Results
    /\ losses \in Nat

\* The parts are all the bytes of r, each once and in order.
Complete(parts, r) ==
    /\ parts # << >>
    /\ parts[1].from = 0
    /\ \A i \in 1..(Len(parts) - 1) : parts[i].to = parts[i + 1].from
    /\ parts[Len(parts)].to = png[r]
    /\ \A i \in 1..Len(parts) : parts[i].of = r

\* Whatever the messages of other transfers in between, and whatever was lost
\* before, a result in _result_queue is the one its worker rendered: all its bytes,
\* in order and of no other tile; and it is a failure only when the render failed.
ResultsIntact ==
    \A i \in 1..Len(delivered) :
        LET d == delivered[i]
        IN  /\ d.ok <=> png[d.of] # 0
            /\ d.ok => Complete(d.parts, d.of)

\* The assembler keeps chunks only of transfers that go on or that a lost
\* connection cut off: _incoming has no other way to grow.
OnlyOpenTransfersKept ==
    \A r \in DOMAIN incoming : r \in live \/ received[r] < sent[r] \/ r \in lost

IsDelivered(r) == \E i \in 1..Len(delivered) : delivered[i].of = r

\* A rendered result reaches the server unless its connection is lost: however the
\* coroutines take turns, none waits for ever and no transfer stops halfway.
ResultArrives == \A r \in Results : r \in rendered ~> IsDelivered(r) \/ r \in lost

-----------------------------------------------------------------------------
(* Refinement of ResultPromise *)

promisedMade == [r \in Results |-> IF r \notin rendered THEN "nothing"
                                  ELSE IF png[r] = 0 THEN "failure" ELSE "image"]

\* What an entry of _result_queue is to a reader who knows what was rendered.
Seen(d) == [of |-> d.of, is |-> IF ~d.ok THEN "failure"
                                ELSE IF Complete(d.parts, d.of) THEN "image"
                                ELSE "broken"]

promisedQueue == [i \in 1..Len(delivered) |-> Seen(delivered[i])]

Promise == INSTANCE ResultPromise WITH made <- promisedMade, queue <- promisedQueue

\* Chunker, send coroutines and assembler keep the promise of ResultPromise: no
\* result comes twice, none comes broken, and one given up with its connection,
\* whose chunks stay in _incoming, does not come after the worker has reconnected.
TransferKeepsPromise == Promise!Spec
=============================================================================
