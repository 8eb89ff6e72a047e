------------------------ MODULE TileTransfer_proofs -------------------------
(* TileTransfer for every number of workers and results and every size: what  *)
(* reaches _result_queue is what was rendered, and no transfer is left over.  *)
EXTENDS TileTransfer, TLAPS

-----------------------------------------------------------------------------
(* Arithmetic of the chunks *)

\* Rounding up: the chunks reach the end, all but the last do not.
LEMMA RoundedUp ==
    ASSUME NEW n \in Nat \ {0}
    PROVE  /\ TotalChunks(n) \in Nat \ {0}
           /\ TotalChunks(n) * ChunkSize >= n
           /\ (TotalChunks(n) - 1) * ChunkSize < n
<1> DEFINE a == n + ChunkSize - 1
           q == a \div ChunkSize
<1>1. ChunkSize \in Nat \ {0} /\ a \in Nat
    BY TransferAssumption
<1>2. q \in Int /\ q * ChunkSize <= a /\ a < (q + 1) * ChunkSize
    BY <1>1
<1>3. TotalChunks(n) = q
    BY DEF TotalChunks
<1> QED BY <1>1, <1>2, <1>3

LEMMA TimesMonotone ==
    ASSUME NEW a \in Int, NEW b \in Int, a <= b, NEW c \in Nat
    PROVE  a * c <= b * c
<1> DEFINE d == b - a
<1>1. d \in Nat
    OBVIOUS
<1>2. d * c \in Nat
    BY <1>1
<1> HIDE DEF d
<1>3. (a + d) * c = a * c + d * c /\ a * c \in Int
    BY <1>1
<1>4. a + d = b
    BY DEF d
<1> QED BY <1>2, <1>3, <1>4

\* A chunk that is sent is not empty.
LEMMA BeforeTheEnd ==
    ASSUME NEW n \in Nat \ {0}, NEW i \in Nat, i < TotalChunks(n)
    PROVE  i * ChunkSize < n /\ i * ChunkSize \in Nat
<1> DEFINE q == TotalChunks(n) - 1
<1>1. q \in Int /\ i <= q /\ q * ChunkSize < n
    BY RoundedUp
<1> HIDE DEF q
<1>2. ChunkSize \in Nat
    BY TransferAssumption
<1>3. i * ChunkSize <= q * ChunkSize
    BY <1>1, <1>2, TimesMonotone
<1>4. i * ChunkSize \in Nat /\ q * ChunkSize \in Int
    BY <1>1, <1>2
<1> QED BY <1>1, <1>3, <1>4

LEMMA ChunkedSize ==
    ASSUME NEW n \in Nat, Chunked(n)
    PROVE  n # 0
<1>1. 4 * ((0 + 2) \div 3) = 0
    OBVIOUS
<1> QED BY <1>1, TransferAssumption DEF Chunked

-----------------------------------------------------------------------------
(* Chunks and what is assembled of them *)

Sized == /\ png \in [Results -> Sizes \cup {0}]
         /\ Sizes \subseteq Nat \ {0}

LEMMA ChunkFacts ==
    ASSUME Sized, NEW r \in Results, png[r] # 0,
           NEW i \in Nat, i < TotalChunks(png[r])
    PROVE  /\ Chunk(r, i) \in Data
           /\ Chunk(r, i).of = r
           /\ Chunk(r, i).from = i * ChunkSize
           /\ i + 1 < TotalChunks(png[r]) => Chunk(r, i).to = (i + 1) * ChunkSize
           /\ i + 1 = TotalChunks(png[r]) => Chunk(r, i).to = png[r]
<1>1. png[r] \in Nat \ {0} /\ ChunkSize \in Nat \ {0}
    BY TransferAssumption DEF Sized
<1>2. i * ChunkSize < png[r] /\ i * ChunkSize \in Nat
    BY <1>1, BeforeTheEnd
<1>3. (i + 1) * ChunkSize = i * ChunkSize + ChunkSize
    BY <1>1
<1>4. i + 1 < TotalChunks(png[r]) => (i + 1) * ChunkSize < png[r]
    BY <1>1, BeforeTheEnd
<1>5. i + 1 = TotalChunks(png[r]) => (i + 1) * ChunkSize >= png[r]
    BY <1>1, RoundedUp
<1>6. /\ ChunkEnd(png[r], i) \in Nat
      /\ i * ChunkSize < ChunkEnd(png[r], i)
      /\ i + 1 < TotalChunks(png[r]) => ChunkEnd(png[r], i) = (i + 1) * ChunkSize
      /\ i + 1 = TotalChunks(png[r]) => ChunkEnd(png[r], i) = png[r]
    BY <1>1, <1>2, <1>3, <1>4, <1>5 DEF ChunkEnd
<1> QED BY <1>2, <1>6 DEF Chunk, Bytes, Data

LEMMA AllBytes ==
    ASSUME Sized, NEW r \in Results, png[r] # 0
    PROVE  LET parts == [i \in 1..TotalChunks(png[r]) |-> Chunk(r, i - 1)]
           IN  parts \in Seq(Data) /\ Complete(parts, r)
<1> DEFINE T == TotalChunks(png[r])
           parts == [i \in 1..T |-> Chunk(r, i - 1)]
<1>1. T \in Nat \ {0}
    BY RoundedUp DEF Sized
<1> HIDE DEF T
<1>2. ASSUME NEW i \in 1..T
      PROVE  /\ parts[i] \in Data
             /\ parts[i].of = r
             /\ parts[i].from = (i - 1) * ChunkSize
             /\ i < T => parts[i].to = i * ChunkSize
             /\ i = T => parts[i].to = png[r]
    <2>1. i - 1 \in Nat /\ i - 1 < T /\ (i - 1) + 1 = i
        BY <1>1
    <2>2. parts[i] = Chunk(r, i - 1)
        OBVIOUS
    <2> QED BY <2>1, <2>2, ChunkFacts DEF T
<1>3. parts \in Seq(Data) /\ Len(parts) = T /\ parts # << >>
    <2>1. parts \in [1..T -> Data]
        BY <1>2
    <2>2. parts \in Seq(Data) /\ Len(parts) = T
        BY <1>1, <2>1
    <2> HIDE DEF parts
    <2> QED BY <1>1, <2>2
<1>4. parts[1].from = 0
    BY <1>1, <1>2, TransferAssumption
<1>5. ASSUME NEW i \in 1..(T - 1) PROVE parts[i].to = parts[i + 1].from
    <2>1. i \in 1..T /\ i + 1 \in 1..T /\ i < T /\ (i + 1) - 1 = i
        BY <1>1
    <2> QED BY <1>2, <2>1
<1>6. parts[T].to = png[r]
    BY <1>1, <1>2
<1> HIDE DEF parts
<1>7. parts \in Seq(Data) /\ Complete(parts, r)
    BY <1>2, <1>3, <1>4, <1>5, <1>6 DEF Complete
<1> QED BY <1>7 DEF parts, T

LEMMA MessageCount ==
    ASSUME NEW n \in Nat
    PROVE  /\ NumMessages(n) \in Nat \ {0}
           /\ Chunked(n) => /\ n # 0
                            /\ TotalChunks(n) \in Nat \ {0}
                            /\ NumMessages(n) = TotalChunks(n) + 2
           /\ ~Chunked(n) => NumMessages(n) = 1
BY ChunkedSize, RoundedUp DEF NumMessages

-----------------------------------------------------------------------------
(* The inductive invariant *)

\* A transfer is open at the server between START and COMPLETE.
OpenAtServer(r) == Chunked(png[r]) /\ received[r] \in 1..(TotalChunks(png[r]) + 1)

\* The entry of an open transfer holds the chunks received, each the right one.
EntryInv(r) ==
    /\ incoming[r] \in [of : {r}, total : {TotalChunks(png[r])},
                        chunks : [0..(received[r] - 2) -> Data]]
    /\ \A i \in 0..(received[r] - 2) : incoming[r].chunks[i] = Chunk(r, i)

AssemblerInv ==
    /\ DOMAIN incoming = {r \in Results : OpenAtServer(r)}
    /\ \A r \in Results : OpenAtServer(r) => EntryInv(r)

\* Messages are received after they are sent, and sent after the render; a
\* coroutine ends when all is sent or the result is lost.
StreamInv ==
    /\ \A r \in Results : received[r] <= sent[r] /\ sent[r] <= NumMessages(png[r])
    /\ \A r \in live : sent[r] < NumMessages(png[r])
    /\ \A r \in Results \ rendered : sent[r] = 0
    /\ \A r \in rendered : r \in live \/ r \in lost \/ sent[r] = NumMessages(png[r])

DeliveredInv == \A i \in 1..Len(delivered) : delivered[i].of \in rendered

PlainTypes ==
    /\ Sized
    /\ rendered \in SUBSET Results
    /\ live \in SUBSET rendered
    /\ sent \in [Results -> Nat]
    /\ received \in [Results -> Nat]
    /\ delivered \in Seq(Messages)
    /\ conn \in [Workers -> BOOLEAN]
    /\ lost \in SUBSET Results
    /\ losses \in Nat

TransferInv == PlainTypes /\ StreamInv /\ AssemblerInv /\ DeliveredInv /\ ResultsIntact

LEMMA Types ==
    ASSUME TransferInv
    PROVE  /\ \A r \in Results : /\ png[r] \in Nat
                                 /\ png[r] \in Sizes \cup {0}
                                 /\ sent[r] \in Nat
                                 /\ received[r] \in Nat
           /\ live \subseteq rendered /\ rendered \subseteq Results
           /\ received \in [Results -> Nat] /\ sent \in [Results -> Nat]
           /\ Sized
<1>1. Sized
    BY DEF TransferInv, PlainTypes
<1>2. ASSUME NEW r \in Results PROVE png[r] \in Sizes \cup {0} /\ png[r] \in Nat
    <2>1. png[r] \in Sizes \cup {0}
        BY <1>1 DEF Sized
    <2>2. Sizes \cup {0} \subseteq Nat
        BY <1>1 DEF Sized
    <2> QED BY <2>1, <2>2
<1>3. received \in [Results -> Nat] /\ sent \in [Results -> Nat]
      /\ live \subseteq rendered /\ rendered \subseteq Results
    BY DEF TransferInv, PlainTypes
<1> QED BY <1>1, <1>2, <1>3

LEMMA InvGivesTypeOK == TransferInv => TypeOK
<1> SUFFICES ASSUME TransferInv PROVE TypeOK
    OBVIOUS
<1>1. ASSUME NEW r \in DOMAIN incoming PROVE IsEntry(incoming[r])
    <2>1. r \in Results /\ OpenAtServer(r) /\ EntryInv(r)
        BY DEF TransferInv, AssemblerInv
    <2>2. png[r] \in Sizes /\ received[r] - 1 \in 0..TotalChunks(png[r])
        BY <2>1, Types, MessageCount DEF OpenAtServer
    <2>3. (received[r] - 1) - 1 = received[r] - 2
        BY <2>1, Types
    <2> QED BY <2>1, <2>2, <2>3 DEF EntryInv, IsEntry
<1>2. DOMAIN incoming \subseteq Results
    BY DEF TransferInv, AssemblerInv
<1> QED BY <1>1, <1>2 DEF TypeOK, TransferInv, PlainTypes, Sized

LEMMA InvGivesNoneLeft == TransferInv => OnlyOpenTransfersKept
<1> SUFFICES ASSUME TransferInv, NEW r \in DOMAIN incoming
             PROVE  r \in live \/ received[r] < sent[r] \/ r \in lost
    BY DEF OnlyOpenTransfersKept
<1>1. r \in Results /\ OpenAtServer(r) /\ png[r] \in Nat
    BY Types DEF TransferInv, AssemblerInv
<1>2. received[r] \in Nat /\ 0 < received[r] /\ received[r] < NumMessages(png[r])
    BY <1>1, MessageCount DEF OpenAtServer
<1>3. received[r] <= sent[r] /\ sent[r] \in Nat
    BY <1>1, Types DEF TransferInv, StreamInv
<1>4. r \in rendered
    BY <1>1, <1>2, <1>3 DEF TransferInv, StreamInv
<1> QED BY <1>2, <1>3, <1>4 DEF TransferInv, StreamInv

LEMMA InitInv == Init => TransferInv
<1> SUFFICES ASSUME Init PROVE TransferInv
    OBVIOUS
<1>1. PlainTypes
    BY TransferAssumption DEF Init, PlainTypes, Sized
<1>2. StreamInv
    BY MessageCount DEF Init, StreamInv
<1>3. DOMAIN incoming = {} /\ \A r \in Results : ~OpenAtServer(r)
    BY DEF Init, OpenAtServer
<1>4. DeliveredInv /\ ResultsIntact
    BY DEF Init, DeliveredInv, ResultsIntact
<1> QED BY <1>1, <1>2, <1>3, <1>4 DEF TransferInv, AssemblerInv

-----------------------------------------------------------------------------
(* The steps *)

\* Steps that neither render nor receive
LEMMA AssemblerSame ==
    ASSUME TransferInv, UNCHANGED <<png, received, incoming>>
    PROVE  AssemblerInv'
BY DEF TransferInv, AssemblerInv, OpenAtServer, EntryInv, Chunk, Bytes

LEMMA DeliveredSame ==
    ASSUME TransferInv, UNCHANGED <<png, rendered, delivered>>
    PROVE  DeliveredInv' /\ ResultsIntact'
BY DEF TransferInv, DeliveredInv, ResultsIntact, Complete

LEMMA SendInv ==
    ASSUME TransferInv, NEW r \in Results, SendStep(r)
    PROVE  TransferInv'
<1>1. AssemblerInv' /\ DeliveredInv' /\ ResultsIntact'
    BY AssemblerSame, DeliveredSame DEF SendStep, SendNext, SendFails
<1>2. PlainTypes'
    BY DEF TransferInv, PlainTypes, Sized, SendStep, SendNext, SendFails
<1>3. CASE SendNext(r)
    <2>1. r \in live /\ r \in rendered /\ png[r] \in Nat
        BY <1>3, Types DEF SendNext
    <2>2. sent[r] \in Nat /\ NumMessages(png[r]) \in Nat /\ sent[r] < NumMessages(png[r])
        BY <2>1, Types, MessageCount DEF TransferInv, StreamInv
    <2>3. /\ sent'[r] = sent[r] + 1
          /\ \A q \in Results : q # r => sent'[q] = sent[q]
          /\ live' = IF sent'[r] = NumMessages(png[r]) THEN live \ {r} ELSE live
          /\ UNCHANGED <<png, rendered, received, lost>>
        <3>1. sent \in [Results -> Nat] /\ sent' = [sent EXCEPT ![r] = @ + 1]
            BY <1>3, Types DEF SendNext
        <3>2. sent'[r] = sent[r] + 1 /\ \A q \in Results : q # r => sent'[q] = sent[q]
            BY <3>1
        <3> QED BY <1>3, <3>2 DEF SendNext
    <2>4. received[r] \in Nat /\ live \subseteq Results /\ rendered \subseteq Results
        BY Types
    <2>5. StreamInv'
        <3>1. ASSUME NEW q \in Results
              PROVE  received'[q] <= sent'[q] /\ sent'[q] <= NumMessages(png'[q])
            <4>1. CASE q = r
                BY <2>1, <2>2, <2>3, <2>4, <4>1 DEF TransferInv, StreamInv
            <4>2. CASE q # r
                BY <2>3, <4>2 DEF TransferInv, StreamInv
            <4> QED BY <4>1, <4>2
        <3>2. ASSUME NEW q \in live' PROVE sent'[q] < NumMessages(png'[q])
            <4>1. CASE q = r
                BY <2>2, <2>3, <4>1
            <4>2. CASE q # r
                BY <2>3, <2>4, <4>2 DEF TransferInv, StreamInv
            <4> QED BY <4>1, <4>2
        <3>3. ASSUME NEW q \in (Results \ rendered)' PROVE sent'[q] = 0
            BY <2>1, <2>3 DEF TransferInv, StreamInv
        <3>4. ASSUME NEW q \in rendered'
              PROVE  q \in live' \/ q \in lost' \/ sent'[q] = NumMessages(png'[q])
            <4>1. CASE q = r
                BY <2>1, <2>3, <4>1
            <4>2. CASE q # r
                BY <2>3, <2>4, <4>2 DEF TransferInv, StreamInv
            <4> QED BY <4>1, <4>2
        <3> QED BY <3>1, <3>2, <3>3, <3>4 DEF StreamInv
    <2> QED BY <1>1, <1>2, <2>5 DEF TransferInv
<1>4. CASE SendFails(r)
    <2>1. StreamInv'
        BY <1>4 DEF SendFails, TransferInv, StreamInv
    <2> QED BY <1>1, <1>2, <2>1 DEF TransferInv
<1> QED BY <1>3, <1>4 DEF SendStep

LEMMA NetworkInv ==
    ASSUME TransferInv, NEW w \in Workers, Disconnect(w) \/ Reconnect(w)
    PROVE  TransferInv'
<1>1. AssemblerInv' /\ DeliveredInv' /\ ResultsIntact'
    BY AssemblerSame, DeliveredSame DEF Disconnect, Reconnect
<1>2. PlainTypes'
    <2>1. CASE Disconnect(w)
        <3>1. lost' \subseteq Results /\ losses' \in Nat
            BY <2>1 DEF Disconnect, TransferInv, PlainTypes
        <3> QED BY <2>1, <3>1 DEF Disconnect, TransferInv, PlainTypes, Sized
    <2>2. CASE Reconnect(w)
        BY <2>2 DEF Reconnect, TransferInv, PlainTypes, Sized
    <2> QED BY <2>1, <2>2
<1>3. StreamInv'
    BY DEF TransferInv, StreamInv, Disconnect, Reconnect
<1> QED BY <1>1, <1>2, <1>3 DEF TransferInv

\* Only a result that has not begun to be sent is rendered.
LEMMA RenderInv ==
    ASSUME TransferInv, NEW w \in Workers, Render(w)
    PROVE  TransferInv'
<1>1. PICK r \in Results, n \in Sizes \cup {0} :
          /\ r \notin rendered
          /\ png' = [png EXCEPT ![r] = n]
          /\ rendered' = rendered \cup {r}
          /\ live' = live \cup {r}
          /\ UNCHANGED <<sent, received, incoming, delivered, conn, lost, losses>>
    BY DEF Render
<1>2. n \in Nat /\ png'[r] = n /\ \A q \in Results : q # r => png'[q] = png[q]
    BY <1>1 DEF TransferInv, PlainTypes, Sized
<1>3. sent[r] = 0 /\ received[r] = 0
    BY <1>1, Types DEF TransferInv, StreamInv
<1>4. PlainTypes'
    BY <1>1 DEF TransferInv, PlainTypes, Sized
<1>5. StreamInv'
    <2>1. /\ NumMessages(n) \in Nat \ {0}
          /\ live \subseteq Results /\ rendered \subseteq Results
        BY <1>2, Types, MessageCount
    <2>2. ASSUME NEW q \in Results
          PROVE  received'[q] <= sent'[q] /\ sent'[q] <= NumMessages(png'[q])
        <3>1. CASE q = r
            BY <1>1, <1>2, <1>3, <2>1, <3>1
        <3>2. CASE q # r
            BY <1>1, <1>2, <3>2 DEF TransferInv, StreamInv
        <3> QED BY <3>1, <3>2
    <2>3. ASSUME NEW q \in live' PROVE sent'[q] < NumMessages(png'[q])
        <3>1. CASE q = r
            BY <1>1, <1>2, <1>3, <2>1, <3>1
        <3>2. CASE q # r
            BY <1>1, <1>2, <2>1, <3>2 DEF TransferInv, StreamInv
        <3> QED BY <3>1, <3>2
    <2>4. ASSUME NEW q \in (Results \ rendered)' PROVE sent'[q] = 0
        BY <1>1 DEF TransferInv, StreamInv
    <2>5. ASSUME NEW q \in rendered'
          PROVE  q \in live' \/ q \in lost' \/ sent'[q] = NumMessages(png'[q])
        <3>1. CASE q = r
            BY <1>1, <3>1
        <3>2. CASE q # r
            BY <1>1, <1>2, <2>1, <3>2 DEF TransferInv, StreamInv
        <3> QED BY <3>1, <3>2
    <2> QED BY <2>2, <2>3, <2>4, <2>5 DEF StreamInv
<1>6. AssemblerInv'
    <2>1. ~OpenAtServer(r) /\ ~OpenAtServer(r)'
        BY <1>1, <1>3 DEF OpenAtServer
    <2>2. ASSUME NEW q \in Results, q # r
          PROVE  /\ OpenAtServer(q)' <=> OpenAtServer(q)
                 /\ EntryInv(q)' <=> EntryInv(q)
        BY <1>1, <1>2, <2>2 DEF OpenAtServer, EntryInv, Chunk, Bytes
    <2>3. {q \in Results : OpenAtServer(q)}' = {q \in Results : OpenAtServer(q)}
        BY <2>1, <2>2
    <2> QED BY <1>1, <2>1, <2>2, <2>3 DEF TransferInv, AssemblerInv
<1>7. \A i \in 1..Len(delivered) : delivered[i].of \in rendered /\ delivered[i].of # r
    BY <1>1 DEF TransferInv, DeliveredInv
<1>8. DeliveredInv' /\ ResultsIntact'
    BY <1>1, <1>2, <1>7
    DEF TransferInv, PlainTypes, DeliveredInv, ResultsIntact, Complete
<1> QED BY <1>4, <1>5, <1>6, <1>8 DEF TransferInv

\* The handling of any message but the first changes one stream only.
LEMMA ReceiveStream ==
    ASSUME TransferInv, NEW r \in Results, Arrives(r)
    PROVE  /\ received'[r] = received[r] + 1
           /\ \A q \in Results : q # r => received'[q] = received[q]
           /\ received[r] \in Nat /\ received[r] < NumMessages(png[r])
           /\ r \in rendered /\ png[r] \in Nat
           /\ received' \in [Results -> Nat]
           /\ StreamInv'
<1>1. /\ received \in [Results -> Nat] /\ sent \in [Results -> Nat]
      /\ png[r] \in Nat /\ NumMessages(png[r]) \in Nat
    BY Types, MessageCount
<1>2. /\ received' = [received EXCEPT ![r] = @ + 1] /\ received[r] < sent[r]
      /\ UNCHANGED <<png, rendered, live, sent, lost>>
    BY DEF Arrives
<1>3. received[r] < NumMessages(png[r]) /\ r \in rendered
    BY <1>1, <1>2 DEF TransferInv, StreamInv
<1>4. \A q \in Results : received'[q] <= sent[q]
    BY <1>1, <1>2 DEF TransferInv, StreamInv
<1>5. StreamInv'
    BY <1>2, <1>4 DEF TransferInv, StreamInv
<1> QED BY <1>1, <1>2, <1>3, <1>5

\* Other transfers do not notice.
LEMMA OthersSame ==
    ASSUME TransferInv, NEW r \in Results, Arrives(r),
           NEW q \in Results, q # r, incoming'[q] = incoming[q]
    PROVE  /\ OpenAtServer(q)' <=> OpenAtServer(q)
           /\ EntryInv(q)' <=> EntryInv(q)
<1>1. received'[q] = received[q] /\ png' = png
    BY ReceiveStream DEF Arrives
<1> QED BY <1>1 DEF OpenAtServer, EntryInv, Chunk, Bytes

LEMMA StartInv ==
    ASSUME TransferInv, NEW r \in Results, ReceiveStart(r)
    PROVE  TransferInv'
<1> DEFINE e == [of |-> r, total |-> TotalChunks(png[r]), chunks |-> [i \in {} |-> 0]]
<1>1. Arrives(r)
    BY DEF ReceiveStart
<1>2. StreamInv' /\ received'[r] = 1 /\ png[r] \in Nat /\ png' = png
    <2>1. StreamInv' /\ received'[r] = received[r] + 1 /\ png[r] \in Nat
        BY <1>1, ReceiveStream
    <2>2. received[r] = 0 /\ png' = png
        BY DEF ReceiveStart, Arrives
    <2> QED BY <2>1, <2>2
<1>3. incoming' = Put(incoming, r, e)
    BY DEF ReceiveStart, Key
<1>4. /\ DOMAIN incoming' = DOMAIN incoming \cup {r}
      /\ incoming'[r] = e
      /\ \A q \in DOMAIN incoming : q # r => incoming'[q] = incoming[q]
    BY <1>3 DEF Put
<1>5. OpenAtServer(r)'
    BY <1>2, MessageCount DEF ReceiveStart, OpenAtServer
<1>6. EntryInv(r)'
    <2>1. 0..(received'[r] - 2) = {}
        BY <1>2
    <2>2. incoming'[r].chunks \in [{} -> Data]
        BY <1>4
    <2> QED BY <1>2, <1>4, <2>1, <2>2 DEF EntryInv
<1>7. ASSUME NEW q \in Results, q # r
      PROVE  /\ OpenAtServer(q)' <=> OpenAtServer(q)
             /\ OpenAtServer(q) => EntryInv(q)'
    <2>1. received'[q] = received[q] /\ png' = png
        BY <1>1, <1>7, ReceiveStream DEF Arrives
    <2>2. OpenAtServer(q)' <=> OpenAtServer(q)
        BY <2>1 DEF OpenAtServer
    <2>3. OpenAtServer(q) => incoming'[q] = incoming[q]
        BY <1>4, <1>7 DEF TransferInv, AssemblerInv
    <2> QED BY <1>1, <1>7, <2>2, <2>3, OthersSame DEF TransferInv, AssemblerInv
<1>8. AssemblerInv'
    BY <1>4, <1>5, <1>6, <1>7 DEF TransferInv, AssemblerInv
<1>9. PlainTypes'
    BY <1>1, ReceiveStream DEF TransferInv, PlainTypes, Sized, ReceiveStart, Arrives
<1>10. DeliveredInv' /\ ResultsIntact'
    BY DeliveredSame DEF ReceiveStart, Arrives
<1> QED BY <1>2, <1>8, <1>9, <1>10 DEF TransferInv

LEMMA ChunkInv ==
    ASSUME TransferInv, NEW r \in Results, ReceiveChunk(r)
    PROVE  TransferInv'
<1> DEFINE i == received[r] - 1
           e == incoming[r]
           f == [e EXCEPT !.chunks = Put(@, i, Chunk(r, i))]
<1>1. Arrives(r)
    BY DEF ReceiveChunk
<1>2. /\ StreamInv' /\ received'[r] = received[r] + 1 /\ received[r] \in Nat
      /\ png[r] \in Nat /\ png' = png
      /\ received[r] \in 1..TotalChunks(png[r]) /\ Chunked(png[r])
    BY <1>1, ReceiveStream DEF ReceiveChunk, Arrives
<1>3. OpenAtServer(r) /\ OpenAtServer(r)' /\ TotalChunks(png[r]) \in Nat
    BY <1>2, MessageCount DEF OpenAtServer
<1>4. incoming' = Put(incoming, r, f)
    BY <1>3 DEF ReceiveChunk, Key, TransferInv, AssemblerInv
<1>5. /\ DOMAIN incoming' = DOMAIN incoming \cup {r}
      /\ incoming'[r] = f
      /\ \A q \in DOMAIN incoming : q # r => incoming'[q] = incoming[q]
    BY <1>4 DEF Put
<1>6. EntryInv(r)'
    <2>1. EntryInv(r)
        BY <1>3 DEF TransferInv, AssemblerInv
    <2>2. /\ i \in Nat /\ i < TotalChunks(png[r])
          /\ received[r] - 2 = i - 1 /\ received'[r] - 2 = i
        BY <1>2, <1>3
    <2>3. Chunk(r, i) \in Data
        BY <1>2, <2>2, ChunkFacts, MessageCount, Types
    <2>4. e.chunks \in [0..(i - 1) -> Data] /\ e.of = r /\ e.total = TotalChunks(png[r])
        BY <2>1, <2>2 DEF EntryInv
    <2> HIDE DEF i
    <2> DEFINE c == Put(e.chunks, i, Chunk(r, i))
    <2>5. DOMAIN e.chunks \cup {i} = 0..i
        BY <2>2, <2>4
    <2>6. c \in [0..i -> Data] /\ \A j \in 0..i : c[j] = IF j = i THEN Chunk(r, i)
                                                        ELSE e.chunks[j]
        BY <2>3, <2>4, <2>5 DEF Put
    <2>7. f = [of |-> r, total |-> TotalChunks(png[r]), chunks |-> c]
        BY <2>1 DEF EntryInv
    <2>8. \A j \in 0..i : c[j] = Chunk(r, j)
        BY <2>1, <2>2, <2>6 DEF EntryInv
    <2> HIDE DEF c, f
    <2>9. /\ incoming'[r] = [of |-> r, total |-> TotalChunks(png'[r]), chunks |-> c]
          /\ \A j \in 0..i : c[j] = Chunk(r, j)'
        BY <1>2, <1>5, <2>7, <2>8 DEF Chunk, Bytes
    <2> QED BY <2>2, <2>6, <2>9 DEF EntryInv
<1> HIDE DEF f, e, i
<1>7. ASSUME NEW q \in Results, q # r
      PROVE  /\ OpenAtServer(q)' <=> OpenAtServer(q)
             /\ OpenAtServer(q) => EntryInv(q)'
    <2>1. received'[q] = received[q] /\ png' = png
        BY <1>1, <1>7, ReceiveStream DEF Arrives
    <2>2. OpenAtServer(q)' <=> OpenAtServer(q)
        BY <2>1 DEF OpenAtServer
    <2>3. OpenAtServer(q) => incoming'[q] = incoming[q]
        BY <1>5, <1>7 DEF TransferInv, AssemblerInv
    <2> QED BY <1>1, <1>7, <2>2, <2>3, OthersSame DEF TransferInv, AssemblerInv
<1>8. AssemblerInv'
    BY <1>3, <1>5, <1>6, <1>7 DEF TransferInv, AssemblerInv
<1>9. PlainTypes'
    BY <1>1, ReceiveStream DEF TransferInv, PlainTypes, Sized, ReceiveChunk, Arrives
<1>10. DeliveredInv' /\ ResultsIntact'
    BY DeliveredSame DEF ReceiveChunk, Arrives
<1> QED BY <1>2, <1>8, <1>9, <1>10 DEF TransferInv

\* A result put into the queue is one of the rendered, and whole.
LEMMA DeliverInv ==
    ASSUME TransferInv, NEW r \in rendered, NEW d \in Messages, d.of = r,
           d.ok <=> png[r] # 0,
           d.ok => Complete(d.parts, r),
           delivered' = Append(delivered, d),
           UNCHANGED <<png, rendered>>
    PROVE  delivered' \in Seq(Messages) /\ DeliveredInv' /\ ResultsIntact'
<1>1. delivered \in Seq(Messages)
    BY DEF TransferInv, PlainTypes
<1>2. delivered' \in Seq(Messages)
    BY <1>1
<1>3. ASSUME NEW i \in 1..Len(delivered')
      PROVE  /\ delivered'[i].of \in rendered
             /\ delivered'[i].ok <=> png[delivered'[i].of] # 0
             /\ delivered'[i].ok => Complete(delivered'[i].parts, delivered'[i].of)
    <2>1. CASE i \in 1..Len(delivered)
        <3>1. delivered'[i] = delivered[i]
            BY <1>1, <2>1
        <3> QED BY <2>1, <3>1 DEF TransferInv, DeliveredInv, ResultsIntact
    <2>2. CASE i = Len(delivered) + 1
        <3>1. delivered'[i] = d
            BY <1>1, <2>2
        <3> QED BY <3>1
    <2> QED BY <1>1, <2>1, <2>2
<1>4. DeliveredInv'
    BY <1>3 DEF DeliveredInv
<1>5. ResultsIntact'
    BY <1>3 DEF ResultsIntact, Complete
<1> QED BY <1>2, <1>4, <1>5

LEMMA InlineInv ==
    ASSUME TransferInv, NEW r \in Results, ReceiveInline(r)
    PROVE  TransferInv'
<1> DEFINE parts == IF png[r] = 0 THEN << >> ELSE <<Bytes(r, 0, png[r])>>
           d == [of |-> r, ok |-> png[r] # 0, parts |-> parts]
<1>1. Arrives(r)
    BY DEF ReceiveInline
<1>2. StreamInv' /\ r \in rendered /\ received' \in [Results -> Nat] /\ png[r] \in Nat
    BY <1>1, ReceiveStream
<1>3. parts \in Seq(Data) /\ (png[r] # 0 => Complete(parts, r))
    <2>1. CASE png[r] = 0
        BY <2>1
    <2>2. CASE png[r] # 0
        <3>1. Bytes(r, 0, png[r]) \in Data
            BY <1>2, <2>2 DEF Bytes, Data
        <3>2. parts = <<Bytes(r, 0, png[r])>>
            BY <2>2
        <3>3. parts[1].from = 0 /\ parts[1].to = png[r] /\ parts[1].of = r
              /\ parts # << >> /\ Len(parts) = 1
            BY <3>2 DEF Bytes
        <3> HIDE DEF parts
        <3>4. Complete(parts, r)
            BY <3>3 DEF Complete
        <3> QED BY <3>1, <3>2, <3>4
    <2> QED BY <2>1, <2>2
<1> HIDE DEF parts
<1>4. d \in Messages /\ d.of = r /\ (d.ok <=> png[r] # 0) /\ d.parts = parts
    BY <1>3 DEF Messages
<1>5. delivered' = Append(delivered, d) /\ UNCHANGED <<png, rendered, incoming>>
    BY DEF ReceiveInline, Arrives, parts
<1> HIDE DEF d
<1>6. delivered' \in Seq(Messages) /\ DeliveredInv' /\ ResultsIntact'
    BY <1>2, <1>3, <1>4, <1>5, DeliverInv
<1>7. ~OpenAtServer(r) /\ ~OpenAtServer(r)'
    BY <1>5 DEF ReceiveInline, OpenAtServer
<1>8. ASSUME NEW q \in Results, q # r
      PROVE  (OpenAtServer(q)' <=> OpenAtServer(q)) /\ (EntryInv(q)' <=> EntryInv(q))
    BY <1>1, <1>5, <1>8, OthersSame
<1>9. AssemblerInv'
    BY <1>5, <1>7, <1>8 DEF TransferInv, AssemblerInv
<1>10. PlainTypes'
    BY <1>2, <1>6 DEF TransferInv, PlainTypes, Sized, ReceiveInline, Arrives
<1> QED BY <1>2, <1>6, <1>9, <1>10 DEF TransferInv

LEMMA CompleteInv ==
    ASSUME TransferInv, NEW r \in Results, ReceiveComplete(r)
    PROVE  TransferInv'
<1> DEFINE T == TotalChunks(png[r])
           parts == [i \in 1..T |-> Chunk(r, i - 1)]
           d == Assembled(incoming[r])
<1>1. Arrives(r)
    BY DEF ReceiveComplete
<1>2. /\ StreamInv' /\ r \in rendered /\ received' \in [Results -> Nat] /\ png[r] \in Nat
      /\ received[r] \in Nat /\ received'[r] = received[r] + 1
    BY <1>1, ReceiveStream
<1>3. Chunked(png[r]) /\ received[r] = T + 1 /\ UNCHANGED <<png, rendered>>
    BY DEF ReceiveComplete, Arrives
<1>4. T \in Nat \ {0} /\ png[r] # 0
    BY <1>2, <1>3, MessageCount
<1>5. OpenAtServer(r) /\ ~OpenAtServer(r)'
    BY <1>2, <1>3, <1>4 DEF OpenAtServer
<1>6. r \in DOMAIN incoming /\ EntryInv(r)
    BY <1>5 DEF TransferInv, AssemblerInv
<1>7. incoming' = Popped(incoming, r) /\ delivered' = Append(delivered, d)
    BY <1>6 DEF ReceiveComplete, Key
<1>8. d = [of |-> r, ok |-> TRUE, parts |-> parts]
    <2> DEFINE e == incoming[r]
    <2>1. /\ e.of = r /\ e.total = T /\ e.chunks \in [0..(T - 1) -> Data]
          /\ \A i \in 0..(T - 1) : e.chunks[i] = Chunk(r, i)
        <3>1. received[r] - 2 = T - 1
            BY <1>3, <1>4
        <3> QED BY <1>6, <3>1 DEF EntryInv
    <2> HIDE DEF e, T
    <2>2. [i \in 1..T |-> e.chunks[i - 1]] = parts
        <3>1. \A i \in 1..T : i - 1 \in 0..(T - 1)
            BY <1>4
        <3> QED BY <2>1, <3>1
    <2>3. Assembled(e) = [of |-> r, ok |-> TRUE, parts |-> parts]
        BY <2>1, <2>2 DEF Assembled
    <2> QED BY <2>3 DEF e
<1>9. parts \in Seq(Data) /\ Complete(parts, r)
    BY <1>4, Types, AllBytes
<1> HIDE DEF parts, d, T
<1>10. d \in Messages /\ d.of = r /\ d.ok = TRUE /\ Complete(d.parts, r)
    BY <1>8, <1>9 DEF Messages
<1>11. delivered' \in Seq(Messages) /\ DeliveredInv' /\ ResultsIntact'
    BY <1>2, <1>3, <1>4, <1>7, <1>10, DeliverInv
<1>12. /\ DOMAIN incoming' = DOMAIN incoming \ {r}
       /\ \A q \in DOMAIN incoming : q # r => incoming'[q] = incoming[q]
    BY <1>7 DEF Popped
<1>13. ASSUME NEW q \in Results, q # r
       PROVE  /\ OpenAtServer(q)' <=> OpenAtServer(q)
              /\ OpenAtServer(q) => EntryInv(q)'
    <2>1. received'[q] = received[q]
        BY <1>1, <1>13, ReceiveStream
    <2>2. OpenAtServer(q)' <=> OpenAtServer(q)
        BY <1>3, <2>1 DEF OpenAtServer
    <2>3. OpenAtServer(q) => incoming'[q] = incoming[q]
        BY <1>12, <1>13 DEF TransferInv, AssemblerInv
    <2> QED BY <1>1, <1>13, <2>2, <2>3, OthersSame DEF TransferInv, AssemblerInv
<1>14. AssemblerInv'
    BY <1>5, <1>12, <1>13 DEF TransferInv, AssemblerInv
<1>15. PlainTypes'
    BY <1>2, <1>11 DEF TransferInv, PlainTypes, Sized, ReceiveComplete, Arrives
<1> QED BY <1>2, <1>11, <1>14, <1>15 DEF TransferInv

-----------------------------------------------------------------------------
(* The theorems *)

LEMMA NextInv == TransferInv /\ [Next]_vars => TransferInv'
<1> SUFFICES ASSUME TransferInv, [Next]_vars PROVE TransferInv'
    OBVIOUS
<1>1. ASSUME NEW w \in Workers, Render(w) PROVE TransferInv'
    BY <1>1, RenderInv
<1>2. ASSUME NEW w \in Workers, Disconnect(w) \/ Reconnect(w) PROVE TransferInv'
    BY <1>2, NetworkInv
<1>3. ASSUME NEW r \in Results, SendStep(r) PROVE TransferInv'
    BY <1>3, SendInv
<1>4. ASSUME NEW r \in Results, ReceiveStep(r) PROVE TransferInv'
    BY <1>4, InlineInv, StartInv, ChunkInv, CompleteInv DEF ReceiveStep
<1>5. CASE UNCHANGED vars
    <2>1. PlainTypes' /\ StreamInv'
        BY <1>5 DEF vars, TransferInv, PlainTypes, Sized, StreamInv
    <2>2. AssemblerInv' /\ DeliveredInv' /\ ResultsIntact'
        BY <1>5, AssemblerSame, DeliveredSame DEF vars
    <2> QED BY <2>1, <2>2 DEF TransferInv
<1> QED BY <1>1, <1>2, <1>3, <1>4, <1>5 DEF Next

LEMMA AlwaysInv == Spec => []TransferInv
BY InitInv, NextInv, PTL DEF Spec

\* The chunks kept by the assembler, the queue and the counters of every transfer
\* have their types, for every size of chunk and every limit.
THEOREM TransferTypeCorrect == Spec => []TypeOK
BY AlwaysInv, InvGivesTypeOK, PTL

\* robust_transfer.py gives back every byte the worker rendered, in order and of no
\* other tile, and reports a failure only of a render that failed.
THEOREM ResultsStayIntact == Spec => []ResultsIntact
<1>1. TransferInv => ResultsIntact
    BY DEF TransferInv
<1> QED BY <1>1, AlwaysInv, PTL

\* The dict of the assembler holds no transfer that has ended.
THEOREM NoTransferLeft == Spec => []OnlyOpenTransfersKept
BY AlwaysInv, InvGivesNoneLeft, PTL

-----------------------------------------------------------------------------
(* The refinement of ResultPromise *)

\* What is in the queue has been received to its last message, so that nothing of
\* it can arrive again and no lost connection can take it.
OnceInv == \A i \in 1..Len(delivered) :
              received[delivered[i].of] = NumMessages(png[delivered[i].of])

\* A message that hands over a result is the last one of its transfer.
LEMMA LastMessage ==
    ASSUME TransferInv, NEW r \in Results, ReceiveStep(r)
    PROVE  /\ Arrives(r)
           /\ \/ delivered' = delivered
              \/ /\ received'[r] = NumMessages(png[r])
                 /\ \E d : d.of = r /\ delivered' = Append(delivered, d)
<1>1. Arrives(r)
    BY DEF ReceiveStep, ReceiveInline, ReceiveStart, ReceiveChunk, ReceiveComplete
<1>2. /\ received'[r] = received[r] + 1 /\ received[r] < NumMessages(png[r])
      /\ received[r] \in Nat /\ png[r] \in Nat
    BY <1>1, ReceiveStream
<1>3. CASE ReceiveInline(r)
    <2>1. NumMessages(png[r]) = 1
        BY <1>2, <1>3, MessageCount DEF ReceiveInline
    <2>2. received'[r] = NumMessages(png[r])
        BY <1>2, <2>1
    <2>3. \E d : d.of = r /\ delivered' = Append(delivered, d)
        BY <1>3 DEF ReceiveInline
    <2> QED BY <1>1, <2>2, <2>3
<1>4. CASE ReceiveStart(r) \/ ReceiveChunk(r)
    BY <1>1, <1>4 DEF ReceiveStart, ReceiveChunk
<1>5. CASE ReceiveComplete(r)
    <2>1. /\ NumMessages(png[r]) = TotalChunks(png[r]) + 2
          /\ TotalChunks(png[r]) \in Nat \ {0}
          /\ received[r] = TotalChunks(png[r]) + 1
        BY <1>2, <1>5, MessageCount DEF ReceiveComplete
    <2>2. received'[r] = NumMessages(png[r])
        BY <1>2, <2>1
    <2>3. r \in DOMAIN incoming /\ incoming[r].of = r
        <3>1. OpenAtServer(r)
            BY <1>5, <2>1 DEF OpenAtServer, ReceiveComplete
        <3> QED BY <3>1 DEF TransferInv, AssemblerInv, EntryInv
    <2>4. delivered' = Append(delivered, Assembled(incoming[r]))
        BY <1>5, <2>3 DEF ReceiveComplete, Key
    <2>5. Assembled(incoming[r]).of = r
        BY <2>3 DEF Assembled
    <2> QED BY <1>1, <2>2, <2>4, <2>5
<1> QED BY <1>3, <1>4, <1>5 DEF ReceiveStep

\* A result with a message still to arrive is not in the queue.
LEMMA NotYetInQueue ==
    ASSUME OnceInv, NEW r \in Results, received[r] < NumMessages(png[r]),
           received[r] \in Nat, NEW i \in 1..Len(delivered)
    PROVE  delivered[i].of # r
BY DEF OnceInv

\* Every step keeps the queue, the sizes and the counts of what is in the queue, or
\* it is the last message of a transfer.
LEMMA OnceStep ==
    ASSUME TransferInv, OnceInv, [Next]_vars
    PROVE  OnceInv'
<1>1. delivered \in Seq(Messages)
    BY DEF TransferInv, PlainTypes
<1>2. CASE UNCHANGED <<png, received, delivered>>
    BY <1>2 DEF OnceInv
<1>3. ASSUME NEW w \in Workers, Render(w) PROVE OnceInv'
    <2>1. PICK r \in Results, n \in Sizes \cup {0} :
              /\ r \notin rendered /\ png' = [png EXCEPT ![r] = n]
              /\ UNCHANGED <<received, delivered>>
        BY <1>3 DEF Render
    <2>2. \A i \in 1..Len(delivered) : png'[delivered[i].of] = png[delivered[i].of]
        BY <2>1 DEF TransferInv, PlainTypes, Sized, DeliveredInv
    <2> QED BY <2>1, <2>2 DEF OnceInv
<1>4. ASSUME NEW r \in Results, ReceiveStep(r) PROVE OnceInv'
    <2>1. /\ Arrives(r)
          /\ \/ delivered' = delivered
             \/ /\ received'[r] = NumMessages(png[r])
                /\ \E d : d.of = r /\ delivered' = Append(delivered, d)
        BY <1>4, LastMessage
    <2>2. /\ received[r] < NumMessages(png[r]) /\ received[r] \in Nat
          /\ \A q \in Results : q # r => received'[q] = received[q]
          /\ png' = png
        BY <2>1, ReceiveStream DEF Arrives
    <2>3. ASSUME NEW i \in 1..Len(delivered)
          PROVE  received'[delivered[i].of] = NumMessages(png[delivered[i].of])
        <3>1. delivered[i].of # r
            BY <2>2, NotYetInQueue
        <3>2. delivered[i].of \in Results
            BY Types DEF TransferInv, DeliveredInv
        <3> QED BY <2>2, <3>1, <3>2 DEF OnceInv
    <2>4. CASE delivered' = delivered
        BY <2>2, <2>3, <2>4 DEF OnceInv
    <2>5. CASE /\ received'[r] = NumMessages(png[r])
               /\ \E d : d.of = r /\ delivered' = Append(delivered, d)
        <3>1. PICK d : d.of = r /\ delivered' = Append(delivered, d)
            BY <2>5
        <3>2. Len(delivered') = Len(delivered) + 1 /\ Len(delivered) \in Nat
            BY <1>1, <3>1
        <3>3. ASSUME NEW i \in 1..Len(delivered')
              PROVE  received'[delivered'[i].of] = NumMessages(png'[delivered'[i].of])
            <4>1. CASE i \in 1..Len(delivered)
                <5>1. delivered'[i] = delivered[i]
                    BY <1>1, <3>1, <4>1
                <5> QED BY <2>2, <2>3, <4>1, <5>1
            <4>2. CASE i = Len(delivered) + 1
                <5>1. delivered'[i] = d
                    BY <1>1, <3>1, <4>2
                <5> QED BY <2>2, <2>5, <3>1, <5>1
            <4> QED BY <3>2, <4>1, <4>2
        <3> QED BY <3>3 DEF OnceInv
    <2> QED BY <2>1, <2>4, <2>5
<1>5. ASSUME NEW w \in Workers, Disconnect(w) \/ Reconnect(w) PROVE OnceInv'
    BY <1>2, <1>5 DEF Disconnect, Reconnect
<1>6. ASSUME NEW r \in Results, SendStep(r) PROVE OnceInv'
    BY <1>2, <1>6 DEF SendStep, SendNext, SendFails
<1> QED BY <1>2, <1>3, <1>4, <1>5, <1>6 DEF Next, vars

LEMMA QueueLength ==
    ASSUME delivered \in Seq(Messages)
    PROVE  /\ Len(promisedQueue) = Len(delivered)
           /\ \A i \in 1..Len(delivered) : promisedQueue[i].of = delivered[i].of
BY DEF promisedQueue, Seen

\* What the renderer waits for is what the detailed state has not yet received.
LEMMA StillUnderWay ==
    ASSUME TransferInv, OnceInv, NEW r \in rendered, r \notin lost,
           received[r] < NumMessages(png[r])
    PROVE  r \in Promise!UnderWay
<1>1. r \in Results /\ received[r] \in Nat
    BY Types
<1>2. delivered \in Seq(Messages)
    BY DEF TransferInv, PlainTypes
<1>3. ~Promise!HandedOver(r)
    BY <1>1, <1>2, NotYetInQueue, QueueLength DEF Promise!HandedOver
<1>4. promisedMade[r] # "nothing"
    BY <1>1 DEF promisedMade
<1> QED BY <1>1, <1>3, <1>4 DEF Promise!UnderWay

\* Appending to _result_queue appends to what the reader sees.
LEMMA QueueGrows ==
    ASSUME delivered \in Seq(Messages), NEW d, delivered' = Append(delivered, d), png' = png
    PROVE  promisedQueue' = Append(promisedQueue, Seen(d))
<1> DEFINE n == Len(delivered)
<1>1. n \in Nat /\ Len(delivered') = n + 1
    OBVIOUS
<1>2. ASSUME NEW e PROVE Seen(e)' = Seen(e)
    BY DEF Seen, Complete
<1>3. promisedQueue' = [i \in 1..(n + 1) |-> Seen(delivered'[i])]
    BY <1>1, <1>2 DEF promisedQueue, Seen, Complete
<1>4. \A i \in 1..n : delivered'[i] = delivered[i]
    OBVIOUS
<1>5. delivered'[n + 1] = d
    OBVIOUS
<1>6. promisedQueue = [i \in 1..n |-> Seen(delivered[i])]
    BY DEF promisedQueue
<1> HIDE DEF n
<1>7. promisedQueue' = [i \in 1..(n + 1) |-> IF i = n + 1 THEN Seen(d) ELSE promisedQueue[i]]
    BY <1>1, <1>3, <1>4, <1>5, <1>6
<1>8. Len(promisedQueue) = n
    BY <1>1, <1>6
<1> QED BY <1>1, <1>6, <1>7, <1>8

LEMMA PromiseStep ==
    ASSUME TransferInv, TransferInv', OnceInv, [Next]_vars
    PROVE  [Promise!Next]_(Promise!vars)
<1>1. /\ delivered \in Seq(Messages) /\ png \in [Results -> Sizes \cup {0}]
      /\ rendered \subseteq Results /\ live \subseteq rendered
    BY DEF TransferInv, PlainTypes, Sized
<1>2. CASE UNCHANGED <<png, rendered, delivered>>
    <2>1. UNCHANGED <<promisedMade, promisedQueue>>
        BY <1>2 DEF promisedMade, promisedQueue, Seen, Complete
    <2>2. CASE \E R \in SUBSET Promise!UnderWay : lost' = lost \cup R
        BY <2>1, <2>2 DEF Promise!Next, Promise!Lose
    <2>3. CASE lost' = lost
        BY <2>1, <2>3 DEF Promise!vars
    <2>4. ASSUME NEW w \in Workers, Disconnect(w)
          PROVE  \E R \in SUBSET Promise!UnderWay : lost' = lost \cup R
        <3> DEFINE L == {r \in Results : r[1] = w /\ sent[r] > 0
                                         /\ received[r] < NumMessages(png[r])}
                   R == L \ lost
        <3>1. lost' = lost \cup R
            BY <2>4 DEF Disconnect
        <3>2. ASSUME NEW r \in R PROVE r \in Promise!UnderWay
            <4>1. r \in rendered
                BY DEF TransferInv, StreamInv
            <4> QED BY <4>1, StillUnderWay
        <3> HIDE DEF R
        <3> QED BY <3>1, <3>2
    <2>5. ASSUME NEW r \in Results, SendFails(r), r \notin lost
          PROVE  \E R \in SUBSET Promise!UnderWay : lost' = lost \cup R
        <3>1. r \in rendered /\ received[r] <= sent[r] /\ sent[r] < NumMessages(png[r])
            BY <1>1, <2>5 DEF SendFails, TransferInv, StreamInv
        <3>2. received[r] < NumMessages(png[r])
            BY <3>1, Types, MessageCount
        <3>3. {r} \in SUBSET Promise!UnderWay
            BY <2>5, <3>1, <3>2, StillUnderWay
        <3> QED BY <2>5, <3>3 DEF SendFails
    <2>6. \/ lost' = lost
          \/ \E w \in Workers : Disconnect(w)
          \/ \E r \in Results : SendFails(r) /\ r \notin lost
        BY DEF Next, vars, Render, Reconnect, SendStep, SendNext, SendFails, ReceiveStep,
            ReceiveInline, ReceiveStart, ReceiveChunk, ReceiveComplete, Arrives
    <2> QED BY <2>2, <2>3, <2>4, <2>5, <2>6
<1>3. ASSUME NEW w \in Workers, Render(w) PROVE Promise!Next
    <2>1. PICK r \in Results, n \in Sizes \cup {0} :
              /\ r \notin rendered /\ png' = [png EXCEPT ![r] = n]
              /\ rendered' = rendered \cup {r}
              /\ UNCHANGED <<delivered, lost>>
        BY <1>3 DEF Render
    <2>2. png'[r] = n /\ \A q \in Results : q # r => png'[q] = png[q]
        BY <1>1, <2>1
    <2>3. promisedMade[r] = "nothing"
        BY <2>1 DEF promisedMade
    <2>4. promisedMade' = [promisedMade EXCEPT ![r] = IF n = 0 THEN "failure" ELSE "image"]
        BY <2>1, <2>2 DEF promisedMade
    <2>5. \A i \in 1..Len(delivered) : png'[delivered[i].of] = png[delivered[i].of]
        BY <1>1, <2>1, <2>2 DEF TransferInv, DeliveredInv
    <2>6. promisedQueue' = promisedQueue
        BY <2>1, <2>5 DEF promisedQueue, Seen, Complete
    <2>7. Promise!Make(r)
        BY <2>1, <2>3, <2>4, <2>6 DEF Promise!Make
    <2> QED BY <2>7 DEF Promise!Next
<1>4. ASSUME NEW r \in Results, ReceiveStep(r), delivered' # delivered PROVE Promise!Next
    <2>1. Arrives(r) /\ \E d : d.of = r /\ delivered' = Append(delivered, d)
        BY <1>4, LastMessage
    <2>2. PICK d : d.of = r /\ delivered' = Append(delivered, d)
        BY <2>1
    <2>3. UNCHANGED <<png, rendered, lost>> /\ r \notin lost
        BY <2>1 DEF Arrives
    <2>4. r \in Promise!UnderWay
        BY <2>1, <2>3, ReceiveStream, StillUnderWay
    <2>5. promisedMade' = promisedMade
        BY <2>3 DEF promisedMade
    <2>6. (d.ok <=> png[r] # 0) /\ (d.ok => Complete(d.parts, r))
        <3>1. LET i == Len(delivered) + 1
              IN  i \in 1..Len(delivered') /\ delivered'[i] = d
            BY <1>1, <2>2
        <3>2. (d.ok <=> png'[r] # 0) /\ (d.ok => Complete(d.parts, r)')
            BY <2>2, <3>1 DEF TransferInv, ResultsIntact, Complete
        <3> QED BY <2>3, <3>2 DEF Complete
    <2>7. Seen(d) = [of |-> r, is |-> promisedMade[r]]
        BY <2>2, <2>4, <2>6 DEF Seen, promisedMade, Promise!UnderWay
    <2>8. promisedQueue' = Append(promisedQueue, [of |-> r, is |-> promisedMade[r]])
        BY <1>1, <2>2, <2>3, <2>7, QueueGrows
    <2>9. Promise!HandOver(r)
        BY <2>3, <2>4, <2>5, <2>8 DEF Promise!HandOver
    <2> QED BY <2>9 DEF Promise!Next
<1>5. \/ UNCHANGED <<png, rendered, delivered>>
      \/ \E w \in Workers : Render(w)
      \/ \E r \in Results : ReceiveStep(r) /\ delivered' # delivered
    <2>1. ASSUME NEW r \in Results, ReceiveStep(r) PROVE UNCHANGED <<png, rendered>>
        BY <2>1, LastMessage DEF Arrives
    <2> QED BY <2>1 DEF Next, vars, Disconnect, Reconnect, SendStep, SendNext, SendFails
<1> QED BY <1>2, <1>3, <1>4, <1>5

\* The transfer implements ResultPromise: for any number of workers, results, sizes and
\* losses, every result is handed over at most once, as it was made, or it is lost,
\* and none that was given up with its connection comes after a reconnect.
THEOREM TransferPromiseHolds == Spec => TransferKeepsPromise
<1>1. Init => OnceInv
    BY DEF Init, OnceInv
<1>2. Init => Promise!Init
    BY DEF Init, Promise!Init, promisedMade, promisedQueue
<1>3. Spec => [](TransferInv /\ OnceInv)
    BY <1>1, InitInv, NextInv, OnceStep, PTL DEF Spec
<1> QED BY <1>2, <1>3, PromiseStep, PTL DEF Spec, TransferKeepsPromise, Promise!Spec
=============================================================================
