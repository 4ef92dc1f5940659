---------------------------- MODULE ChunkSelection ----------------------------
(***************************************************************************)
(* Which chunk to ask a peer for: ChunkSelector with its cursor and its    *)
(* caches (PartialQueue), ChunkStatistics, the count of wanted chunks in   *)
(* download_data, and DownloadWrapper::receive_update_priorities().        *)
(*                                                                         *)
(* Priority ranges are sets of chunks (module Ranges relates the two).     *)
(* m_data of a queue is one sequence per layer; `first' counts what was    *)
(* popped of it.                                                           *)
(***************************************************************************)
EXTENDS Integers, SequencesExt

CONSTANTS
  Peers,
  NumChunks,     \* chunks are 0..NumChunks-1
  NumLayers,     \* num_layers (8)
  SharedSize,    \* layer size of m_sharedQueue (32)
  CacheSize,     \* layer size of a download_cache() (8)
  MaxAccounted,  \* max_accounted (255)
  PrioritySets,  \* what the user may ask for: [Indices -> {"off", "normal", "high"}]
  Budgets        \* bounds on the steps taken: records [updates, connects, haves, finds]

VARIABLE s

Indices == 0..(NumChunks - 1)
InvalidChunk == -1

-----------------------------------------------------------------------------
(* PartialQueue.                                                           *)

Ceiling(l) == 2^(l + 1) - 1
Layers == 0..(NumLayers - 1)

NoQueue == [size |-> 0, index |-> 0, ceiling |-> 0,
            layers |-> [l \in Layers |-> [data |-> <<>>, first |-> 0]]]

Enabled(q) == q.size > 0
Enable(q, n) == [q EXCEPT !.size = n]
Disable(q) == [q EXCEPT !.size = 0]
Clear(q) == IF Enabled(q) THEN [NoQueue EXCEPT !.size = q.size, !.ceiling = Ceiling(NumLayers - 1)]
            ELSE q

LayerFull(q, l) == Len(q.layers[l].data) >= q.size

LayerOf(key) == CHOOSE l \in Layers : key < Ceiling(l) /\ \A k \in Layers : k < l => key >= Ceiling(k)

\* A full layer closes itself and those above it.
InsertLayerStillOpen(q, l, v) ==
  [q EXCEPT !.layers[l].data = Append(@, v), !.index = IF @ < l THEN @ ELSE l]
InsertLayer(q, l, v) ==
  LET n == [q EXCEPT !.layers[l].data = Append(@, v), !.index = IF @ < l THEN @ ELSE l]
  IN  IF LayerFull(n, l) THEN [n EXCEPT !.ceiling = IF l > 0 THEN Ceiling(l - 1) ELSE 0] ELSE n

\* The ceiling left where it was when the layer filled up.
Insert(q, key, v) == IF key >= q.ceiling THEN q ELSE InsertLayer(q, LayerOf(key), v)

\* insert() throws when the layer it chose is full.
InsertThrows(q, key) == key < q.ceiling /\ LayerFull(q, LayerOf(key))

Empty(q, l) == q.layers[l].first = Len(q.layers[l].data)

\* prepare_pop(): the layer to pop from, or NumLayers when there is none.
PopLayer(q) ==
  LET ok == {l \in q.index..(NumLayers - 1) :
              ~Empty(q, l) /\ \A k \in q.index..(l - 1) : Empty(q, k) /\ ~LayerFull(q, k)}
  IN  IF ok = {} THEN NumLayers ELSE CHOOSE l \in ok : TRUE

CanPop(q) == PopLayer(q) < NumLayers
FrontOf(q) == q.layers[PopLayer(q)].data[q.layers[PopLayer(q)].first + 1]
Pop(q) == [q EXCEPT !.index = PopLayer(q), !.layers[PopLayer(q)].first = @ + 1]

-----------------------------------------------------------------------------
(* The state.                                                              *)

Closed == [on |-> FALSE, bits |-> {}, counted |-> FALSE, cache |-> NoQueue]

\* ChunkSelector::initialize() after the initial hash check.
Init ==
  \E done \in SUBSET Indices, b \in Budgets :
    /\ done # Indices
    /\ s = [completed |-> done, untouched |-> Indices \ done, transfers |-> {},
            high |-> {}, normal |-> {}, wanted |-> 0, position |-> InvalidChunk,
            shared |-> Clear(Enable(NoQueue, SharedSize)),
            conn |-> [p \in Peers |-> Closed],
            stats |-> [i \in Indices |-> 0], accounted |-> 0, complete |-> 0,
            pendingDone |-> FALSE, pendingRestarted |-> FALSE,
            left |-> b, thrown |-> FALSE]

Open(t) == {p \in Peers : t.conn[p].on}
Wants(t, i) == i \in t.untouched /\ i \in t.high \cup t.normal

-----------------------------------------------------------------------------
(* ChunkStatistics.                                                        *)

AddBits(t, bits, n) == [t EXCEPT !.stats = [i \in Indices |-> IF i \in bits THEN @[i] + n ELSE @[i]]]

ReceivedConnect(t, p) ==
  LET bits == t.conn[p].bits IN
  IF bits = Indices THEN [t EXCEPT !.conn[p].counted = TRUE, !.complete = @ + 1]
  ELSE IF bits # {} /\ t.accounted < MaxAccounted
  THEN [AddBits(t, bits, 1) EXCEPT !.conn[p].counted = TRUE, !.accounted = @ + 1]
  ELSE t

\* Forgetting that complete peers are counted apart.
ReceivedDisconnectFlat(t, p) ==
  IF ~t.conn[p].counted THEN t
  ELSE [AddBits(t, t.conn[p].bits, -1) EXCEPT !.conn[p].counted = FALSE, !.accounted = @ - 1]

ReceivedDisconnect(t, p) ==
  LET bits == t.conn[p].bits IN
  IF ~t.conn[p].counted THEN t
  ELSE IF bits = Indices THEN [t EXCEPT !.conn[p].counted = FALSE, !.complete = @ - 1]
  ELSE [AddBits(t, bits, -1) EXCEPT !.conn[p].counted = FALSE, !.accounted = @ - 1,
                                    !.thrown = @ \/ t.accounted = 0]

\* received_have_chunk(): the first chunk of a peer, the chunk, and the last.
HaveFirst(t, p) ==
  IF t.conn[p].bits = {} /\ t.accounted < MaxAccounted
  THEN [t EXCEPT !.conn[p].counted = TRUE, !.accounted = @ + 1,
                 !.thrown = @ \/ t.conn[p].counted]
  ELSE t

HaveBit(t, p, i) ==
  [t EXCEPT !.conn[p].bits = @ \cup {i},
            !.stats[i] = IF t.conn[p].counted THEN @ + 1 ELSE @]

HaveLast(t, p) ==
  IF t.conn[p].bits # Indices THEN t
  ELSE IF t.conn[p].counted
  THEN [AddBits(t, Indices, -1) EXCEPT !.complete = @ + 1, !.accounted = @ - 1,
                                      !.thrown = @ \/ t.accounted = 0]
  ELSE [t EXCEPT !.conn[p].counted = TRUE, !.complete = @ + 1]

StatisticsHave(t, p, i) == HaveLast(HaveBit(HaveFirst(t, p), p, i), p)

-----------------------------------------------------------------------------
(* ChunkSelector.                                                          *)

\* The first of the set at or after the cursor, going round.
Around(set, start) ==
  LET later == {i \in set : i >= start}
      from == IF later # {} THEN later ELSE set
  IN  CHOOSE i \in from : \A j \in from : i <= j

AdvancePositionHigh(t) ==
  LET high == t.high \cap t.untouched
  IN  [t EXCEPT !.position = IF high # {} THEN Around(high, 0) ELSE InvalidChunk]
AdvancePosition(t) ==
  LET start == IF t.position = InvalidChunk THEN 0 ELSE t.position
      high == t.high \cap t.untouched
      normal == t.normal \cap t.untouched
  IN  [t EXCEPT !.position = IF high # {} THEN Around(high, start)
                             ELSE IF normal # {} THEN Around(normal, start) ELSE InvalidChunk]

\* Only the high priority chunks searched for the next position.
UsingIndex(t, i) ==
  LET u == [t EXCEPT !.untouched = @ \ {i}, !.thrown = @ \/ i \notin t.untouched]
  IN  IF i = t.position THEN AdvancePosition(u) ELSE u

NotUsingIndexKeepsPosition(t, i) ==
  [t EXCEPT !.untouched = @ \cup {i}, !.thrown = @ \/ i \in t.untouched]

NotUsingIndex(t, i) ==
  [t EXCEPT !.untouched = @ \cup {i}, !.thrown = @ \/ i \in t.untouched,
            !.position = IF @ = InvalidChunk THEN i ELSE @]

\* search_linear() twice: from the cursor to the end, then up to the cursor.
Search(t, q, set) ==
  LET order == [k \in 1..NumChunks |-> (t.position + k - 1) % NumChunks]
      found == SelectSeq(order, LAMBDA i : i \in set)
  IN  FoldLeft(LAMBDA r, i : [q |-> Insert(r.q, t.stats[i], i),
                              bad |-> r.bad \/ InsertThrows(r.q, t.stats[i])],
               [q |-> Clear(q), bad |-> FALSE], found)

\* What is cached and still untouched; k entries may have to be dropped first.
DropTouched(q, untouched) ==
  FoldLeft(LAMBDA r, k : IF CanPop(r) /\ FrontOf(r) \notin untouched THEN Pop(r) ELSE r,
           q, [k \in 1..(NumLayers * SharedSize) |-> k])

Popped(r) == IF CanPop(r.q) THEN [found |-> FrontOf(r.q), q |-> Pop(r.q), bad |-> r.bad]
             ELSE [found |-> InvalidChunk, q |-> r.q, bad |-> r.bad]

Refill(t, q, bits) ==
  LET here == bits \cap t.untouched
      high == Search(t, q, here \cap t.high)
  IN  Popped(IF CanPop(high.q) THEN high ELSE Search(t, high.q, here \cap t.normal))

FromCache(t, q, bits) ==
  LET c == IF Enabled(q) THEN DropTouched(q, t.untouched) ELSE Enable(q, CacheSize)
  IN  IF Enabled(q) /\ CanPop(c) THEN Popped([q |-> c, bad |-> FALSE]) ELSE Refill(t, c, bits)

IsSeeder(t, p) == t.conn[p].bits = Indices
QueueOf(t, p) == IF IsSeeder(t, p) THEN t.shared ELSE t.conn[p].cache
SetQueue(t, p, q) == IF IsSeeder(t, p) THEN [t EXCEPT !.shared = q] ELSE [t EXCEPT !.conn[p].cache = q]

\* find(), with the new cursor the dice give, if any.
Find(t, p, dice) ==
  LET m == IF dice = InvalidChunk THEN t ELSE SetQueue([t EXCEPT !.position = dice], p, Clear(QueueOf(t, p)))
  IN  IF t.position = InvalidChunk THEN [t |-> t, found |-> InvalidChunk]
      ELSE LET r == FromCache(m, QueueOf(m, p), t.conn[p].bits)
           IN  [t |-> [SetQueue(m, p, r.q) EXCEPT !.thrown = @ \/ r.bad], found |-> r.found]

\* received_have_chunk() of the selector.
SelectorHave(t, p, i) ==
  IF Wants(t, i) /\ Enabled(t.conn[p].cache)
  THEN [t EXCEPT !.conn[p].cache = Insert(@, t.stats[i], i),
                 !.thrown = @ \/ InsertThrows(t.conn[p].cache, t.stats[i])]
  ELSE t

-----------------------------------------------------------------------------
(* The callers.                                                            *)

Connect(p, bits) ==
  /\ ~s.conn[p].on /\ s.left.connects > 0
  /\ s' = ReceivedConnect([s EXCEPT !.conn[p].on = TRUE, !.conn[p].bits = bits, !.left.connects = @ - 1], p)

Disconnect(p) ==
  /\ s.conn[p].on
  /\ s' = [ReceivedDisconnect(s, p) EXCEPT !.conn[p] = Closed]

\* read_have_chunk(); m_tryRequest already set leaves the cache as it is.
ReadHave(p, i, trying) ==
  /\ s.conn[p].on /\ i \notin s.conn[p].bits /\ s.left.haves > 0
  /\ LET t == StatisticsHave([s EXCEPT !.left.haves = @ - 1], p, i)
     IN  s' = IF trying THEN t ELSE SelectorHave(t, p, i)

\* delegate_new_chunks(): the chunk found gets a BlockList.
Delegate(p, dice) ==
  /\ s.conn[p].on /\ s.left.finds > 0
  /\ LET r == Find([s EXCEPT !.left.finds = @ - 1], p, dice)
     IN  s' = IF r.found = InvalidChunk THEN r.t
              ELSE [UsingIndex(r.t, r.found) EXCEPT !.transfers = @ \cup {r.found}]

\* A BlockList without transfers left is erased: slot_canceled().
Cancel(i) ==
  /\ i \in s.transfers
  /\ s' = [NotUsingIndex(s, i) EXCEPT !.transfers = @ \ {i}]

\* receive_download_choke().
Choked(p) ==
  /\ s.conn[p].on /\ Enabled(s.conn[p].cache)
  /\ s' = [s EXCEPT !.conn[p].cache = Disable(@)]

\* mark_completed() does not count chunks the user turned off.
MarkCompletedCounted(t, i) ==
  [t EXCEPT !.completed = @ \cup {i}, !.transfers = @ \ {i},
            !.wanted = IF @ > 0 THEN @ - 1 ELSE 0]
MarkCompleted(t, i) ==
  LET counts == i \in t.high \cup t.normal
  IN  [t EXCEPT !.completed = @ \cup {i}, !.transfers = @ \ {i},
                !.wanted = IF counts THEN @ - 1 ELSE @, !.thrown = @ \/ (counts /\ t.wanted = 0)]

\* Counting every chunk that completes.
\* receive_hash_done() with the right hash.
HashDone(i) ==
  /\ i \in s.transfers
  /\ LET t == MarkCompleted(s, i)
     IN  s' = IF t.completed # Indices /\ s.wanted # 0 /\ t.wanted = 0
              THEN [t EXCEPT !.pendingRestarted = FALSE, !.pendingDone = TRUE] ELSE t

\* receive_update_priorities().
UpdatePriorities(prio) ==
  LET high == {i \in Indices : prio[i] = "high"}
      normal == {i \in Indices : prio[i] = "normal"}
      n == Cardinality((high \cup normal) \ s.completed)
      turned == s.completed # Indices /\ (s.wanted # 0) # (n # 0)
      t == [s EXCEPT !.high = high, !.normal = normal, !.wanted = n, !.left.updates = @ - 1,
                     !.shared = Clear(@),
                     !.conn = [p \in Peers |-> [@[p] EXCEPT !.cache = Clear(@)]],
                     !.pendingDone = IF turned THEN s.wanted # 0 ELSE @,
                     !.pendingRestarted = IF turned THEN s.wanted = 0 ELSE @]
  IN  /\ s.left.updates > 0
      /\ \E start \in IF s.position = InvalidChunk THEN Indices ELSE {s.position} :
           s' = AdvancePosition([t EXCEPT !.position = start])

\* The scheduled signals run.
Signals ==
  /\ s.pendingDone \/ s.pendingRestarted
  /\ s' = [s EXCEPT !.pendingDone = FALSE, !.pendingRestarted = FALSE]

Next ==
  \/ \E p \in Peers :
       \/ \E bits \in SUBSET Indices : Connect(p, bits)
       \/ Disconnect(p) \/ Choked(p)
       \/ \E i \in Indices, trying \in BOOLEAN : ReadHave(p, i, trying)
       \/ \E dice \in Indices \cup {InvalidChunk} : Delegate(p, dice)
  \/ \E i \in Indices : Cancel(i) \/ HashDone(i)
  \/ \E prio \in PrioritySets : UpdatePriorities(prio)
  \/ Signals

Spec == Init /\ [][Next]_s

-----------------------------------------------------------------------------
(* Properties.                                                             *)

\* find() gives up on a peer only when the peer has no chunk that is wanted, and
\* what it finds is a chunk that is wanted and that the peer has: neither a stale
\* cache, nor a cursor that ran out, nor a closed layer hides a chunk.
FindIsExact ==
  \A p \in Open(s) :
    LET r == Find(s, p, InvalidChunk).found
        here == {i \in s.conn[p].bits : Wants(s, i)}
    IN  IF r = InvalidChunk THEN here = {} ELSE r \in here

\* Every counter of the statistics is what the counted peers have, whatever the
\* order of connections, HAVE messages and the limit on accounted peers.
StatisticsMatch ==
  LET counted == {p \in Open(s) : s.conn[p].counted}
      part == {p \in counted : s.conn[p].bits # Indices}
  IN  /\ s.accounted = Cardinality(part) /\ s.complete = Cardinality(counted \ part)
      /\ \A p \in Open(s) : s.conn[p].bits = Indices => s.conn[p].counted
      /\ \A i \in Indices : s.stats[i] = Cardinality({p \in part : i \in s.conn[p].bits})

\* wanted_chunks() is the number of chunks the user wants and does not have
\* (verify_wanted_chunks() throws otherwise), and a signal that is scheduled
\* agrees with it until the download is done.
WantedMatches ==
  /\ s.wanted = Cardinality((s.high \cup s.normal) \ s.completed)
  /\ ~(s.pendingDone /\ s.pendingRestarted)
  /\ s.completed # Indices => (s.pendingDone => s.wanted = 0) /\ (s.pendingRestarted => s.wanted # 0)

\* No internal_error or logic_error is reached.
NothingThrown == ~s.thrown
=============================================================================
