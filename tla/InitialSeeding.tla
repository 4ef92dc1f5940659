---------------------------- MODULE InitialSeeding ----------------------------
(***************************************************************************)
(* Initial seeding (InitialSeeding, PeerConnection<INITIAL_SEED> and the   *)
(* end of it in DownloadMain): the only seed of a download reveals its     *)
(* chunks one peer at a time, and a peer gets the next one when another    *)
(* peer has shown that the last one is being shared.                       *)
(*                                                                         *)
(* A chunk is one block.  chunk_statistics() is what the connected peers   *)
(* announced: partial peers are counted per chunk, complete ones apart.    *)
(***************************************************************************)
EXTENDS Integers, SequencesExt

CONSTANTS
  Peers,     \* positive numbers
  Chunks,    \* 0..n, as indices
  MaxConnects, \* bound on connections made
  SlotsFree  \* the upload queue has too many unused slots

VARIABLE s

Unsent == 0
Unknown == -1
Done == -2
NoOffer == -1

NumChunks == Cardinality(Chunks)

Init ==
  s = [owner |-> [i \in Chunks |-> Unsent], next |-> 0, left |-> NumChunks,
       blocked |-> {}, restart |-> {}, connected |-> {}, known |-> {},
       has |-> [p \in Peers |-> {}], sent |-> [p \in Peers |-> {}],
       last |-> [p \in Peers |-> NoOffer],       \* m_data.lastIndex
       bytes |-> [p \in Peers |-> 0],            \* m_data.bytesLeft, in blocks
       asked |-> [p \in Peers |-> NoOffer],      \* front of the upload queue
       over |-> FALSE, connects |-> 0]

\* ChunkStatistics.
Full(t) == {p \in t.connected : t.has[p] = Chunks}
Complete(t) == Cardinality(Full(t))
Stats(t, i) == Cardinality({p \in t.connected \ Full(t) : i \in t.has[p]})

ValidPeer(x) == x > 0

ClearPeer(t, x) == IF ValidPeer(x) THEN [t EXCEPT !.blocked = @ \ {x}] ELSE t

\* complete(): what is rare goes round again, else initial_seeding_done()
\* closes every connection and the object is gone.
CompleteNow(t) ==
  LET rare == {i \in Chunks : Complete(t) + Stats(t, i) < 2}
  IN  IF rare = {} THEN [t EXCEPT !.blocked = {}, !.over = TRUE, !.connected = {}]
      ELSE [t EXCEPT !.blocked = {}, !.left = Cardinality(rare), !.next = Min(rare),
                     !.owner = [i \in Chunks |-> IF i \in rare THEN Unsent ELSE @[i]]]

MarkDone(t, i) ==
  LET d == [t EXCEPT !.owner[i] = Done, !.left = @ - 1]
  IN  IF d.left = 0 THEN CompleteNow(d) ELSE d

\* Forgetting that the announcing peer may be the one the chunk was sent to.
ChunkSeenByOwner(t, i, p) ==
  IF Complete(t) > 1 THEN CompleteNow(t)
  ELSE IF t.owner[i] = Unsent THEN [t EXCEPT !.owner[i] = Unknown]
  ELSE LET d == MarkDone(t, i) IN IF d.over THEN d ELSE ClearPeer(d, t.owner[i])

\* chunk_seen(): p announced chunk i.
ChunkSeen(t, i, p) ==
  IF Complete(t) > 1 THEN CompleteNow(t)
  ELSE IF t.owner[i] = Unsent THEN [t EXCEPT !.owner[i] = Unknown]
  ELSE IF t.owner[i] = p \/ t.owner[i] = Done THEN t
  ELSE LET d == MarkDone(t, i) IN IF d.over THEN d ELSE ClearPeer(d, t.owner[i])

ChunkComplete(t, i, p) ==
  ChunkSeen([ClearPeer(t, t.owner[i]) EXCEPT !.owner[i] = Unknown], i, p)

Step(t) == IF t.next + 1 = NumChunks THEN 0 ELSE t.next + 1

\* The do-while of find_next(), as many rounds of it as can be needed; a chunk
\* already well spread is completed on the way.
Visit(t, p) ==
  IF t.owner[t.next] # Done /\ Stats(t, t.next) > 1 THEN ChunkComplete(t, t.next, p) ELSE t

Round(t, p) == Visit([t EXCEPT !.next = Step(t)], p)

Found(t) == t.over \/ t.owner[t.next] # Done

Secondary(t, p) ==
  FoldLeft(LAMBDA a, k : IF Found(a) THEN a ELSE Round(a, p), Round(t, p), [k \in 1..NumChunks |-> k])

\* find_next(): in the first round the next chunk nobody has, then around.
FindNext(t, secondary, p) ==
  LET later == {i \in Chunks : i > t.next /\ t.owner[i] = Unsent}
      fresh == {i \in later : Stats(t, i) = 0}
      seen == {i \in later : fresh = {} \/ i < Min(fresh)}
      u == [t EXCEPT !.owner = [i \in Chunks |-> IF i \in seen THEN Unknown ELSE @[i]]]
  IN  IF secondary THEN Secondary(t, p)
      ELSE IF fresh # {} THEN [u EXCEPT !.next = Min(fresh)]
      ELSE Secondary([u EXCEPT !.next = NumChunks - 1], p)

\* new_peer(), with the peer's bitfield not in the statistics yet.
NewPeer(t, p) ==
  LET b == IF p \in t.blocked THEN [t EXCEPT !.restart = @ \cup {p}] ELSE t
  IN  IF b.owner[b.next] = Unsent /\ Stats(b, b.next) > 0
      THEN FindNext([b EXCEPT !.owner[b.next] = Unknown], FALSE, p) ELSE b

\* The chunk the peer is to be offered, with the state after: chunk_offer().
Given(t, i) == [t |-> t, offer |-> i]

OfferNext(t, i, secondary, p) ==
  IF t.left = 1 /\ ValidPeer(t.owner[i]) THEN Given([t EXCEPT !.blocked = @ \cup {p}], i)
  ELSE IF i \in t.has[p] THEN Given(t, NoOffer)
  ELSE Given(FindNext([t EXCEPT !.owner[i] = p, !.blocked = @ \cup {p}], secondary, p), i)

OfferFrom(t, p) ==
  IF t.owner[t.next] = Unsent THEN OfferNext(t, t.next, FALSE, p)
  ELSE LET c == IF t.owner[t.next] # Done /\ Stats(t, t.next) > 1
                THEN ChunkComplete(t, t.next, p) ELSE t
           n == IF ~c.over /\ c.owner[t.next] = Done THEN Secondary(c, p) ELSE c
       IN  IF n.over THEN Given(n, NoOffer)
           ELSE OfferNext(n, IF c.owner[t.next] = Done THEN n.next ELSE t.next, TRUE, p)

\* A peer that connects again is offered the next chunk whatever it holds.
ChunkOfferForgets(t, p, done) ==
  IF p \in t.blocked /\ p \notin t.restart THEN Given(t, NoOffer)
  ELSE OfferFrom([t EXCEPT !.restart = @ \ {p}], p)

ChunkOffer(t, p, done) ==
  IF p \in t.blocked /\ done # NoOffer /\ t.owner[done] = p /\ SlotsFree
  THEN OfferFrom([t EXCEPT !.owner[done] = Unknown, !.blocked = @ \ {p}], p)
  ELSE IF p \in t.blocked
  THEN IF p \notin t.restart THEN Given(t, NoOffer)
       ELSE LET r == [t EXCEPT !.restart = @ \ {p}]
                own == {i \in Chunks : t.owner[i] = p}
            IN  IF own # {} THEN Given(r, Min(own)) ELSE OfferFrom(r, p)
  ELSE OfferFrom(t, p)

ShouldUpload(t, i) == t.owner[i] # Done

-----------------------------------------------------------------------------
(* The connections.                                                        *)

\* offer_chunk(): a HAVE for the chunk offered.
OfferChunk(t, p) ==
  LET left == IF t.asked[p] # NoOffer /\ t.asked[p] = t.last[p] THEN t.bytes[p] - 1 ELSE t.bytes[p]
      r == ChunkOffer(t, p, IF left = 0 THEN t.last[p] ELSE NoOffer)
  IN  IF r.t.over \/ r.offer = NoOffer \/ r.offer = t.last[p] THEN r.t
      ELSE [r.t EXCEPT !.last[p] = r.offer, !.bytes[p] = 1]

\* should_upload() and write_prepare_piece(), or the request is dropped.
Upload(t, p) ==
  IF t.over \/ t.asked[p] = NoOffer THEN t
  ELSE IF ~ShouldUpload(t, t.asked[p]) THEN [t EXCEPT !.asked[p] = NoOffer]
  ELSE [t EXCEPT !.asked[p] = NoOffer, !.sent[p] = @ \cup {t.asked[p]},
                 !.bytes[p] = IF t.asked[p] = t.last[p] THEN 0 ELSE @,
                 !.last[p] = IF t.asked[p] = t.last[p] THEN NoOffer ELSE @]

\* fill_write_buffer() of an initial seed.
FillWriteBuffer(p) ==
  /\ ~s.over /\ p \in s.connected
  /\ s' = Upload(OfferChunk(s, p), p)

\* initialize_custom(), then received_connect().
Connect(p) ==
  /\ ~s.over /\ s.connects < MaxConnects /\ p \notin s.connected
  /\ LET t == NewPeer([s EXCEPT !.known = @ \cup {p}], p)
     IN  s' = IF t.over THEN t
              ELSE [t EXCEPT !.connected = @ \cup {p}, !.connects = @ + 1,
                             !.last[p] = NoOffer, !.bytes[p] = 0]

Disconnect(p) ==
  /\ p \in s.connected
  /\ s' = [s EXCEPT !.connected = @ \ {p}, !.asked[p] = NoOffer, !.last[p] = NoOffer,
                    !.bytes[p] = 0]

\* cull_peers(cull_keep_interesting): blocked peers are kept.
CullPeer(p) ==
  /\ p \in s.known \ (s.connected \cup s.blocked)
  /\ s' = [s EXCEPT !.known = @ \ {p}, !.restart = @ \ {p}]

\* A REQUEST for a chunk this end announced.
Request(p) ==
  /\ p \in s.connected /\ s.last[p] # NoOffer /\ s.asked[p] = NoOffer
  /\ s' = [s EXCEPT !.asked[p] = s.last[p]]

\* read_have_chunk(): the peer got the chunk from this end or from another peer.
ReadHave(p, i) ==
  /\ ~s.over /\ p \in s.connected /\ i \notin s.has[p]
  /\ i \in s.sent[p] \/ \E q \in Peers \ {p} : i \in s.has[q]
  /\ s' = ChunkSeen([s EXCEPT !.has[p] = @ \cup {i}], i, p)

Next ==
  \E p \in Peers :
    \/ FillWriteBuffer(p) \/ Connect(p) \/ Disconnect(p) \/ CullPeer(p) \/ Request(p)
    \/ \E i \in Chunks : ReadHave(p, i)

Spec == Init /\ [][Next]_s

-----------------------------------------------------------------------------
(* Properties.                                                             *)

\* m_chunks_left counts the chunks not yet seen twice, so initial seeding ends
\* exactly when every chunk is, and find_next() always finds one to offer.
LeftMatches ==
  ~s.over => /\ s.left = Cardinality({i \in Chunks : s.owner[i] # Done})
             /\ s.left > 0 /\ s.next \in Chunks

\* The peer a chunk was sent to is blocked, so it is not offered another one
\* and cull_peers() does not delete the PeerInfo the table points to; and no
\* peer holds two chunks.
OwnerIsBlocked ==
  ~s.over => \A i \in Chunks : ValidPeer(s.owner[i]) =>
    /\ s.owner[i] \in s.blocked \cap s.known
    /\ \A j \in Chunks : s.owner[j] = s.owner[i] => i = j

\* A chunk counts as spread only when two different peers were seen with it, or
\* someone else announced it too: initial seeding does not end while a chunk is
\* known to no peer but the one it was sent to.
DoneMeansTwo ==
  \A i \in Chunks : s.owner[i] = Done =>
    \E p \in Peers : i \in s.has[p] /\ (i \notin s.sent[p] \/ \E q \in Peers \ {p} : i \in s.has[q])
=============================================================================
