------------------------------ MODULE PeerWire ------------------------------
(***************************************************************************)
(* One peer connection, both of its ends running this program: "l" asks    *)
(* for the blocks of one chunk (PeerConnection<LEECH>), "r" has them       *)
(* (PeerConnection<SEED>).  The module follows the requests: the buckets   *)
(* of RequestList at the asking end, the upload queue at the other, the    *)
(* two choke decisions of each side, the messages on their way, and what   *)
(* fill_write_buffer() and read_message() do with them.  Bytes are in      *)
(* WriteStream and ReadStream, extension messages in PeerExchange and      *)
(* MetadataExchange.                                                       *)
(*                                                                         *)
(* The choke queues decide when they like (ChokeQueue has their rules);    *)
(* a tick is receive_keepalive(), which DownloadWrapper calls every two    *)
(* minutes.                                                                *)
(***************************************************************************)
EXTENDS Integers, Sequences, FiniteSets, SequencesExt

CONSTANTS
  NumBlocks,    \* blocks of the chunk
  PipeSize,     \* calculate_pipe_size(): requests kept in the pipe
  Budgets,      \* bounds: [up, down: decisions of the upload queue of "r" and the
                \* download queue of "l", tick: keepalive ticks of "l",
                \* elsewhere: blocks another peer delivers first]
  Hasty         \* TRUE: "r" may choke and unchoke before either is written

VARIABLE s

Blocks == 1..NumBlocks
None == 0

Msg(kind, b) == [kind |-> kind, b |-> b]

\* PeerConnectionBase, RequestList and the RequestList timers at the asking end.
NewLeech ==
  [unchoked |-> FALSE,   \* m_down_unchoked: the remote end lets us request
   interested |-> TRUE, sendInterested |-> TRUE,
   local |-> FALSE,      \* m_down_choke.unchoked(): our own queue lets us request
   queued |-> FALSE,     \* m_down_choke.queued()
   try |-> FALSE, stall |-> 0,
   q |-> <<>>, unordered |-> <<>>, stalled |-> <<>>, choked |-> <<>>,
   position |-> 0,       \* m_last_unordered_position
   removeTimer |-> FALSE, unorderedTimer |-> FALSE,
   transfer |-> None, valid |-> FALSE,
   reading |-> "idle",   \* ProtocolRead state
   invalid |-> {},       \* transfers another peer's block invalidated
   throttled |-> FALSE,  \* in the download throttle's list
   cancels |-> <<>>, out |-> <<>>, up |-> "idle", poll |-> TRUE]

\* PeerConnectionBase at the uploading end.
NewSeed ==
  [queued |-> FALSE, unchoked |-> FALSE, sendChoked |-> FALSE,
   uploads |-> <<>>, piece |-> None, throttled |-> FALSE, active |-> TRUE,
   out |-> <<>>, up |-> "idle", poll |-> FALSE]

Init ==
  s \in [l : {NewLeech}, r : {NewSeed}, toR : {<<>>}, toL : {<<>>}, done : {{}},
         left : Budgets, thrown : {FALSE}]

-----------------------------------------------------------------------------
(* RequestList.                                                            *)

Bucketed(l) == ToSet(l.q) \cup ToSet(l.unordered) \cup ToSet(l.stalled) \cup ToSet(l.choked)
Held(l) == Bucketed(l) \cup (IF l.valid THEN {l.transfer} ELSE {})

\* The blocks the Delegator may hand this peer.
Free(t) == Blocks \ (t.done \cup Held(t.l))

PipeFull(l) == 2 * (Len(l.q) + Len(l.stalled)) >= PipeSize + 10

Pollable(e) == [e EXCEPT !.poll = @ \/ e.up = "idle"]

StallAll(l) ==
  [l EXCEPT !.stalled = @ \o l.q \o l.unordered, !.q = <<>>, !.unordered = <<>>]

\* choked() with its early return: stalled requests stay where they are when
\* nothing is queued or unordered.
ChokedForgetsTimer(l) ==
  IF l.q = <<>> /\ l.unordered = <<>> THEN l
  ELSE [l EXCEPT !.choked = @ \o l.q \o l.unordered \o l.stalled,
                 !.q = <<>>, !.unordered = <<>>, !.stalled = <<>>]

Choked(l) ==
  IF l.q = <<>> /\ l.unordered = <<>> THEN l
  ELSE [l EXCEPT !.choked = @ \o l.q \o l.unordered \o l.stalled,
                 !.q = <<>>, !.unordered = <<>>, !.stalled = <<>>,
                 !.removeTimer = TRUE]

Unchoked(l) == [l EXCEPT !.removeTimer = l.choked # <<>>]

\* prepare_process_unordered(): the requests ahead of the one that came.
PassOver(l, i) ==
  IF i = 1 THEN l
  ELSE [l EXCEPT !.unordered = @ \o SubSeq(l.q, 1, i - 1),
                 !.q = SubSeq(@, i, Len(@)),
                 !.unorderedTimer = TRUE,
                 !.position = IF l.unorderedTimer THEN @ ELSE Len(l.unordered) + i - 1]

Taken(l, b) == [l EXCEPT !.transfer = b, !.valid = b \notin l.invalid, !.invalid = @ \ {b}]

\* downloading(): the bucket the piece is found in, or a dummy transfer.
Downloading(l, b) ==
  CASE b \in ToSet(l.q) ->
         LET p == PassOver(l, SelectInSeq(l.q, LAMBDA x : x = b))
         IN  Taken([p EXCEPT !.q = Tail(@)], b)
    [] b \in ToSet(l.unordered) ->
         LET i == SelectInSeq(l.unordered, LAMBDA x : x = b)
         IN  Taken([l EXCEPT !.unordered = RemoveAt(@, i),
                             !.position = IF i <= @ THEN @ - 1 ELSE @], b)
    [] b \in ToSet(l.stalled) -> Taken([l EXCEPT !.stalled = Remove(@, b)], b)
    [] b \in ToSet(l.choked) ->
         Taken([l EXCEPT !.choked = Remove(@, b), !.removeTimer = TRUE], b)
    [] OTHER -> [l EXCEPT !.transfer = b, !.valid = FALSE]

-----------------------------------------------------------------------------
(* The asking end.                                                         *)

DownChokedErases(l) ==
  LET c == Pollable([l EXCEPT !.local = FALSE, !.throttled = FALSE])
  IN  IF l.unchoked THEN [c EXCEPT !.sendInterested = l.interested, !.interested = FALSE]
      ELSE [c EXCEPT !.queued = FALSE]

\* receive_download_choke(true), called by the queue or through set_not_queued.
DownChoked(l) ==
  LET c == Pollable([l EXCEPT !.local = FALSE,
                              !.throttled = @ /\ ~(l.transfer = None /\ l.q = <<>>)])
  IN  IF l.unchoked THEN [c EXCEPT !.sendInterested = l.interested, !.interested = FALSE]
      ELSE [c EXCEPT !.queued = FALSE]

DownUnchoked(l) ==
  Pollable([l EXCEPT !.local = TRUE, !.try = TRUE,
                     !.sendInterested = IF l.interested THEN @ ELSE TRUE, !.interested = TRUE])

SetNotQueued(l) ==
  IF ~l.queued THEN l
  ELSE IF l.local THEN DownChoked([l EXCEPT !.queued = FALSE])
  ELSE [l EXCEPT !.queued = FALSE]

\* down_chunk_finished().
ChunkFinished(t) ==
  [t EXCEPT !.done = IF t.l.valid THEN @ \cup {t.l.transfer} ELSE @,
            !.l = Pollable([t.l EXCEPT !.transfer = None, !.valid = FALSE, !.try = TRUE,
                                       !.reading = "idle",
                                       !.stall = IF @ > 0 THEN @ - 1 ELSE 0,
                                       !.throttled = @ /\ (t.l.local \/ t.l.q # <<>>)])]

LeechReadsKeepsRequests(t, m) ==
  CASE m.kind = "choke" ->
         [t EXCEPT !.l = [SetNotQueued([@ EXCEPT !.unchoked = FALSE]) EXCEPT !.throttled = FALSE]]
    [] m.kind = "unchoke" ->
         [t EXCEPT !.l = IF ~@.interested THEN [@ EXCEPT !.unchoked = TRUE]
                         ELSE [@ EXCEPT !.unchoked = TRUE, !.queued = TRUE]]
    [] m.kind = "piece" ->
         [t EXCEPT !.l = [Downloading(@, m.b) EXCEPT !.reading = "piece", !.throttled = TRUE]]
    [] OTHER -> t

\* read_message() and, for a piece, down_chunk_start(); the data follow.
LeechReads(t, m) ==
  CASE m.kind = "choke" ->
         [t EXCEPT !.l = [SetNotQueued(Choked([@ EXCEPT !.unchoked = FALSE]))
                            EXCEPT !.throttled = FALSE]]
    [] m.kind = "unchoke" ->
         [t EXCEPT !.l = IF ~@.interested THEN [@ EXCEPT !.unchoked = TRUE]
                         ELSE [Unchoked([@ EXCEPT !.unchoked = TRUE])
                                 EXCEPT !.queued = TRUE]]
    [] m.kind = "piece" ->
         [t EXCEPT !.thrown = @ \/ t.l.transfer # None,
                   !.l = [Downloading(@, m.b) EXCEPT !.reading = "piece", !.throttled = TRUE]]
    [] OTHER -> t

ReadAtLeech ==
  /\ s.l.reading = "idle" /\ s.toL # <<>> /\ Head(s.toL).kind # "data"
  /\ s' = LeechReads([s EXCEPT !.toL = Tail(@)], Head(s.toL))

\* READ_PIECE and READ_SKIP_PIECE: down_chunk() or down_chunk_skip() to the end.
ReadPieceData ==
  /\ s.l.reading = "piece" /\ s.toL # <<>>
  /\ s' = [ChunkFinished([s EXCEPT !.toL = Tail(@)])
             EXCEPT !.thrown = @ \/ ~s.l.throttled \/ Head(s.toL).kind # "data"
                                 \/ (s.l.valid /\ s.l.transfer \in s.done)]

ShouldRequest(l) == l.local /\ l.interested /\ l.unchoked

\* try_request_pieces(): requests delegated into the queue and written.
Requested(t) ==
  LET n == PipeSize - Len(t.l.q)
      new == SubSeq(SetToSortSeq(Free(t), <), 1,
                    IF n < Cardinality(Free(t)) THEN n ELSE Cardinality(Free(t)))
  IN  IF PipeFull(t.l) \/ n <= 0 \/ new = <<>> THEN [t EXCEPT !.l.try = FALSE]
      ELSE [t EXCEPT !.l.q = @ \o new,
                     !.l.try = Len(new) = n,
                     !.l.out = @ \o [i \in 1..Len(new) |-> Msg("request", new[i])]]

\* is_interested_in_active(): the chunk is still being transferred.
Active(t) == t.done # Blocks

TryRequests(t) ==
  IF ~t.l.try \/ ~ShouldRequest(t.l) THEN t
  ELSE LET r == Requested([t EXCEPT !.l.stall = IF t.l.q = <<>> THEN 0 ELSE @])
       IN  IF r.l.try \/ Active(r) THEN r
           ELSE [r EXCEPT !.l = SetNotQueued([@ EXCEPT !.sendInterested = TRUE,
                                                      !.interested = FALSE])]

WriteInterested(t) ==
  IF ~t.l.sendInterested THEN t
  ELSE [t EXCEPT !.l.sendInterested = FALSE,
                 !.l.out = Append(@, Msg(IF t.l.interested THEN "interested" ELSE "uninterested",
                                         None))]

WriteCancels(t) ==
  [t EXCEPT !.l.out = @ \o [i \in 1..Len(t.l.cancels) |-> Msg("cancel", t.l.cancels[i])],
            !.l.cancels = <<>>]

\* fill_write_buffer() of a leech.
FillLeech(t) == WriteCancels(TryRequests(WriteInterested(t)))

WriteAtLeech ==
  /\ s.l.poll
  /\ s' = IF s.l.up = "idle"
          THEN LET f == FillLeech(s)
               IN  [f EXCEPT !.l.up = IF f.l.out = <<>> THEN "idle" ELSE "msg",
                             !.l.poll = f.l.out # <<>>]
          ELSE [s EXCEPT !.toR = @ \o s.l.out, !.l.out = <<>>, !.l.up = "idle"]

\* The download choke queue of "l" changes its mind.
DownQueueDecides ==
  /\ s.left.down > 0 /\ s.l.queued
  /\ s' = [s EXCEPT !.l = IF @.local THEN DownChoked(@) ELSE DownUnchoked(@),
                    !.left.down = @ - 1]

\* set_queued() of a remote unchoke lets the connection request at once.
DownQueueAdmits ==
  /\ s.l.queued /\ ~s.l.local /\ s.l.unchoked
  /\ s' = [s EXCEPT !.l = DownUnchoked(@)]

\* receive_keepalive(); a keepalive message itself says nothing here.
Tick ==
  /\ s.left.tick > 0
  /\ LET l == Pollable([s.l EXCEPT !.try = TRUE])
     IN  s' = [s EXCEPT !.left.tick = @ - 1,
                        !.l = IF l.stall = 0 THEN [l EXCEPT !.stall = 1]
                              ELSE [StallAll(l) EXCEPT !.stall = 2]]

DelayRemoveChoked ==
  /\ s.l.removeTimer
  /\ s' = [s EXCEPT !.l = [@ EXCEPT !.removeTimer = FALSE,
                                    !.invalid = @ \ ToSet(s.l.choked), !.choked = <<>>]]

\* delay_process_unordered(): the first m_last_unordered_position go.
DelayProcessUnordered ==
  /\ s.l.unorderedTimer
  /\ LET n == IF s.l.position < Len(s.l.unordered) THEN s.l.position ELSE Len(s.l.unordered)
         left == SubSeq(s.l.unordered, n + 1, Len(s.l.unordered))
     IN  s' = [s EXCEPT !.l = [@ EXCEPT !.unordered = left, !.position = Len(left),
                                        !.invalid = @ \ ToSet(SubSeq(s.l.unordered, 1, n)),
                                        !.unorderedTimer = left # <<>>]]

\* Another peer delivers the block: Block::completed() invalidates this
\* transfer and cancel_transfer() queues a CANCEL unless the data are coming.
DeliveredElsewhere(b) ==
  /\ s.left.elsewhere > 0 /\ b \in Held(s.l) \ s.done
  /\ s' = [s EXCEPT !.done = @ \cup {b}, !.left.elsewhere = @ - 1,
                    !.l = IF @.valid /\ @.transfer = b THEN [@ EXCEPT !.valid = FALSE]
                          ELSE Pollable([@ EXCEPT !.invalid = @ \cup {b},
                                                  !.cancels = Append(@, b)])]

-----------------------------------------------------------------------------
(* The uploading end.                                                      *)

SetUnchokedUnpolled(r, v) == [r EXCEPT !.unchoked = v, !.sendChoked = TRUE]

\* receive_upload_choke().
SetUnchoked(r, v) == Pollable([r EXCEPT !.unchoked = v, !.sendChoked = TRUE])

\* read_message(), read_request_piece() and read_cancel_piece().
SeedReads(r, m) ==
  CASE m.kind = "interested" -> [r EXCEPT !.queued = TRUE]
    [] m.kind = "uninterested" ->
         IF r.queued /\ r.unchoked THEN SetUnchoked([r EXCEPT !.queued = FALSE], FALSE)
         ELSE [r EXCEPT !.queued = FALSE]
    [] m.kind = "request" ->
         IF ~r.unchoked \/ m.b \in ToSet(r.uploads) THEN r
         ELSE Pollable([r EXCEPT !.uploads = Append(@, m.b)])
    [] m.kind = "cancel" -> [r EXCEPT !.uploads = Remove(@, m.b)]

ReadAtSeed ==
  /\ s.toR # <<>>
  /\ s' = [s EXCEPT !.toR = Tail(@), !.r = SeedReads(@, Head(s.toR))]

UpQueueDecides ==
  /\ s.left.up > 0 /\ s.r.queued /\ (Hasty \/ ~s.r.sendChoked)
  /\ s' = [s EXCEPT !.r = SetUnchoked(@, ~@.unchoked), !.left.up = @ - 1]

\* fill_write_buffer(): a choke empties the upload queue when it is written.
WriteChoke(r) ==
  IF ~r.sendChoked THEN r
  ELSE [r EXCEPT !.sendChoked = FALSE, !.throttled = r.unchoked, !.active = TRUE,
                 !.out = Append(@, Msg(IF r.unchoked THEN "unchoke" ELSE "choke", None)),
                 !.uploads = IF r.unchoked THEN @ ELSE <<>>]

PreparePiece(r) ==
  IF ~r.unchoked \/ r.uploads = <<>> THEN r
  ELSE [r EXCEPT !.piece = Head(r.uploads), !.uploads = Tail(@),
                 !.out = Append(@, Msg("piece", Head(r.uploads)))]

FillSeed(r) == PreparePiece(WriteChoke(r))

\* event_write(): the buffer, then the piece it announced, then idle again.
WriteAtSeed ==
  /\ s.r.poll
  /\ CASE s.r.up = "idle" ->
            LET f == FillSeed(s.r)
            IN  s' = [s EXCEPT !.r = [f EXCEPT !.up = IF f.out = <<>> THEN "idle" ELSE "msg",
                                               !.poll = f.out # <<>>]]
       [] s.r.up = "msg" ->
            s' = [s EXCEPT !.toL = @ \o s.r.out,
                           !.r = [@ EXCEPT !.out = <<>>,
                                           !.up = IF s.r.piece # None THEN "piece" ELSE "idle"]]
       [] s.r.up = "piece" ->
            \/ s' = [s EXCEPT !.toL = Append(@, Msg("data", s.r.piece)),
                              !.thrown = @ \/ ~s.r.throttled,
                              !.r = [@ EXCEPT !.piece = None, !.up = "idle"]]
            \* No quota: up_chunk() leaves the poll to the throttle.
            \/ s' = [s EXCEPT !.thrown = @ \/ ~s.r.throttled,
                              !.r = [@ EXCEPT !.poll = FALSE, !.active = FALSE]]

\* ThrottleList::update_quota() activates the node again.
ThrottleActivates ==
  /\ ~s.r.active /\ s.r.throttled
  /\ s' = [s EXCEPT !.r = [@ EXCEPT !.active = TRUE, !.poll = TRUE]]

Next ==
  \/ ReadAtLeech \/ ReadPieceData \/ WriteAtLeech
  \/ DownQueueDecides \/ DownQueueAdmits \/ Tick
  \/ DelayRemoveChoked \/ DelayProcessUnordered
  \/ \E b \in Blocks : DeliveredElsewhere(b)
  \/ ReadAtSeed \/ UpQueueDecides \/ WriteAtSeed \/ ThrottleActivates

Spec == Init /\ [][Next]_s
-----------------------------------------------------------------------------
(* Properties.                                                             *)

UnderWay(b) ==
  \/ \E m \in ToSet(s.l.out) \cup ToSet(s.toR) : m = Msg("request", b)
  \/ b \in ToSet(s.r.uploads) \cup {s.r.piece}
  \/ \E m \in ToSet(s.r.out) \cup ToSet(s.toL) : m.kind \in {"piece", "data"} /\ m.b = b

ChokeComing ==
  \/ s.r.sendChoked /\ ~s.r.unchoked
  \/ \E m \in ToSet(s.r.out) \cup ToSet(s.toL) : m.kind = "choke"

\* A request in the asking end's queue is never lost: it is still to be written,
\* on its way, in the other end's upload queue or being answered, or the asking
\* end is about to read the CHOKE that tells it the request was dropped
\* (RequestList::choked(), read_request_piece(), fill_write_buffer()).
NoRequestLost ==
  \A b \in ToSet(s.l.q) \ s.l.invalid : UnderWay(b) \/ ChokeComing

\* A block is in at most one bucket and once, and the timer that will give
\* back the choked and the passed-over requests is armed while there are any,
\* so no block stays reserved for a peer that forgot it.
BucketsDrain ==
  /\ Len(s.l.q) + Len(s.l.unordered) + Len(s.l.stalled) + Len(s.l.choked)
       + (IF s.l.valid THEN 1 ELSE 0) = Cardinality(Held(s.l))
  /\ s.l.choked # <<>> => s.l.removeTimer
  /\ s.l.unordered # <<>> => s.l.unorderedTimer

\* An idle end that has something to write is in the write poll, and an
\* uploading end out of it waits for the throttle that will put it back
\* (write_insert_poll_safe(), up_chunk()).
WriteArmed ==
  /\ s.r.up = "idle" /\ ~s.r.poll =>
       ~s.r.sendChoked /\ (s.r.unchoked => s.r.uploads = <<>>)
  /\ s.l.up = "idle" /\ ~s.l.poll =>
       s.l.cancels = <<>> /\ ~s.l.sendInterested /\ ~(s.l.try /\ ShouldRequest(s.l))
  /\ s.r.up # "idle" /\ ~s.r.poll => s.r.throttled /\ ~s.r.active

\* Neither end throws internal_error: a piece is read or written only in the
\* throttle list, never while another one is being read, and only a transfer
\* that is still wanted is finished.
NothingThrown == ~s.thrown

\* What receive_download_choke() says it does: "Tell the peer we're no longer
\* interested".  When nothing is on its way the other end knows whether this
\* one is interested.
InterestTold ==
  ~s.l.poll /\ s.l.up = "idle" /\ s.toR = <<>> => s.r.queued = s.l.interested
=============================================================================
